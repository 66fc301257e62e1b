---------------------------- MODULE ParserProofs ----------------------------
(***************************************************************************)
(* Proofs about Parser.  A place is what the handlers under way know of    *)
(* the parse: the brackets they have open, the nodes they are building,    *)
(* what may follow in the innermost one.  Each thing to do leads from some *)
(* places to others, whatever tokens it will meet; a production that is    *)
(* neutral leads from a place where a statement or an operand may begin    *)
(* back to it.  The inductive invariant: what is left to do leads from a   *)
(* place to the one where a program is whole, and the tokens read and the  *)
(* nodes built are as that place tells.  No step needs to know more of the *)
(* stack than its first item, so that programs may nest as deep as they    *)
(* like.  The second part, for programs made of expressions, follows the   *)
(* reader of expressions beside the parse: a spot is what the reader       *)
(* expects and has open, which tokens may come and how deep the tree is,   *)
(* and what is left to do carries the parse from a spot where the reader   *)
(* agrees with it to the outset.                                           *)
(***************************************************************************)
EXTENDS Parser, SequenceLemmas

-----------------------------------------------------------------------------
(* Folding over the tokens read.                                           *)

\* What is folded over the tokens read: the brackets open, or the reader of expressions.
Fed(what, x, t) == IF what = "brackets" THEN Nesting(x, t) ELSE Feed(x, t)
Unfed(what) == IF what = "brackets" THEN <<>> ELSE AtStart

\* A function that folds it over the first n tokens of s, set by set of positions.
IsFold(what, n, s, g) ==
  g = [S \in SUBSET (1..n) |->
        IF S = {} THEN Unfed(what) ELSE Fed(what, g[S \ {Max(S)}], s[Max(S)])]

\* The last position of 1..m is m.
LEMMA MaxOfInitial ==
  ASSUME NEW m \in Nat, NEW S \in SUBSET (1..m), m \in S
  PROVE  Max(S) = m
<1>1. \E x \in S : \A y \in S : x >= y
  OBVIOUS
<1>2. Max(S) \in S /\ \A y \in S : Max(S) >= y
  BY <1>1 DEF Max
<1>3. PICK x : x = Max(S)
  OBVIOUS
<1>4. x \in 1..m /\ x >= m
  BY <1>2, <1>3
<1> QED
  BY <1>3, <1>4

\* Such a function folds the tokens one by one, from the first one on.
LEMMA FoldUnfolds ==
  ASSUME NEW what, NEW n \in Nat, NEW s, NEW g, IsFold(what, n, s, g)
  PROVE  /\ g[1..0] = Unfed(what)
         /\ \A k \in 1..n : g[1..k] = Fed(what, g[1..(k - 1)], s[k])
<1>1. 1..0 = {} /\ {} \in SUBSET (1..n)
  OBVIOUS
<1>2. g[{}] = Unfed(what)
  BY <1>1 DEF IsFold
<1>3. ASSUME NEW k \in 1..n
      PROVE  g[1..k] = Fed(what, g[1..(k - 1)], s[k])
  <2>1. 1..k \in SUBSET (1..n) /\ 1..k # {} /\ k \in 1..k /\ k \in Nat
    OBVIOUS
  <2>2. Max(1..k) = k
    <3>1. 1..k \in SUBSET (1..k)
      OBVIOUS
    <3> QED
      BY <2>1, <3>1, MaxOfInitial
  <2>3. (1..k) \ {k} = 1..(k - 1)
    BY <2>1
  <2>4. g[1..k] = Fed(what, g[(1..k) \ {Max(1..k)}], s[Max(1..k)])
    BY <2>1 DEF IsFold
  <2> QED
    BY <2>2, <2>3, <2>4
<1> QED
  BY <1>1, <1>2, <1>3

\* Such a function exists.
LEMMA FoldExists ==
  ASSUME NEW what, NEW n \in Nat, NEW s
  PROVE  \E g : IsFold(what, n, s, g)
<1> DEFINE Has(m) == \E g : IsFold(what, m, s, g)
           T == {m \in 0..n : ~Has(m)}
<1> HIDE DEF Has
<1> SUFFICES ASSUME T # {} PROVE FALSE
  BY DEF Has
<1>1. T \subseteq Nat
  OBVIOUS
<1>2. PICK m \in T : \A j \in T : m <= j
  <2> HIDE DEF T
  <2> QED
    BY <1>1, FirstPosition
<1>3. m \in Nat /\ ~Has(m)
  OBVIOUS
<1>4. m # 0 => m - 1 \in Nat /\ Has(m - 1)
  BY <1>2
<1> HIDE DEF T
<1>5. m # 0
  <2> SUFFICES ASSUME m = 0 PROVE FALSE
    OBVIOUS
  <2> DEFINE g == [S \in SUBSET (1..0) |-> Unfed(what)]
  <2>1. \A S \in SUBSET (1..0) : S = {}
    OBVIOUS
  <2>2. IsFold(what, 0, s, g)
    BY <2>1 DEF IsFold
  <2> HIDE DEF g
  <2>3. Has(0)
    BY <2>2 DEF Has
  <2> QED
    BY <1>3, <2>3
<1>6. PICK g : IsFold(what, m - 1, s, g)
  BY <1>4, <1>5 DEF Has
<1> DEFINE h == [S \in SUBSET (1..m) |-> IF m \in S THEN Fed(what, g[S \ {m}], s[m]) ELSE g[S]]
<1>7. ASSUME NEW S \in SUBSET (1..m)
      PROVE  h[S] = IF S = {} THEN Unfed(what) ELSE Fed(what, h[S \ {Max(S)}], s[Max(S)])
  <2>1. S \ {m} \in SUBSET (1..(m - 1)) /\ S \ {m} \in SUBSET (1..m) /\ m \notin S \ {m}
    BY <1>3
  <2>2. CASE m \in S
    <3>1. Max(S) = m
      BY <1>3, <2>2, MaxOfInitial
    <3>2. h[S \ {m}] = g[S \ {m}]
      BY <2>1
    <3> QED
      BY <2>2, <3>1, <3>2
  <2>3. CASE m \notin S
    <3>1. S \in SUBSET (1..(m - 1)) /\ h[S] = g[S]
      BY <2>1, <2>3
    <3>2. g[S] = IF S = {} THEN Unfed(what) ELSE Fed(what, g[S \ {Max(S)}], s[Max(S)])
      BY <1>6, <3>1 DEF IsFold
    <3>3. S \ {Max(S)} \in SUBSET (1..m) /\ m \notin S \ {Max(S)}
      BY <2>3
    <3>4. h[S \ {Max(S)}] = g[S \ {Max(S)}]
      BY <3>3
    <3> HIDE DEF h
    <3> QED
      BY <3>1, <3>2, <3>4
  <2> QED
    BY <2>2, <2>3
<1>8. h = [S \in SUBSET (1..m) |-> h[S]]
  OBVIOUS
<1> HIDE DEF h
<1>9. IsFold(what, m, s, h)
  BY <1>7, <1>8 DEF IsFold
<1> QED
  BY <1>3, <1>9 DEF Has

\* FoldLeft of Nesting over the tokens is the value of such a function.
LEMMA NestingFolded ==
  ASSUME NEW n \in Nat, NEW s \in Seq(Tokens), Len(s) = n
  PROVE  \E g : IsFold("brackets", n, s, g) /\ FoldLeft(Nesting, <<>>, s) = g[1..n]
<1> DEFINE Folds(g) ==
             g = [S \in SUBSET (1..n) |->
                   IF S = {} THEN <<>> ELSE Nesting(g[S \ {Max(S)}], s[Max(S)])]
           c == CHOOSE g : Folds(g)
<1>1. FoldLeft(Nesting, <<>>, s) = c[1..n]
  <2>1. DOMAIN s = 1..n
    OBVIOUS
  <2> QED
    BY <2>1 DEF FoldLeft, MapThenFoldSet
<1>2. ASSUME NEW g
      PROVE  Folds(g) <=> IsFold("brackets", n, s, g)
  BY DEF IsFold, Fed, Unfed
<1> HIDE DEF Folds
<1>3. Folds(c)
  BY <1>2, FoldExists
<1> QED
  BY <1>1, <1>2, <1>3

\* FoldLeft of Feed over the tokens is the value of such a function.
LEMMA FeedFolded ==
  ASSUME NEW n \in Nat, NEW s \in Seq(Tokens), Len(s) = n
  PROVE  \E g : IsFold("reader", n, s, g) /\ FoldLeft(Feed, AtStart, s) = g[1..n]
<1> DEFINE Folds(g) ==
             g = [S \in SUBSET (1..n) |->
                   IF S = {} THEN AtStart ELSE Feed(g[S \ {Max(S)}], s[Max(S)])]
           c == CHOOSE g : Folds(g)
<1>1. FoldLeft(Feed, AtStart, s) = c[1..n]
  <2>1. DOMAIN s = 1..n
    OBVIOUS
  <2> QED
    BY <2>1 DEF FoldLeft, MapThenFoldSet
<1>2. ASSUME NEW g
      PROVE  Folds(g) <=> IsFold("reader", n, s, g)
  BY DEF IsFold, Fed, Unfed
<1> HIDE DEF Folds
<1>3. Folds(c)
  BY <1>2, FoldExists
<1> QED
  BY <1>1, <1>2, <1>3

\* One token more.
LEMMA FoldedAfter ==
  ASSUME NEW what, NEW n \in Nat, NEW s, NEW r, NEW t, NEW g, NEW f,
         IsFold(what, n, s, g), IsFold(what, n + 1, r, f),
         r[n + 1] = t, \A k \in 1..n : r[k] = s[k]
  PROVE  f[1..(n + 1)] = Fed(what, g[1..n], t)
<1>1. /\ g[1..0] = Unfed(what)
      /\ \A k \in 1..n : g[1..k] = Fed(what, g[1..(k - 1)], s[k])
  BY FoldUnfolds
<1>2. /\ f[1..0] = Unfed(what)
      /\ \A k \in 1..(n + 1) : f[1..k] = Fed(what, f[1..(k - 1)], r[k])
  <2>1. n + 1 \in Nat
    OBVIOUS
  <2> QED
    BY <2>1, FoldUnfolds
<1>3. \A k \in 0..n : f[1..k] = g[1..k]
  <2> DEFINE T == {k \in 0..n : f[1..k] # g[1..k]}
  <2> SUFFICES ASSUME T # {} PROVE FALSE
    OBVIOUS
  <2>1. T \subseteq Nat
    OBVIOUS
  <2>2. PICK k \in T : \A j \in T : k <= j
    <3> HIDE DEF T
    <3> QED
      BY <2>1, FirstPosition
  <2>3. k \in 0..n /\ f[1..k] # g[1..k]
    OBVIOUS
  <2>4. k # 0 => k - 1 \in 0..n /\ f[1..(k - 1)] = g[1..(k - 1)]
    BY <2>2
  <2> HIDE DEF T
  <2>5. k # 0
    BY <1>1, <1>2, <2>3
  <2>6. k \in 1..n /\ k \in 1..(n + 1)
    BY <2>3, <2>5
  <2> QED
    BY <1>1, <1>2, <2>3, <2>4, <2>5, <2>6
<1>4. n + 1 \in 1..(n + 1) /\ n + 1 - 1 = n
  OBVIOUS
<1>5. f[1..(n + 1)] = Fed(what, f[1..(n + 1 - 1)], r[n + 1])
  BY <1>2, <1>4
<1>6. f[1..n] = g[1..n]
  BY <1>3
<1> QED
  BY <1>4, <1>5, <1>6

\* No token leaves no bracket open; one more does with the open ones what Nesting says.
LEMMA NestingAfter ==
  ASSUME NEW s \in Seq(Tokens), NEW t \in Tokens
  PROVE  /\ FoldLeft(Nesting, <<>>, <<>>) = <<>>
         /\ FoldLeft(Nesting, <<>>, Append(s, t)) = Nesting(FoldLeft(Nesting, <<>>, s), t)
<1>1. PICK n \in Nat : n = Len(s)
  OBVIOUS
<1>2. PICK r \in Seq(Tokens) : r = Append(s, t)
  <2>1. Append(s, t) \in Seq(Tokens)
    OBVIOUS
  <2> QED
    BY <2>1
<1>3. Len(r) = n + 1 /\ r[n + 1] = t /\ \A k \in 1..n : r[k] = s[k]
  BY <1>1, <1>2
<1>4. PICK g : IsFold("brackets", n, s, g) /\ FoldLeft(Nesting, <<>>, s) = g[1..n]
  BY <1>1, NestingFolded
<1>5. PICK f : IsFold("brackets", n + 1, r, f) /\ FoldLeft(Nesting, <<>>, r) = f[1..(n + 1)]
  <2>1. n + 1 \in Nat
    OBVIOUS
  <2> QED
    BY <1>3, <2>1, NestingFolded
<1>6. f[1..(n + 1)] = Nesting(g[1..n], t)
  <2>1. f[1..(n + 1)] = Fed("brackets", g[1..n], t)
    BY <1>3, <1>4, <1>5, FoldedAfter
  <2> QED
    BY <2>1 DEF Fed
<1>7. FoldLeft(Nesting, <<>>, <<>>) = <<>>
  <2>1. <<>> \in Seq(Tokens) /\ Len(<<>>) = 0 /\ 0 \in Nat
    OBVIOUS
  <2>2. PICK e : IsFold("brackets", 0, <<>>, e) /\ FoldLeft(Nesting, <<>>, <<>>) = e[1..0]
    BY <2>1, NestingFolded
  <2>3. e[1..0] = <<>>
    BY <2>1, <2>2, FoldUnfolds DEF Unfed
  <2> QED
    BY <2>2, <2>3
<1> QED
  BY <1>2, <1>4, <1>5, <1>6, <1>7

\* The reader of expressions begins at its start, and each token takes it on.
LEMMA FeedAfter ==
  ASSUME NEW s \in Seq(Tokens), NEW t \in Tokens
  PROVE  /\ FoldLeft(Feed, AtStart, <<>>) = AtStart
         /\ FoldLeft(Feed, AtStart, Append(s, t)) = Feed(FoldLeft(Feed, AtStart, s), t)
<1>1. PICK n \in Nat : n = Len(s)
  OBVIOUS
<1>2. PICK r \in Seq(Tokens) : r = Append(s, t)
  <2>1. Append(s, t) \in Seq(Tokens)
    OBVIOUS
  <2> QED
    BY <2>1
<1>3. Len(r) = n + 1 /\ r[n + 1] = t /\ \A k \in 1..n : r[k] = s[k]
  BY <1>1, <1>2
<1>4. PICK g : IsFold("reader", n, s, g) /\ FoldLeft(Feed, AtStart, s) = g[1..n]
  BY <1>1, FeedFolded
<1>5. PICK f : IsFold("reader", n + 1, r, f) /\ FoldLeft(Feed, AtStart, r) = f[1..(n + 1)]
  <2>1. n + 1 \in Nat
    OBVIOUS
  <2> QED
    BY <1>3, <2>1, FeedFolded
<1>6. f[1..(n + 1)] = Feed(g[1..n], t)
  <2>1. PICK what : what = "reader"
    OBVIOUS
  <2>2. IsFold(what, n, s, g) /\ IsFold(what, n + 1, r, f)
    BY <1>4, <1>5, <2>1
  <2>3. f[1..(n + 1)] = Fed(what, g[1..n], t)
    BY <1>3, <2>2, FoldedAfter
  <2> QED
    BY <2>1, <2>3 DEF Fed
<1>7. FoldLeft(Feed, AtStart, <<>>) = AtStart
  <2>1. <<>> \in Seq(Tokens) /\ Len(<<>>) = 0 /\ 0 \in Nat
    OBVIOUS
  <2>2. PICK e : IsFold("reader", 0, <<>>, e) /\ FoldLeft(Feed, AtStart, <<>>) = e[1..0]
    BY <2>1, FeedFolded
  <2>3. e[1..0] = Unfed("reader")
    BY <2>1, <2>2, FoldUnfolds
  <2>4. Unfed("reader") = AtStart
    BY DEF Unfed
  <2> QED
    BY <2>2, <2>3, <2>4
<1> QED
  BY <1>2, <1>4, <1>5, <1>6, <1>7

-----------------------------------------------------------------------------
(* Tokens and powers.                                                      *)

\* The brackets.
Closing == {")", "]", "}"}
Brackets == Opening \cup Closing

\* Operators whose right operand ends where nothing continues it: their nodes
\* wait for the end of an expression.
Tight == TwoOperands \cup {"prefix"}

\* What the table of levels holds, entry by entry.
LEMMA LevelFacts ==
  /\ DOMAIN Levels = 1..6
  /\ Levels[1][1] = assignment /\ Levels[1][2] = {"=", "+=", "-=", "++"}
  /\ Levels[2][1] = logical /\ Levels[2][2] = {"&&", "||", ".."}
  /\ Levels[3][1] = relational /\ Levels[3][2] = {"<", "<=", ">", ">=", "==", "!="}
  /\ Levels[4][1] = additive /\ Levels[4][2] = {"+", "-"}
  /\ Levels[5][1] = multiplicative /\ Levels[5][2] = {"*", "/", "%"}
  /\ Levels[6][1] = call /\ Levels[6][2] = {"[", "(", "."}
BY DEF Levels

\* The operators, token by token.
LEMMA LedFacts ==
  /\ Led = {"=", "+=", "-=", "++", "&&", "||", "..", "<", "<=", ">", ">=", "==", "!=",
            "+", "-", "*", "/", "%", "[", "(", "."}
  /\ Binary = {"&&", "||", "..", "<", "<=", ">", ">=", "==", "!=", "+", "-", "*", "/", "%"}
<1>1. 1..6 = {1, 2, 3, 4, 5, 6} /\ 2..5 = {2, 3, 4, 5}
  OBVIOUS
<1>2. Led = UNION {Levels[i][2] : i \in {1, 2, 3, 4, 5, 6}}
  BY <1>1, LevelFacts DEF Led
<1>3. Binary = UNION {Levels[i][2] : i \in {2, 3, 4, 5}}
  BY <1>1 DEF Binary
<1>4. Led = Levels[1][2] \cup Levels[2][2] \cup Levels[3][2] \cup Levels[4][2] \cup Levels[5][2] \cup Levels[6][2]
  BY <1>2
<1>5. Binary = Levels[2][2] \cup Levels[3][2] \cup Levels[4][2] \cup Levels[5][2]
  BY <1>3
<1>6. Led = {"=", "+=", "-=", "++", "&&", "||", "..", "<", "<=", ">", ">=", "==", "!=",
            "+", "-", "*", "/", "%", "[", "(", "."}
  BY <1>4, LevelFacts
<1> QED
  BY <1>5, <1>6, LevelFacts

\* Brackets and the end of the file are tokens.
LEMMA TokenFacts1 ==
  /\ Opening \subseteq Tokens /\ Closing \subseteq Tokens /\ Opening \cap Closing = {}
  /\ "EOF" \in Tokens /\ "EOF" \notin Brackets
BY DEF Opening, Closing, Brackets, Tokens, Punctuation

\* Names and texts are tokens.
LEMMA TokenFacts2 ==
  /\ Names \subseteq Tokens /\ Identifiers \subseteq Names /\ "id" \in Identifiers
  /\ Texts \subseteq Tokens
BY DEF Names, Identifiers, Tokens

\* Operators are tokens, those with two operands among them.
LEMMA TokenFacts3 ==
  /\ Led \subseteq Tokens /\ TwoOperands \subseteq Led /\ "EOF" \notin Led
BY LedFacts DEF TwoOperands, Tokens, Punctuation

\* A keyword is no operator, no bracket and not the end.
LEMMA KeywordFacts ==
  /\ Keywords \cap (Brackets \cup Led \cup Tight \cup {"EOF", "none"}) = {}
  /\ Keywords \subseteq Tokens
<1>1. Keywords \cap (Brackets \cup Led \cup Tight \cup {"EOF", "none"}) = {}
  BY LedFacts DEF Keywords, Brackets, Opening, Closing, Tight, TwoOperands
<1> QED
  BY <1>1 DEF Tokens

\* Nor is a name.
LEMMA TokenFacts4 ==
  Names \cap (Brackets \cup Led \cup Tight \cup {"EOF", "none"}) = {}
<1>1. Identifiers \cap (Brackets \cup Led \cup Tight \cup {"EOF", "none"}) = {}
  BY LedFacts DEF Identifiers, FieldNames, Brackets, Opening, Closing, Tight, TwoOperands
<1>2. Names \subseteq Identifiers \cup Keywords
  BY DEF Names
<1> QED
  BY <1>1, <1>2, KeywordFacts

\* A text is no operator, no bracket and not the end.
LEMMA TokenFacts5 ==
  Texts \cap (Brackets \cup Led \cup Tight \cup {"EOF", "none"}) = {}
BY LedFacts DEF Texts, ActionKinds, Brackets, Opening, Closing, Tight, TwoOperands

\* The kinds of nodes that are no token, and the token past the end.
LEMMA TokenFacts6 ==
  /\ NodeOps \cap (Led \cup TwoOperands) = {}
  /\ "prefix" \notin Tokens /\ "none" \notin Tokens /\ "statement" \notin Tokens
BY LedFacts DEF Tokens, Names, Identifiers, FieldNames, Keywords, Texts,
       ActionKinds, Punctuation,  TwoOperands,  NodeOps

\* The tokens with a power are the operators; those of assignment have the lowest.
LEMMA PowerOf ==
  ASSUME NEW t
  PROVE  /\ bp_lu(t) \in Nat
         /\ bp_lu(t) > 0 <=> t \in Led
         /\ t \in {"=", "+=", "-=", "++"} => bp_lu(t) = assignment
<1>1. t \in Led <=> \E l \in DOMAIN Levels : t \in Levels[l][2]
  BY DEF Led
<1>2. CASE t \notin Led
  BY <1>1, <1>2, LedFacts DEF bp_lu, defalt_bp
<1>3. CASE t \in Led
  <2>1. PICK i : i = CHOOSE l \in DOMAIN Levels : t \in Levels[l][2]
    OBVIOUS
  <2>2. i \in DOMAIN Levels /\ t \in Levels[i][2]
    BY <1>1, <1>3, <2>1
  <2>3. bp_lu(t) = Levels[i][1]
    BY <1>1, <1>3, <2>1 DEF bp_lu
  <2>4. i \in {1, 2, 3, 4, 5, 6}
    BY <2>2, LevelFacts
  <2>5. Levels[i][1] \in {2, 3, 4, 5, 6, 8}
    BY <2>4, LevelFacts
       DEF assignment, logical, relational, additive, multiplicative, call
  <2>6. t \in {"=", "+=", "-=", "++"} => i = 1
    BY <2>2, <2>4, LevelFacts
  <2> QED
    BY <1>3, <2>3, <2>5, <2>6, LevelFacts
<1> QED
  BY <1>2, <1>3

\* Taking back the element pushed last.
LEMMA PushedAndPopped ==
  ASSUME NEW S, NEW s \in Seq(S), NEW e \in S
  PROVE  Front(Append(s, e)) = s /\ Last(Append(s, e)) = e /\ Append(s, e) # <<>>
<1>1. PICK r \in Seq(S) : r = Append(s, e)
  BY AppendedProperties
<1>2. Len(r) = Len(s) + 1 /\ r[Len(s) + 1] = e /\ r # <<>> /\ \A i \in 1..Len(s) : r[i] = s[i]
  BY <1>1, AppendedProperties
<1>3. /\ Front(r) \in Seq(S) /\ Len(Front(r)) = Len(r) - 1
      /\ \A i \in 1..(Len(r) - 1) : Front(r)[i] = r[i]
      /\ Last(r) = r[Len(r)]
  BY <1>2, FrontProperties
<1>4. PICK f \in Seq(S) : f = Front(r)
  BY <1>3
<1>5. Len(f) = Len(s) /\ \A i \in 1..Len(s) : f[i] = s[i]
  BY <1>2, <1>3, <1>4
<1>6. f = s
  <2>1. Len(f) = Len(s) /\ \A i \in 1..Len(f) : f[i] = s[i]
    BY <1>5
  <2> QED
    BY <2>1, SeqEqual
<1> QED
  BY <1>1, <1>2, <1>3, <1>4, <1>6

\* What each token does to the open brackets.
LEMMA NestingFacts ==
  ASSUME NEW open \in Seq(Opening), NEW t
  PROVE  /\ t \notin Brackets => Nesting(open, t) = open
         /\ t \in Opening => Nesting(open, t) = Append(open, t)
         /\ t \in Closing => MatchOf(t) \in Opening /\ Nesting(Append(open, MatchOf(t)), t) = open
<1>1. t \notin Brackets => Nesting(open, t) = open
  BY DEF Nesting, Brackets, Closing
<1>2. t \in Opening => Nesting(open, t) = Append(open, t)
  BY DEF Nesting, Opening
<1>3. ASSUME t \in Closing
      PROVE  MatchOf(t) \in Opening /\ Nesting(Append(open, MatchOf(t)), t) = open
  <2>1. MatchOf(t) \in Opening
    BY <1>3 DEF MatchOf, Closing, Opening
  <2>2. PICK r : r = Append(open, MatchOf(t))
    OBVIOUS
  <2>3. Front(r) = open /\ Last(r) = MatchOf(t) /\ r # <<>>
    BY <2>1, <2>2, PushedAndPopped
  <2>4. t \notin Opening
    BY <1>3 DEF Closing, Opening
  <2>5. Nesting(r, t) = open
    BY <1>3, <2>3, <2>4 DEF Nesting, Closing
  <2> QED
    BY <2>1, <2>2, <2>5
<1> QED
  BY <1>1, <1>2, <1>3

-----------------------------------------------------------------------------
(* Places, and the walks that handlers make between them.                  *)

\* The kinds of nodes.
Ops == Tokens \cup NodeOps \cup {"program", "statement"}

\* What is known of a node under construction: its kind and, of an operator's, a
\* power that the operator and the left edge of its left operand exceed.
Frames == [op : Ops, left : Nat]

\* Positions after an operand: of the innermost node, and of an expression.
Complete == {"operand", "expression"}

\* The innermost node.
Top(x) == x.nodes[Len(x.nodes)]

\* A place in a parse: the brackets open, the nodes under construction, the
\* position in the innermost and, after an operand, the power it is bound by.
Labels == [open : Seq(Opening), nodes : Seq(Frames),
           at : {"item", "import", "name", "operand", "expression"}, bound : Nat]

\* The bound of a right operand is the power of its operator, of a prefix
\* operator's operand it is the lowest.
Places ==
  {x \in Labels :
     /\ x.nodes # <<>>
     /\ IF x.at \in Complete
        THEN /\ Top(x).op \in TwoOperands => x.bound = bp_lu(Top(x).op)
             /\ Top(x).op = "prefix" => x.bound = 0
        ELSE x.bound = 0}

\* A position where nothing is waited for: in a node with any number of children.
Loose(x) == x.at = "item" /\ Top(x).op \notin Tight

\* Making places, and the places near a place.
Place(open, nodes, at, bound) ==
  [open |-> open, nodes |-> nodes, at |-> at, bound |-> bound]
At(x, at, bound) == Place(x.open, x.nodes, at, bound)
Inside(x, t) == Place(Append(x.open, t), x.nodes, x.at, x.bound)
Under(x, op, left) ==
  Place(x.open, Append(x.nodes, [op |-> op, left |-> left]), "item", 0)

\* y is x with at its end what is said, or what a loose node forgets of it.
Becomes(x, y, at, bound) ==
  \/ y = At(x, at, bound)
  \/ Top(x).op \notin Tight /\ y = At(x, "item", 0)

\* What a token counts as when it is taken by a set.
Taken(set, t) == IF set = Tokens THEN "id" ELSE t

\* Consuming any token of the item's set leads from x to y.
TakesToken(i, x, y) ==
  /\ y.nodes = x.nodes
  /\ \A t \in i.any : y.open = Nesting(x.open, Taken(i.any, t))
  /\ "EOF" \in i.any => i.any = Tokens /\ x.at = "name"
  /\ IF i.keep
     THEN /\ x.at = "item" /\ i.any \cap Led = {}
          /\ \E b \in Nat : Becomes(x, y, "operand", b)
     ELSE /\ x.at \notin Complete /\ y.at \notin Complete
          /\ y.at = "import" => i.any = {"import"}
          /\ y.at = "name" => i.any \in {{"contract"}, {"fn"}} \/ x.at = "import"

\* The innermost node ends: it is an operand of the one around it, or just a child.
EndsNode(x, y) ==
  /\ x.at = IF Top(x).op \in Tight THEN "expression" ELSE "item"
  /\ y.open = x.open /\ y.nodes = Front(x.nodes)
  /\ \/ y.at = "operand" /\ (Top(x).op \in Led => y.bound <= Top(x).left)
     \/ Loose(y)

\* The node of an action's field ends.
EndsField(x, y) ==
  /\ x.at = "item" /\ Top(x).op \notin Tight \cup Led
  /\ y.open = x.open /\ y.nodes = Front(x.nodes) /\ Loose(y)

\* Doing the item, with all that it stands for, leads from x to y.
Takes(i, x, y) ==
  CASE i.do = "expect" -> TakesToken(i, x, y)
    [] i.do = "expr" -> x.at = "item" /\ Becomes(x, y, "expression", i.bp)
    [] i.do = "operators" ->
         x.at = "operand" /\ x.bound = i.bp /\ Becomes(x, y, "expression", i.bp)
    [] i.do = "node" -> x.at = "item" /\ y = Under(x, i.op, 0)
    [] i.do = "done" -> EndsNode(x, y)
    [] i.do = "action_value" -> EndsField(x, y)
    [] i.do = "panic" -> TRUE
    [] OTHER -> y = x /\ Loose(x)

\* Takes, one kind of item at a time.
LEMMA TakesByKind ==
  ASSUME NEW i, NEW x, NEW y
  PROVE  /\ i.do = "expect" => (Takes(i, x, y) <=> TakesToken(i, x, y))
         /\ i.do = "expr" =>
              (Takes(i, x, y) <=> x.at = "item" /\ Becomes(x, y, "expression", i.bp))
         /\ i.do = "operators" =>
              (Takes(i, x, y) <=>
                x.at = "operand" /\ x.bound = i.bp /\ Becomes(x, y, "expression", i.bp))
         /\ i.do = "node" => (Takes(i, x, y) <=> x.at = "item" /\ y = Under(x, i.op, 0))
         /\ i.do = "done" => (Takes(i, x, y) <=> EndsNode(x, y))
         /\ i.do = "action_value" => (Takes(i, x, y) <=> EndsField(x, y))
         /\ i.do = "panic" => Takes(i, x, y)
         /\ i.do \notin {"expect", "expr", "operators", "node", "done", "action_value", "panic"} =>
              (Takes(i, x, y) <=> y = x /\ Loose(x))
BY DEF Takes

\* What a place is made of.
LEMMA PlaceFacts ==
  ASSUME NEW x \in Places
  PROVE  /\ x.open \in Seq(Opening) /\ x.nodes \in Seq(Frames) /\ x.nodes # <<>>
         /\ x.at \in {"item", "import", "name", "operand", "expression"} /\ x.bound \in Nat
         /\ x.at \notin Complete => x.bound = 0
         /\ x.at \in Complete /\ Top(x).op \in TwoOperands => x.bound = bp_lu(Top(x).op)
         /\ x.at \in Complete /\ Top(x).op = "prefix" => x.bound = 0
         /\ x = Place(x.open, x.nodes, x.at, x.bound)
BY DEF Places, Labels, Place

\* Places are made of any such parts.
LEMMA PlaceMade ==
  ASSUME NEW open \in Seq(Opening), NEW nodes \in Seq(Frames), nodes # <<>>,
         NEW at \in {"item", "import", "name", "operand", "expression"}, NEW bound \in Nat,
         at \notin Complete => bound = 0,
         at \in Complete /\ nodes[Len(nodes)].op \in TwoOperands =>
           bound = bp_lu(nodes[Len(nodes)].op),
         at \in Complete /\ nodes[Len(nodes)].op = "prefix" => bound = 0
  PROVE  LET y == Place(open, nodes, at, bound) IN
         /\ y \in Places /\ y.open = open /\ y.nodes = nodes /\ y.at = at /\ y.bound = bound
         /\ Top(y) = nodes[Len(nodes)]
<1>1. PICK y : y = Place(open, nodes, at, bound)
  OBVIOUS
<1>2. y \in Labels /\ y.open = open /\ y.nodes = nodes /\ y.at = at /\ y.bound = bound
  BY <1>1 DEF Place, Labels
<1>3. y \in Places
  BY <1>2 DEF Places, Top
<1> QED
  BY <1>1, <1>2, <1>3 DEF Top

\* Doing the items of q one after the other leads from a to b in P, each as R says:
\* R holds what an item leads from and to.
Leads(R, P, q, a, b) ==
  /\ q \in Seq(Items) /\ a \in P /\ b \in P
  /\ \E h \in [0..Len(q) -> P] :
       /\ h[0] = a /\ h[Len(q)] = b
       /\ \A k \in 1..Len(q) : <<q[k], h[k - 1], h[k]>> \in R

\* Nothing to do stays where it is.
LEMMA LeadsNone ==
  ASSUME NEW R, NEW P, NEW a \in P
  PROVE  Leads(R, P, <<>>, a, a)
<1>1. <<>> \in Seq(Items) /\ Len(<<>>) = 0
  OBVIOUS
<1>2. PICK h : h = [k \in 0..0 |-> a]
  OBVIOUS
<1>3. h \in [0..0 -> P] /\ h[0] = a /\ 1..0 = {}
  BY <1>2
<1> QED
  BY <1>1, <1>3 DEF Leads

\* One item is a walk of one step.
LEMMA LeadsOne ==
  ASSUME NEW R, NEW P, NEW i \in Items, NEW a \in P, NEW b \in P, <<i, a, b>> \in R
  PROVE  Leads(R, P, <<i>>, a, b)
<1> DEFINE h == [k \in 0..1 |-> IF k = 0 THEN a ELSE b]
<1>1. <<i>> \in Seq(Items) /\ Len(<<i>>) = 1 /\ <<i>>[1] = i
  OBVIOUS
<1>2. h \in [0..1 -> P] /\ h[0] = a /\ h[1] = b
  OBVIOUS
<1> HIDE DEF h
<1>3. \A k \in 1..1 : k = 1
  OBVIOUS
<1> QED
  BY <1>1, <1>2, <1>3 DEF Leads

\* Two walks make one.
LEMMA LeadsJoin ==
  ASSUME NEW R, NEW P, NEW p, NEW q, NEW a, NEW m, NEW b, Leads(R, P, p, a, m), Leads(R, P, q, m, b)
  PROVE  Leads(R, P, p \o q, a, b)
<1>1. p \in Seq(Items) /\ q \in Seq(Items) /\ a \in P /\ b \in P
  BY DEF Leads
<1>2. PICK n \in Nat, l \in Nat : n = Len(p) /\ l = Len(q)
  BY <1>1
<1>3. PICK f \in [0..n -> P] : f[0] = a /\ f[n] = m /\ \A k \in 1..n : <<p[k], f[k - 1], f[k]>> \in R
  BY <1>2 DEF Leads
<1>4. PICK g \in [0..l -> P] : g[0] = m /\ g[l] = b /\ \A k \in 1..l : <<q[k], g[k - 1], g[k]>> \in R
  BY <1>2 DEF Leads
<1>5. /\ p \o q \in Seq(Items) /\ Len(p \o q) = n + l
      /\ \A k \in 1..n : (p \o q)[k] = p[k]
      /\ \A k \in 1..(n + l) : k > n => k - n \in 1..l /\ (p \o q)[k] = q[k - n]
  BY <1>1, <1>2, ExtendedProperties
<1> DEFINE h == [k \in 0..(n + l) |-> IF k <= n THEN f[k] ELSE g[k - n]]
<1>6. h \in [0..(n + l) -> P]
  BY <1>3, <1>4
<1>7. h[0] = a /\ h[n + l] = b
  BY <1>3, <1>4
<1>8. ASSUME NEW k \in 1..(n + l)
      PROVE  <<(p \o q)[k], h[k - 1], h[k]>> \in R
  <2>1. CASE k <= n
    <3>1. k \in 1..n /\ h[k - 1] = f[k - 1] /\ h[k] = f[k]
      BY <2>1
    <3> HIDE DEF h
    <3> QED
      BY <1>3, <1>5, <3>1
  <2>2. CASE k > n
    <3>1. k - n \in 1..l /\ (p \o q)[k] = q[k - n] /\ h[k] = g[k - n]
      BY <1>5, <2>2
    <3>2. h[k - 1] = g[(k - n) - 1]
      BY <1>3, <1>4, <2>2
    <3> HIDE DEF h
    <3> QED
      BY <1>4, <3>1, <3>2
  <2> HIDE DEF h
  <2>3. k <= n \/ k > n
    OBVIOUS
  <2> QED
    BY <2>1, <2>2, <2>3
<1> HIDE DEF h
<1> QED
  BY <1>1, <1>5, <1>6, <1>7, <1>8 DEF Leads

\* A walk is a step and a walk.
LEMMA LeadsCut ==
  ASSUME NEW R, NEW P, NEW q, NEW a, NEW b, Leads(R, P, q, a, b), q # <<>>
  PROVE  /\ Head(q) \in Items /\ Tail(q) \in Seq(Items)
         /\ \E m \in P : <<Head(q), a, m>> \in R /\ Leads(R, P, Tail(q), m, b)
<1>1. q \in Seq(Items) /\ a \in P /\ b \in P
  BY DEF Leads
<1>2. PICK n \in Nat : n = Len(q)
  BY <1>1
<1>3. n > 0 /\ Head(q) = q[1] /\ Head(q) \in Items
  BY <1>1, <1>2, EmptySeq
<1>4. PICK f \in [0..n -> P] : f[0] = a /\ f[n] = b /\ \A k \in 1..n : <<q[k], f[k - 1], f[k]>> \in R
  BY <1>2 DEF Leads
<1>5. Tail(q) \in Seq(Items) /\ Len(Tail(q)) = n - 1 /\ \A k \in 1..(n - 1) : Tail(q)[k] = q[k + 1]
  BY <1>1, <1>2, <1>3, HeadTailProperties
<1> DEFINE h == [k \in 0..(n - 1) |-> f[k + 1]]
<1>6. h \in [0..(n - 1) -> P] /\ h[0] = f[1] /\ h[n - 1] = b
  BY <1>3, <1>4
<1>7. ASSUME NEW k \in 1..(n - 1)
      PROVE  <<Tail(q)[k], h[k - 1], h[k]>> \in R
  <2>1. h[k - 1] = f[k] /\ h[k] = f[k + 1] /\ k + 1 \in 1..n /\ (k + 1) - 1 = k
    BY <1>2
  <2> HIDE DEF h
  <2> QED
    BY <1>4, <1>5, <2>1
<1> HIDE DEF h
<1>8. f[1] \in P /\ <<Head(q), a, f[1]>> \in R
  <2>1. 1 \in 1..n /\ 1 \in 0..n /\ 1 - 1 = 0
    BY <1>3
  <2> QED
    BY <1>3, <1>4, <2>1
<1>9. Leads(R, P, Tail(q), f[1], b)
  BY <1>1, <1>5, <1>6, <1>7, <1>8 DEF Leads
<1> QED
  BY <1>3, <1>5, <1>8, <1>9

\* Doing the items of q one after the other leads from a to b.
Taking == {z \in Items \X Places \X Places : Takes(z[1], z[2], z[3])}
Walks(q, a, b) == Leads(Taking, Places, q, a, b)

LEMMA TakingFacts ==
  ASSUME NEW i, NEW a \in Places, NEW b \in Places
  PROVE  <<i, a, b>> \in Taking <=> i \in Items /\ Takes(i, a, b)
<1>1. <<i, a, b>>[1] = i /\ <<i, a, b>>[2] = a /\ <<i, a, b>>[3] = b
  OBVIOUS
<1>2. <<i, a, b>> \in Items \X Places \X Places <=> i \in Items
  OBVIOUS
<1> QED
  BY <1>1, <1>2 DEF Taking

LEMMA WalkNone ==
  ASSUME NEW a \in Places
  PROVE  Walks(<<>>, a, a)
BY LeadsNone DEF Walks

LEMMA WalkOne ==
  ASSUME NEW i \in Items, NEW a \in Places, NEW b \in Places, Takes(i, a, b)
  PROVE  Walks(<<i>>, a, b)
BY LeadsOne, TakingFacts DEF Walks

LEMMA WalkJoin ==
  ASSUME NEW p, NEW q, NEW a, NEW m, NEW b, Walks(p, a, m), Walks(q, m, b)
  PROVE  Walks(p \o q, a, b)
BY LeadsJoin DEF Walks

LEMMA WalkCut ==
  ASSUME NEW q, NEW a, NEW b, Walks(q, a, b), q # <<>>
  PROVE  /\ Head(q) \in Items /\ Tail(q) \in Seq(Items)
         /\ \E m \in Places : Takes(Head(q), a, m) /\ Walks(Tail(q), m, b)
<1>1. a \in Places
  BY DEF Walks, Leads
<1>2. /\ Head(q) \in Items /\ Tail(q) \in Seq(Items)
      /\ \E m \in Places : <<Head(q), a, m>> \in Taking /\ Walks(Tail(q), m, b)
  BY LeadsCut DEF Walks
<1> QED
  BY <1>1, <1>2, TakingFacts

-----------------------------------------------------------------------------
(* Tuples, and the productions that are neutral.                           *)

\* Tuples, with their first element or both ends apart.
LEMMA First2 ==
  ASSUME NEW a, NEW b
  PROVE  <<a, b>> = <<a>> \o <<b>>
<1>1. <<a>> \in Seq({a, b})
  OBVIOUS
<1>2. Append(<<a>>, b) = <<a>> \o <<b>>
  BY <1>1, AppendIsConcat
<1>3. <<a, b>> = Append(<<a>>, b)
  OBVIOUS
<1> QED
  BY <1>2, <1>3, Zenon

LEMMA First3 ==
  ASSUME NEW a, NEW b, NEW c
  PROVE  <<a, b, c>> = <<a>> \o <<b, c>>
BY SMTT(30)

LEMMA First4 ==
  ASSUME NEW a, NEW b, NEW c, NEW d
  PROVE  <<a, b, c, d>> = <<a>> \o <<b, c, d>>
BY SMTT(30)

LEMMA First5 ==
  ASSUME NEW a, NEW b, NEW c, NEW d, NEW e
  PROVE  <<a, b, c, d, e>> = <<a>> \o <<b, c, d, e>>
BY SMTT(30)

LEMMA First6 ==
  ASSUME NEW a, NEW b, NEW c, NEW d, NEW e, NEW f
  PROVE  <<a, b, c, d, e, f>> = <<a>> \o <<b, c, d, e, f>>
BY SMTT(30)

LEMMA First7 ==
  ASSUME NEW a, NEW b, NEW c, NEW d, NEW e, NEW f, NEW g
  PROVE  <<a, b, c, d, e, f, g>> = <<a>> \o <<b, c, d, e, f, g>>
BY SMTT(30)

LEMMA First8 ==
  ASSUME NEW a, NEW b, NEW c, NEW d, NEW e, NEW f, NEW g, NEW h
  PROVE  <<a, b, c, d, e, f, g, h>> = <<a>> \o <<b, c, d, e, f, g, h>>
BY SMTT(30)

\* Tuples with both ends apart, of two elements to eight.
LEMMA Ends2 ==
  ASSUME NEW a, NEW b
  PROVE  <<a, b>> = <<a>> \o <<>> \o <<b>>
<1>1. <<a>> \o <<>> = <<a>>
  <2>1. <<a>> \in Seq({a})
    OBVIOUS
  <2> QED
    BY <2>1, ConcatEmptySeq
<1>2. <<a, b>> = <<a>> \o <<b>>
  BY First2
<1> QED
  BY <1>1, <1>2, Zenon

LEMMA Ends3 ==
  ASSUME NEW a, NEW b, NEW c
  PROVE  <<a, b, c>> = <<a>> \o <<b>> \o <<c>>
<1>1. <<a, b>> = <<a>> \o <<b>>
  BY First2
<1>2. <<a, b, c>> = <<a, b>> \o <<c>>
  BY SMTT(30)
<1> QED
  BY <1>1, <1>2, Zenon

LEMMA Ends4 ==
  ASSUME NEW a, NEW b, NEW c, NEW d
  PROVE  <<a, b, c, d>> = <<a>> \o <<b, c>> \o <<d>>
<1>1. <<a, b, c>> = <<a>> \o <<b, c>>
  BY First3
<1>2. <<a, b, c, d>> = <<a, b, c>> \o <<d>>
  BY SMTT(30)
<1> QED
  BY <1>1, <1>2, Zenon

LEMMA Ends5 ==
  ASSUME NEW a, NEW b, NEW c, NEW d, NEW e
  PROVE  <<a, b, c, d, e>> = <<a>> \o <<b, c, d>> \o <<e>>
<1>1. <<a, b, c, d>> = <<a>> \o <<b, c, d>>
  BY First4
<1>2. <<a, b, c, d, e>> = <<a, b, c, d>> \o <<e>>
  BY SMTT(30)
<1> QED
  BY <1>1, <1>2, Zenon

LEMMA Ends6 ==
  ASSUME NEW a, NEW b, NEW c, NEW d, NEW e, NEW f
  PROVE  <<a, b, c, d, e, f>> = <<a>> \o <<b, c, d, e>> \o <<f>>
<1>1. <<a, b, c, d, e>> = <<a>> \o <<b, c, d, e>>
  BY First5
<1>2. <<a, b, c, d, e, f>> = <<a, b, c, d, e>> \o <<f>>
  BY SMTT(30)
<1> QED
  BY <1>1, <1>2, Zenon

LEMMA Ends7 ==
  ASSUME NEW a, NEW b, NEW c, NEW d, NEW e, NEW f, NEW g
  PROVE  <<a, b, c, d, e, f, g>> = <<a>> \o <<b, c, d, e, f>> \o <<g>>
<1>1. <<a, b, c, d, e, f>> = <<a>> \o <<b, c, d, e, f>>
  BY First6
<1>2. <<a, b, c, d, e, f, g>> = <<a, b, c, d, e, f>> \o <<g>>
  BY SMTT(30)
<1> QED
  BY <1>1, <1>2, Zenon

LEMMA Ends8 ==
  ASSUME NEW a, NEW b, NEW c, NEW d, NEW e, NEW f, NEW g, NEW h
  PROVE  <<a, b, c, d, e, f, g, h>> = <<a>> \o <<b, c, d, e, f, g>> \o <<h>>
<1>1. <<a, b, c, d, e, f, g>> = <<a>> \o <<b, c, d, e, f, g>>
  BY First7
<1>2. <<a, b, c, d, e, f, g, h>> = <<a, b, c, d, e, f, g>> \o <<h>>
  BY SMTT(30)
<1> QED
  BY <1>1, <1>2, Zenon

\* A tuple of four with the last element apart.
LEMMA Last4 ==
  ASSUME NEW a, NEW b, NEW c, NEW d
  PROVE  <<a, b, c, d>> = <<a, b, c>> \o <<d>>
BY SMTT(30)

\* A production, and an item, that lead from every loose place back to it.
Neutral(q) == \A x \in Places : Loose(x) => Walks(q, x, x)
Calm(i) == i \in Items /\ \A x \in Places : Loose(x) => Takes(i, x, x)

\* Doing nothing is neutral.
LEMMA NeutralNone == Neutral(<<>>)
BY WalkNone DEF Neutral

\* A calm item alone is neutral.
LEMMA NeutralOne ==
  ASSUME NEW i, Calm(i)
  PROVE  Neutral(<<i>>)
BY WalkOne DEF Neutral, Calm

\* One neutral production after the other is neutral.
LEMMA NeutralJoin ==
  ASSUME NEW p, NEW q, Neutral(p), Neutral(q)
  PROVE  Neutral(p \o q)
<1> SUFFICES ASSUME NEW x \in Places, Loose(x)
             PROVE  Walks(p \o q, x, x)
  BY DEF Neutral
<1>1. Walks(p, x, x) /\ Walks(q, x, x)
  BY DEF Neutral
<1> QED
  BY <1>1, WalkJoin

\* A calm item before what is neutral.
LEMMA NeutralCalm ==
  ASSUME NEW i, NEW q, Calm(i), Neutral(q)
  PROVE  Neutral(<<i>> \o q)
BY NeutralOne, NeutralJoin

\* Calm items one after the other, from two to five.
LEMMA Neutral2 ==
  ASSUME NEW i, NEW j, Calm(i), Calm(j)
  PROVE  Neutral(<<i, j>>)
<1>1. <<i, j>> = <<i>> \o <<j>>
  BY First2
<1> QED
  BY <1>1, NeutralOne, NeutralCalm

LEMMA Neutral3 ==
  ASSUME NEW i, NEW j, NEW k, Calm(i), Calm(j), Calm(k)
  PROVE  Neutral(<<i, j, k>>)
<1>1. <<i, j, k>> = <<i>> \o <<j, k>>
  BY First3
<1> QED
  BY <1>1, Neutral2, NeutralCalm

LEMMA Neutral4 ==
  ASSUME NEW i, NEW j, NEW k, NEW l, Calm(i), Calm(j), Calm(k), Calm(l)
  PROVE  Neutral(<<i, j, k, l>>)
<1>1. <<i, j, k, l>> = <<i>> \o <<j, k, l>>
  BY First4
<1> QED
  BY <1>1, Neutral3, NeutralCalm

LEMMA Neutral5 ==
  ASSUME NEW i, NEW j, NEW k, NEW l, NEW m, Calm(i), Calm(j), Calm(k), Calm(l), Calm(m)
  PROVE  Neutral(<<i, j, k, l, m>>)
<1>1. <<i, j, k, l, m>> = <<i>> \o <<j, k, l, m>>
  BY First5
<1> QED
  BY <1>1, Neutral4, NeutralCalm

\* What a bracket encloses: the places around it have one bracket less.
LEMMA NeutralBracketed ==
  ASSUME NEW o \in Opening, NEW c \in Closing, MatchOf(c) = o, NEW q, Neutral(q)
  PROVE  Neutral(<<Expect(o)>> \o q \o <<Expect(c)>>)
<1> SUFFICES ASSUME NEW x \in Places, Loose(x)
             PROVE  Walks(<<Expect(o)>> \o q \o <<Expect(c)>>, x, x)
  BY DEF Neutral
<1> DEFINE y == Inside(x, o)
<1>1. x.open \in Seq(Opening) /\ x.nodes \in Seq(Frames) /\ x.nodes # <<>> /\ x.at = "item" /\ x.bound = 0
  BY PlaceFacts DEF Loose, Complete
<1>2. Append(x.open, o) \in Seq(Opening)
  BY <1>1, AppendedProperties
<1>3. /\ y \in Places /\ y.open = Append(x.open, o) /\ y.nodes = x.nodes /\ y.at = "item"
      /\ Top(y) = Top(x) /\ Loose(y)
  <2>1. PICK r \in Seq(Opening) : r = Append(x.open, o)
    BY <1>2
  <2>2. y = Place(r, x.nodes, "item", 0)
    BY <1>1, <2>1 DEF Inside
  <2>3. "item" \notin Complete
    BY DEF Complete
  <2> HIDE DEF y
  <2>4. /\ y \in Places /\ y.open = r /\ y.nodes = x.nodes /\ y.at = "item"
        /\ Top(y) = Top(x)
    BY <1>1, <2>2, <2>3, PlaceMade DEF Top
  <2> QED
    BY <2>1, <2>4 DEF Loose
<1>4. Expect(o) \in Items /\ Expect(c) \in Items
  BY TokenFacts1 DEF Expect, Accept, Items
<1>5. Takes(Expect(o), x, y)
  <2>1. \A t \in {o} : y.open = Nesting(x.open, Taken({o}, t))
    <3>1. {o} # Tokens /\ o # "EOF"
      BY TokenFacts1 DEF Opening, Closing, Brackets
    <3> QED
      BY <1>1, <1>3, <3>1, NestingFacts DEF Taken
  <2>2. o # "EOF"
    BY DEF Opening
  <2> HIDE DEF y
  <2>3. Expect(o).do = "expect" /\ Expect(o).any = {o} /\ Expect(o).keep = FALSE
    BY DEF Expect, Accept
  <2>4. TakesToken(Expect(o), x, y)
    BY <1>1, <1>3, <2>1, <2>2, <2>3 DEF TakesToken, Complete
  <2> QED
    BY <2>3, <2>4, TakesByKind
<1>6. Takes(Expect(c), y, x)
  <2>1. \A t \in {c} : x.open = Nesting(y.open, Taken({c}, t))
    <3>1. {c} # Tokens /\ c # "EOF"
      BY TokenFacts1 DEF Opening, Closing, Brackets
    <3> QED
      BY <1>1, <1>3, <3>1, NestingFacts DEF Taken
  <2>2. c # "EOF"
    BY DEF Closing
  <2> HIDE DEF y
  <2>3. Expect(c).do = "expect" /\ Expect(c).any = {c} /\ Expect(c).keep = FALSE
    BY DEF Expect, Accept
  <2>4. TakesToken(Expect(c), y, x)
    BY <1>1, <1>3, <2>1, <2>2, <2>3 DEF TakesToken, Complete
  <2> QED
    BY <2>3, <2>4, TakesByKind
<1> HIDE DEF y
<1>7. Walks(<<Expect(o)>>, x, y) /\ Walks(<<Expect(c)>>, y, x)
  BY <1>3, <1>4, <1>5, <1>6, WalkOne
<1>8. Walks(q, y, y)
  BY <1>3 DEF Neutral
<1> QED
  BY <1>7, <1>8, WalkJoin

-----------------------------------------------------------------------------
(* Items that are calm.                                                    *)

\* A token that neither opens nor closes, and is not the end of the file.
PlainTokens == Tokens \ (Brackets \cup {"EOF"})

\* Consuming a token that is no bracket and not the end is calm.
LEMMA CalmAccept ==
  ASSUME NEW set \in SUBSET PlainTokens
  PROVE  Calm(Accept(set))
<1>1. Accept(set) \in Items
  BY DEF Accept, Items, PlainTokens
<1>2. ASSUME NEW x \in Places, Loose(x)
      PROVE  Takes(Accept(set), x, x)
  <2>1. x.open \in Seq(Opening)
    BY PlaceFacts
  <2>2. \A t \in set : x.open = Nesting(x.open, Taken(set, t))
    <3>1. "id" \notin Brackets
      BY DEF Brackets, Opening, Closing
    <3>2. \A t \in set : Taken(set, t) \notin Brackets
      BY <3>1 DEF Taken, PlainTokens
    <3> QED
      BY <2>1, <3>2, NestingFacts
  <2>3. "EOF" \notin set
    BY DEF PlainTokens
  <2> QED
    BY <1>2, <2>2, <2>3, TakesByKind DEF TakesToken, Accept, Loose, Complete
<1> QED
  BY <1>1, <1>2 DEF Calm

\* Keeping such a token as a leaf is calm, if it is no operator.
LEMMA CalmKeep ==
  ASSUME NEW set \in SUBSET PlainTokens, set \cap Led = {}
  PROVE  Calm(Keep(set))
<1>1. Keep(set) \in Items
  BY DEF Keep, Items, PlainTokens
<1>2. ASSUME NEW x \in Places, Loose(x)
      PROVE  Takes(Keep(set), x, x)
  <2>1. x.open \in Seq(Opening) /\ x.at = "item" /\ x = At(x, "item", 0)
    BY <1>2, PlaceFacts DEF Loose, Complete, At
  <2>2. \A t \in set : x.open = Nesting(x.open, Taken(set, t))
    <3>1. "id" \notin Brackets
      BY DEF Brackets, Opening, Closing
    <3>2. \A t \in set : Taken(set, t) \notin Brackets
      BY <3>1 DEF Taken, PlainTokens
    <3> QED
      BY <2>1, <3>2, NestingFacts
  <2>3. "EOF" \notin set
    BY DEF PlainTokens
  <2>4. Becomes(x, x, "operand", 0)
    BY <1>2, <2>1 DEF Becomes, Loose
  <2> QED
    BY <2>1, <2>2, <2>3, <2>4, TakesByKind DEF TakesToken, Keep
<1> QED
  BY <1>1, <1>2 DEF Calm

\* Consuming one given token is calm.
LEMMA CalmExpect ==
  ASSUME NEW t \in PlainTokens
  PROVE  Calm(Expect(t))
BY CalmAccept DEF Expect

\* In a loose place an expression is calm.
LEMMA CalmExpr ==
  ASSUME NEW b \in Nat
  PROVE  Calm(Expr(b))
<1>1. Expr(b) \in Items
  BY DEF Expr, Items
<1>2. ASSUME NEW x \in Places, Loose(x)
      PROVE  Takes(Expr(b), x, x)
  <2>1. x = At(x, "item", 0)
    BY <1>2, PlaceFacts DEF Loose, Complete, At
  <2> QED
    BY <1>2, <2>1, TakesByKind DEF Expr, Becomes, Loose
<1> QED
  BY <1>1, <1>2 DEF Calm

\* Items that stand for productions, and the panic, are calm.
LEMMA CalmOthers ==
  /\ Calm(Stmt) /\ Calm(Type) /\ Calm(AgentItem) /\ Calm(ElseBranch) /\ Calm(ReturnValue)
  /\ Calm(Unknown)
  /\ Calm([do |-> "build_tool_action"]) /\ Calm([do |-> "action_field"]) /\ Calm([do |-> "else_body"])
  /\ \A close \in Tokens, body \in Repeated : Calm(Until(close, body))
  /\ \A close \in Tokens : Calm(Statements(close))
  /\ \A next \in Tokens, body \in Optionals : Calm(IfNext(next, body))
  /\ \A switch_ \in Switches : Calm(Field(switch_))
<1>1. ASSUME NEW i \in Items, i.do \notin {"expect", "expr", "operators", "node", "done", "action_value"}
      PROVE  Calm(i)
  BY <1>1, TakesByKind DEF Calm
<1> QED
  BY <1>1 DEF Items, Stmt, Type, AgentItem, ElseBranch, ReturnValue, Unknown, Until, Statements, IfNext, Field

\* The place in a node just begun.
LEMMA UnderFacts ==
  ASSUME NEW x \in Places, NEW op \in Ops, NEW left \in Nat
  PROVE  LET y == Under(x, op, left) IN
         /\ y \in Places /\ y.open = x.open /\ y.at = "item" /\ y.bound = 0
         /\ y.nodes = Append(x.nodes, [op |-> op, left |-> left])
         /\ Top(y) = [op |-> op, left |-> left] /\ Front(y.nodes) = x.nodes
<1>1. /\ x.open \in Seq(Opening) /\ x.nodes \in Seq(Frames)
      /\ [op |-> op, left |-> left] \in Frames
  BY PlaceFacts DEF Frames
<1>2. PICK r \in Seq(Frames) : r = Append(x.nodes, [op |-> op, left |-> left])
  <2>1. Append(x.nodes, [op |-> op, left |-> left]) \in Seq(Frames)
    BY <1>1, AppendedProperties
  <2> QED
    BY <2>1
<1>3. Front(r) = x.nodes /\ r # <<>> /\ r[Len(r)] = [op |-> op, left |-> left]
  BY <1>1, <1>2, PushedAndPopped, AppendedProperties
<1>4. Under(x, op, left) = Place(x.open, r, "item", 0)
  BY <1>2 DEF Under
<1>5. "item" \notin Complete
  BY DEF Complete
<1>6. PICK y : y = Under(x, op, left)
  OBVIOUS
<1>7. /\ y \in Places /\ y.open = x.open /\ y.nodes = r /\ y.at = "item" /\ y.bound = 0
      /\ Top(y) = r[Len(r)]
  BY <1>1, <1>3, <1>4, <1>5, <1>6, PlaceMade
<1> QED
  BY <1>2, <1>3, <1>6, <1>7

\* The same place at another position.
LEMMA AtFacts ==
  ASSUME NEW x \in Places, NEW at \in {"item", "import", "name", "operand", "expression"}, NEW b \in Nat
  PROVE  LET y == At(x, at, b) IN
         /\ y.open = x.open /\ y.nodes = x.nodes /\ y.at = at /\ y.bound = b
         /\ Top(y) = Top(x)
         /\ y \in Places <=>
              /\ at \notin Complete => b = 0
              /\ at \in Complete /\ Top(x).op \in TwoOperands => b = bp_lu(Top(x).op)
              /\ at \in Complete /\ Top(x).op = "prefix" => b = 0
<1>1. PICK y : y = At(x, at, b)
  OBVIOUS
<1>2. y.open = x.open /\ y.nodes = x.nodes /\ y.at = at /\ y.bound = b
  BY <1>1 DEF At, Place
<1>3. Top(y) = Top(x)
  BY <1>2 DEF Top
<1>4. y \in Places =>
        /\ at \notin Complete => b = 0
        /\ at \in Complete /\ Top(x).op \in TwoOperands => b = bp_lu(Top(x).op)
        /\ at \in Complete /\ Top(x).op = "prefix" => b = 0
  BY <1>2, <1>3, PlaceFacts
<1>5. ASSUME at \notin Complete => b = 0,
             at \in Complete /\ Top(x).op \in TwoOperands => b = bp_lu(Top(x).op),
             at \in Complete /\ Top(x).op = "prefix" => b = 0
      PROVE  y \in Places
  BY <1>1, <1>5, PlaceFacts, PlaceMade DEF At, Top
<1> QED
  BY <1>1, <1>2, <1>3, <1>4, <1>5

\* A production that leads from before an operand to after it, whatever bounds it.
Operand(q) ==
  \A x \in Places, b \in Nat :
    x.at = "item" /\ At(x, "operand", b) \in Places => Walks(q, x, At(x, "operand", b))

\* A node of what is neutral is neutral and an operand.
LEMMA NodeNeutral ==
  ASSUME NEW op \in NodeOps \ {"prefix"}, NEW q, Neutral(q)
  PROVE  /\ Neutral(<<Node(op)>> \o q \o <<Done>>)
         /\ Operand(<<Node(op)>> \o q \o <<Done>>)
<1>1. Node(op) \in Items /\ Done \in Items /\ op \in Ops /\ op \notin Tight /\ op \notin Led
  <2>1. op \in Ops
    BY DEF Ops
  <2>2. Node(op) \in Items /\ Done \in Items
    BY DEF Node, Done, Items
  <2>3. op \notin Tight /\ op \notin Led
    BY TokenFacts6 DEF Tight
  <2> QED
    BY <2>1, <2>2, <2>3
<1>2. ASSUME NEW x \in Places, x.at = "item", NEW z \in Places, z.nodes = x.nodes, z.open = x.open,
             z.at = "operand" \/ Loose(z)
      PROVE  Walks(<<Node(op)>> \o q \o <<Done>>, x, z)
  <2>1. PICK y : y = Under(x, op, 0)
    OBVIOUS
  <2>2. /\ y \in Places /\ y.open = x.open /\ y.at = "item"
        /\ Top(y) = [op |-> op, left |-> 0] /\ Front(y.nodes) = x.nodes
    BY <1>1, <2>1, UnderFacts
  <2>3. Loose(y) /\ Top(y).op = op
    BY <1>1, <2>2 DEF Loose
  <2>4. Takes(Node(op), x, y)
    BY <1>2, <2>1, TakesByKind DEF Node
  <2>5. Takes(Done, y, z)
    BY <1>1, <1>2, <2>2, <2>3, TakesByKind DEF EndsNode, Done
  <2>6. Walks(<<Node(op)>>, x, y) /\ Walks(q, y, y) /\ Walks(<<Done>>, y, z)
    BY <1>1, <1>2, <2>2, <2>3, <2>4, <2>5, WalkOne DEF Neutral
  <2> QED
    BY <2>6, WalkJoin
<1>3. Neutral(<<Node(op)>> \o q \o <<Done>>)
  BY <1>2 DEF Neutral, Loose
<1>4. Operand(<<Node(op)>> \o q \o <<Done>>)
  <2> SUFFICES ASSUME NEW x \in Places, NEW b \in Nat, x.at = "item", At(x, "operand", b) \in Places
               PROVE  Walks(<<Node(op)>> \o q \o <<Done>>, x, At(x, "operand", b))
    BY DEF Operand
  <2>1. LET z == At(x, "operand", b) IN z.nodes = x.nodes /\ z.open = x.open /\ z.at = "operand"
    BY AtFacts
  <2> QED
    BY <1>2, <2>1
<1> QED
  BY <1>3, <1>4

-----------------------------------------------------------------------------
(* Brackets and names.                                                     *)

\* The tokens that neither open nor close anything.
LEMMA PlainFacts ==
  /\ Names \subseteq PlainTokens /\ Texts \subseteq PlainTokens /\ TwoOperands \subseteq PlainTokens
  /\ {",", ":", ";", ".", "=", "++", "-", "!", "number", "hex"} \subseteq PlainTokens
  /\ Keywords \subseteq PlainTokens /\ Identifiers \subseteq Names /\ Texts \subseteq Tokens
  /\ Names \subseteq Tokens
<1>1. {",", ":", ";", ".", "=", "++", "-", "!", "number", "hex"} \subseteq PlainTokens
  BY DEF PlainTokens, Tokens, Punctuation, Brackets, Opening, Closing
<1>2. TwoOperands \cap (Brackets \cup {"EOF"}) = {}
  BY LedFacts DEF TwoOperands, Brackets, Opening, Closing
<1>3. Keywords \subseteq PlainTokens
  BY KeywordFacts DEF PlainTokens
<1> QED
  BY <1>1, <1>2, <1>3, TokenFacts2, TokenFacts3, TokenFacts4, TokenFacts5 DEF PlainTokens

\* Consuming the tokens that the grammar names is calm.
LEMMA CalmTokens ==
  /\ \A t \in Keywords \cup {",", ":", ";", ".", "=", "++"} : Calm(Expect(t))
  /\ Calm(Name) /\ Calm(Accept(Identifiers)) /\ Calm(Accept(Texts))
  /\ Calm(Accept(Texts \cup Names)) /\ Calm(Accept({"let", "const"})) /\ Calm(OptionalComma)
  /\ Calm(Expr(defalt_bp)) /\ Calm(Expr(assignment))
<1>1. \A t \in Keywords \cup {",", ":", ";", ".", "=", "++"} : Calm(Expect(t))
  BY PlainFacts, CalmExpect
<1>2. /\ Names \in SUBSET PlainTokens /\ Identifiers \in SUBSET PlainTokens
      /\ Texts \in SUBSET PlainTokens /\ Texts \cup Names \in SUBSET PlainTokens
  BY PlainFacts
<1>3. {"let", "const"} \in SUBSET PlainTokens
  BY PlainFacts DEF Keywords
<1>4. Calm(Name) /\ Calm(Accept(Identifiers)) /\ Calm(Accept(Texts)) /\ Calm(Accept(Texts \cup Names))
  BY <1>2, CalmAccept DEF Name
<1>5. Calm(Accept({"let", "const"}))
  BY <1>3, CalmAccept
<1>6. Calm(OptionalComma)
  <2>1. "," \in Tokens /\ "comma" \in Optionals
    BY PlainFacts DEF PlainTokens, Optionals
  <2> QED
    BY <2>1, CalmOthers DEF OptionalComma
<1>7. defalt_bp \in Nat /\ assignment \in Nat
  BY DEF defalt_bp, assignment
<1>8. Calm(Expr(defalt_bp)) /\ Calm(Expr(assignment))
  BY <1>7, CalmExpr
<1> QED
  BY <1>1, <1>4, <1>5, <1>6, <1>8

\* An opening bracket and the one that closes it.
Pair(o, c) == o \in Opening /\ c \in Closing /\ MatchOf(c) = o

\* The three pairs of brackets.
LEMMA Pairs == Pair("(", ")") /\ Pair("[", "]") /\ Pair("{", "}")
BY DEF Pair, Opening, Closing, MatchOf

\* Calm items in a pair of brackets are neutral: one, two, three and five.
LEMMA Bracketed1 ==
  ASSUME NEW o, NEW c, Pair(o, c), NEW i, Calm(i)
  PROVE  Neutral(<<Expect(o), i, Expect(c)>>)
<1>1. <<Expect(o), i, Expect(c)>> = <<Expect(o)>> \o <<i>> \o <<Expect(c)>>
  BY Ends3
<1>2. Neutral(<<i>>)
  BY NeutralOne
<1> QED
  BY <1>1, <1>2, NeutralBracketed DEF Pair

LEMMA Bracketed2 ==
  ASSUME NEW o, NEW c, Pair(o, c), NEW i, NEW j, Calm(i), Calm(j)
  PROVE  Neutral(<<Expect(o), i, j, Expect(c)>>)
<1>1. <<Expect(o), i, j, Expect(c)>> = <<Expect(o)>> \o <<i, j>> \o <<Expect(c)>>
  BY Ends4
<1>2. Neutral(<<i, j>>)
  BY Neutral2
<1> QED
  BY <1>1, <1>2, NeutralBracketed DEF Pair

LEMMA Bracketed3 ==
  ASSUME NEW o, NEW c, Pair(o, c), NEW i, NEW j, NEW k, Calm(i), Calm(j), Calm(k)
  PROVE  Neutral(<<Expect(o), i, j, k, Expect(c)>>)
<1>1. <<Expect(o), i, j, k, Expect(c)>> = <<Expect(o)>> \o <<i, j, k>> \o <<Expect(c)>>
  BY Ends5
<1>2. Neutral(<<i, j, k>>)
  BY Neutral3
<1> QED
  BY <1>1, <1>2, NeutralBracketed DEF Pair

LEMMA Bracketed5 ==
  ASSUME NEW o, NEW c, Pair(o, c), NEW i, NEW j, NEW k, NEW l, NEW m,
         Calm(i), Calm(j), Calm(k), Calm(l), Calm(m)
  PROVE  Neutral(<<Expect(o), i, j, k, l, m, Expect(c)>>)
<1>1. <<Expect(o), i, j, k, l, m, Expect(c)>>
        = <<Expect(o)>> \o <<i, j, k, l, m>> \o <<Expect(c)>>
  BY Ends7
<1>2. Neutral(<<i, j, k, l, m>>)
  BY Neutral5
<1> QED
  BY <1>1, <1>2, NeutralBracketed DEF Pair

\* Consuming any token as a name, and consuming a token on the way to one.
LEMMA AnyTokenFacts ==
  ASSUME NEW x \in Places, NEW y \in Places, y.open = x.open, y.nodes = x.nodes,
         x.at = "name", y.at = "item"
  PROVE  AnyToken \in Items /\ Takes(AnyToken, x, y)
<1>1. AnyToken \in Items /\ AnyToken.do = "expect" /\ AnyToken.any = Tokens /\ AnyToken.keep = FALSE
  BY DEF AnyToken, Accept, Items
<1>2. x.open \in Seq(Opening)
  BY PlaceFacts
<1>3. \A t \in Tokens : y.open = Nesting(x.open, Taken(Tokens, t))
  <2>1. "id" \notin Brackets
    BY DEF Brackets, Opening, Closing
  <2> QED
    BY <1>2, <2>1, NestingFacts DEF Taken
<1>4. TakesToken(AnyToken, x, y)
  BY <1>1, <1>3 DEF TakesToken, Complete
<1> QED
  BY <1>1, <1>4, TakesByKind

LEMMA ExpectFacts ==
  ASSUME NEW set \in SUBSET PlainTokens,
         NEW x \in Places, NEW y \in Places, y.open = x.open, y.nodes = x.nodes,
         x.at \notin Complete, y.at \notin Complete,
         y.at = "import" => set = {"import"},
         y.at = "name" => set \in {{"contract"}, {"fn"}} \/ x.at = "import"
  PROVE  Accept(set) \in Items /\ Takes(Accept(set), x, y)
<1>1. Accept(set) \in Items /\ Accept(set).do = "expect" /\ Accept(set).any = set /\ Accept(set).keep = FALSE
  BY DEF Accept, Items, PlainTokens
<1>2. x.open \in Seq(Opening)
  BY PlaceFacts
<1>3. \A t \in set : y.open = Nesting(x.open, Taken(set, t))
  <2>1. "id" \notin Brackets
    BY DEF Brackets, Opening, Closing
  <2>2. \A t \in set : Taken(set, t) \notin Brackets
    BY <2>1 DEF Taken, PlainTokens
  <2> QED
    BY <1>2, <2>2, NestingFacts
<1>4. "EOF" \notin set
  BY DEF PlainTokens
<1>5. TakesToken(Accept(set), x, y)
  BY <1>1, <1>3, <1>4 DEF TakesToken
<1> QED
  BY <1>1, <1>5, TakesByKind

\* The token after contract and fn, and after the name of an import, may be any.
LEMMA NeutralNamed ==
  ASSUME NEW t \in {"contract", "fn"}
  PROVE  Neutral(<<Expect(t), AnyToken>>)
<1> SUFFICES ASSUME NEW x \in Places, Loose(x)
             PROVE  Walks(<<Expect(t), AnyToken>>, x, x)
  BY DEF Neutral
<1>1. PICK y : y = At(x, "name", 0)
  OBVIOUS
<1>2. y \in Places /\ y.open = x.open /\ y.nodes = x.nodes /\ y.at = "name" /\ x.at = "item"
  BY <1>1, AtFacts DEF Complete, Loose
<1>3. {t} \in SUBSET PlainTokens
  BY PlainFacts DEF Keywords
<1>4. Walks(<<Expect(t)>>, x, y)
  <2>1. "name" \notin Complete /\ "item" \notin Complete
    BY DEF Complete
  <2>2. Accept({t}) \in Items /\ Takes(Accept({t}), x, y)
    BY <1>2, <1>3, <2>1, ExpectFacts
  <2> QED
    BY <1>2, <2>2, WalkOne DEF Expect
<1>5. Walks(<<AnyToken>>, y, x)
  BY <1>2, AnyTokenFacts, WalkOne
<1>6. <<Expect(t), AnyToken>> = <<Expect(t)>> \o <<AnyToken>>
  BY First2
<1> QED
  BY <1>4, <1>5, <1>6, WalkJoin

\* The four tokens of an import.
LEMMA NeutralImport == Neutral(parse_import_stmt)
<1> SUFFICES ASSUME NEW x \in Places, Loose(x)
             PROVE  Walks(parse_import_stmt, x, x)
  BY DEF Neutral
<1>1. PICK y : y = At(x, "import", 0)
  OBVIOUS
<1>2. y \in Places /\ y.open = x.open /\ y.nodes = x.nodes /\ y.at = "import" /\ x.at = "item"
  BY <1>1, AtFacts DEF Complete, Loose
<1>3. PICK z : z = At(x, "name", 0)
  OBVIOUS
<1>4. z \in Places /\ z.open = x.open /\ z.nodes = x.nodes /\ z.at = "name"
  BY <1>3, AtFacts DEF Complete, Loose
<1>5. {"import"} \in SUBSET PlainTokens /\ Identifiers \in SUBSET PlainTokens
  BY PlainFacts DEF Keywords
<1>6. "import" \notin Complete /\ "name" \notin Complete /\ "item" \notin Complete
  BY DEF Complete
<1>7. Walks(<<Expect("import")>>, x, y)
  <2>1. Accept({"import"}) \in Items /\ Takes(Accept({"import"}), x, y)
    BY <1>2, <1>5, <1>6, ExpectFacts
  <2> QED
    BY <1>2, <2>1, WalkOne DEF Expect
<1>8. Walks(<<Accept(Identifiers)>>, y, z)
  <2>1. Accept(Identifiers) \in Items /\ Takes(Accept(Identifiers), y, z)
    BY <1>2, <1>4, <1>5, <1>6, ExpectFacts
  <2> QED
    BY <1>2, <1>4, <2>1, WalkOne
<1>9. Walks(<<AnyToken>>, z, x)
  BY <1>2, <1>4, AnyTokenFacts, WalkOne
<1>10. Walks(<<Accept(Texts)>>, x, x)
  BY CalmTokens, NeutralOne DEF Neutral
<1>11. Walks(<<AnyToken>> \o <<Accept(Texts)>>, z, x)
  BY <1>9, <1>10, WalkJoin
<1>12. Walks(<<Accept(Identifiers)>> \o (<<AnyToken>> \o <<Accept(Texts)>>), y, x)
  BY <1>8, <1>11, WalkJoin
<1>13. Walks(<<Expect("import")>> \o (<<Accept(Identifiers)>> \o (<<AnyToken>> \o <<Accept(Texts)>>)), x, x)
  BY <1>7, <1>12, WalkJoin
<1>14. <<AnyToken, Accept(Texts)>> = <<AnyToken>> \o <<Accept(Texts)>>
  BY First2
<1>15. <<Accept(Identifiers), AnyToken, Accept(Texts)>> = <<Accept(Identifiers)>> \o <<AnyToken, Accept(Texts)>>
  BY First3
<1>16. parse_import_stmt = <<Expect("import")>> \o <<Accept(Identifiers), AnyToken, Accept(Texts)>>
  BY First4 DEF parse_import_stmt
<1> QED
  BY <1>13, <1>14, <1>15, <1>16, Zenon

-----------------------------------------------------------------------------
(* Operands.                                                               *)

\* What begins with a calm item and goes on in brackets.
LEMMA Headed1 ==
  ASSUME NEW h, Calm(h), NEW o, NEW c, Pair(o, c), NEW i, Calm(i)
  PROVE  Neutral(<<h, Expect(o), i, Expect(c)>>)
<1>1. <<h, Expect(o), i, Expect(c)>> = <<h>> \o <<Expect(o), i, Expect(c)>>
  BY First4
<1> QED
  BY <1>1, Bracketed1, NeutralCalm

LEMMA Headed2 ==
  ASSUME NEW h, Calm(h), NEW o, NEW c, Pair(o, c), NEW i, NEW j, Calm(i), Calm(j)
  PROVE  Neutral(<<h, Expect(o), i, j, Expect(c)>>)
<1>1. <<h, Expect(o), i, j, Expect(c)>> = <<h>> \o <<Expect(o), i, j, Expect(c)>>
  BY First5
<1> QED
  BY <1>1, Bracketed2, NeutralCalm

LEMMA Headed3 ==
  ASSUME NEW h, Calm(h), NEW o, NEW c, Pair(o, c), NEW i, NEW j, NEW k, Calm(i), Calm(j), Calm(k)
  PROVE  Neutral(<<h, Expect(o), i, j, k, Expect(c)>>)
<1>1. <<h, Expect(o), i, j, k, Expect(c)>> = <<h>> \o <<Expect(o), i, j, k, Expect(c)>>
  BY First6
<1> QED
  BY <1>1, Bracketed3, NeutralCalm

LEMMA Headed5 ==
  ASSUME NEW h, Calm(h), NEW o, NEW c, Pair(o, c), NEW i, NEW j, NEW k, NEW l, NEW m,
         Calm(i), Calm(j), Calm(k), Calm(l), Calm(m)
  PROVE  Neutral(<<h, Expect(o), i, j, k, l, m, Expect(c)>>)
<1>1. <<h, Expect(o), i, j, k, l, m, Expect(c)>> = <<h>> \o <<Expect(o), i, j, k, l, m, Expect(c)>>
  BY First8
<1> QED
  BY <1>1, Bracketed5, NeutralCalm

\* A declaration with a name before its fields.
LEMMA NamedHeaded1 ==
  ASSUME NEW h, Calm(h), NEW e, Calm(e), NEW o, NEW c, Pair(o, c), NEW i, Calm(i)
  PROVE  Neutral(<<h, e, Expect(o), i, Expect(c)>>)
<1>1. <<h, e, Expect(o), i, Expect(c)>> = <<h>> \o <<e, Expect(o), i, Expect(c)>>
  BY First5
<1> QED
  BY <1>1, Headed1, NeutralCalm

\* The items of the grammar that are calm.
LEMMA CalmKeywords ==
  /\ Calm(Expect("library")) /\ Calm(Expect("if")) /\ Calm(Expect("while")) /\ Calm(Expect("for"))
  /\ Calm(Expect("return")) /\ Calm(Expect("require")) /\ Calm(Expect("emit"))
  /\ Calm(Expect("try")) /\ Calm(Expect("catch")) /\ Calm(Expect("agent"))
  /\ Calm(Expect("trigger")) /\ Calm(Expect("policy")) /\ Calm(Expect("type"))
  /\ Calm(Expect("model")) /\ Calm(Expect("behavior")) /\ Calm(Expect("skills"))
  /\ Calm(Expect("tool")) /\ Calm(Expect("getEnv")) /\ Calm(Expect("nonce"))
  /\ Calm(Expect("hash")) /\ Calm(Expect("Error"))
<1>1. {"library", "if", "while", "for", "return", "require", "emit", "try", "catch", "agent",
       "trigger", "policy", "type", "model", "behavior", "skills", "tool", "getEnv", "nonce",
       "hash", "Error"} \subseteq Keywords
  BY DEF Keywords
<1> QED
  BY <1>1, CalmTokens

LEMMA CalmMarks ==
  /\ Calm(Expect(",")) /\ Calm(Expect(":")) /\ Calm(Expect(";")) /\ Calm(Expect("."))
  /\ Calm(Expect("=")) /\ Calm(Expect("++"))
BY CalmTokens

LEMMA CalmFields ==
  /\ Calm(Field("agent")) /\ Calm(Field("model")) /\ Calm(Field("behavior"))
  /\ Calm(Field("skill")) /\ Calm(Field("tool")) /\ Calm(Field("step"))
BY CalmOthers DEF Switches

LEMMA CalmRepeats ==
  /\ Calm(Until(")", "argument")) /\ Calm(Until("]", "argument")) /\ Calm(Until("}", "property"))
  /\ Calm(Until(")", "parameter")) /\ Calm(Until("}", "rule")) /\ Calm(Until("}", "any_field"))
  /\ Calm(Until("}", "input")) /\ Calm(Until("}", "agent_item")) /\ Calm(Until("}", "model_field"))
  /\ Calm(Until("}", "behavior_field")) /\ Calm(Until("]", "skill")) /\ Calm(Until("}", "skill_field"))
  /\ Calm(Until("}", "tool_field")) /\ Calm(Until("]", "step")) /\ Calm(Until("}", "step_field"))
  /\ Calm(Until("}", "action_field")) /\ Calm(Statements("}"))
<1>1. ")" \in Tokens /\ "]" \in Tokens /\ "}" \in Tokens
  BY TokenFacts1 DEF Closing
<1> QED
  BY <1>1, CalmOthers DEF Repeated

LEMMA CalmOptionals ==
  /\ Calm(IfNext(",", "comma_expr")) /\ Calm(IfNext(",", "hash_data"))
  /\ Calm(IfNext(":", "annotation")) /\ Calm(IfNext("catch", "catch"))
  /\ Calm(IfNext(".", "member_ref"))
<1>1. "," \in Tokens /\ ":" \in Tokens /\ "." \in Tokens /\ "catch" \in Tokens
  BY PlainFacts DEF PlainTokens, Keywords
<1> QED
  BY <1>1, CalmOthers DEF Optionals

\* Nodes of what is neutral, written item by item, from three to six.
LEMMA NodeOf3 ==
  ASSUME NEW op \in NodeOps \ {"prefix"}, NEW a, NEW b, NEW c, Neutral(<<a, b, c>>)
  PROVE  /\ Neutral(<<Node(op), a, b, c, Done>>)
         /\ Operand(<<Node(op), a, b, c, Done>>)
<1>1. <<Node(op), a, b, c, Done>> = <<Node(op)>> \o <<a, b, c>> \o <<Done>>
  BY Ends5
<1> QED
  BY <1>1, NodeNeutral

LEMMA NodeOf4 ==
  ASSUME NEW op \in NodeOps \ {"prefix"}, NEW a, NEW b, NEW c, NEW d, Neutral(<<a, b, c, d>>)
  PROVE  /\ Neutral(<<Node(op), a, b, c, d, Done>>)
         /\ Operand(<<Node(op), a, b, c, d, Done>>)
<1>1. <<Node(op), a, b, c, d, Done>> = <<Node(op)>> \o <<a, b, c, d>> \o <<Done>>
  BY Ends6
<1> QED
  BY <1>1, NodeNeutral

LEMMA NodeOf5 ==
  ASSUME NEW op \in NodeOps \ {"prefix"}, NEW a, NEW b, NEW c, NEW d, NEW e, Neutral(<<a, b, c, d, e>>)
  PROVE  /\ Neutral(<<Node(op), a, b, c, d, e, Done>>)
         /\ Operand(<<Node(op), a, b, c, d, e, Done>>)
<1>1. <<Node(op), a, b, c, d, e, Done>> = <<Node(op)>> \o <<a, b, c, d, e>> \o <<Done>>
  BY Ends7
<1> QED
  BY <1>1, NodeNeutral

LEMMA NodeOf6 ==
  ASSUME NEW op \in NodeOps \ {"prefix"}, NEW a, NEW b, NEW c, NEW d, NEW e, NEW f, Neutral(<<a, b, c, d, e, f>>)
  PROVE  /\ Neutral(<<Node(op), a, b, c, d, e, f, Done>>)
         /\ Operand(<<Node(op), a, b, c, d, e, f, Done>>)
<1>1. <<Node(op), a, b, c, d, e, f, Done>> = <<Node(op)>> \o <<a, b, c, d, e, f>> \o <<Done>>
  BY Ends8
<1> QED
  BY <1>1, NodeNeutral

\* A block, and the operands that are nodes, change nothing around them.
LEMMA NeutralBlock == Neutral(parse_block)
<1>1. Neutral(<<Expect("{"), Statements("}"), Expect("}")>>)
  BY Bracketed1, Pairs, CalmRepeats
<1>2. "block" \in NodeOps \ {"prefix"}
  BY DEF NodeOps
<1> QED
  BY <1>1, <1>2, NodeOf3 DEF parse_block

\* Groups, arrays and objects are operands.
LEMMA OperandBracketed ==
  /\ Operand(grouping_expr)
  /\ Operand(parse_literal_array_expr)
  /\ Operand(parse_obj_assignment_expr)
<1>1. {"group", "array", "object"} \subseteq NodeOps \ {"prefix"}
  BY DEF NodeOps
<1>2. Operand(grouping_expr)
  <2>1. Neutral(<<Expect("("), Expr(defalt_bp), Expect(")")>>)
    BY Bracketed1, Pairs, CalmTokens
  <2> QED
    BY <1>1, <2>1, NodeOf3 DEF grouping_expr
<1>3. Operand(parse_literal_array_expr)
  <2>1. Neutral(<<Expect("["), Until("]", "argument"), Expect("]")>>)
    BY Bracketed1, Pairs, CalmRepeats
  <2> QED
    BY <1>1, <2>1, NodeOf3 DEF parse_literal_array_expr
<1>4. Operand(parse_obj_assignment_expr)
  <2>1. Neutral(<<Expect("{"), Until("}", "property"), Expect("}")>>)
    BY Bracketed1, Pairs, CalmRepeats
  <2> QED
    BY <1>1, <2>1, NodeOf3 DEF parse_obj_assignment_expr
<1> QED
  BY <1>2, <1>3, <1>4

\* The built-in functions are operands.
LEMMA OperandBuiltins ==
  /\ Operand(parse_get_env_expr)
  /\ Operand(parse_nonce_expr)
  /\ Operand(parse_hash_expr)
  /\ Operand(parse_error_expr)
<1>1. {"getEnv", "nonce", "hash", "Error"} \subseteq NodeOps \ {"prefix"}
  BY DEF NodeOps
<1>2. Operand(parse_get_env_expr)
  <2>1. Neutral(<<Expect("getEnv"), Expect("("), Expr(defalt_bp), Expect(")")>>)
    BY Headed1, Pairs, CalmKeywords, CalmTokens
  <2> QED
    BY <1>1, <2>1, NodeOf4 DEF parse_get_env_expr
<1>3. Operand(parse_nonce_expr)
  <2>1. Neutral(<<Expect("nonce"), Expect("("), Expr(defalt_bp), Expect(")")>>)
    BY Headed1, Pairs, CalmKeywords, CalmTokens
  <2> QED
    BY <1>1, <2>1, NodeOf4 DEF parse_nonce_expr
<1>4. Operand(parse_hash_expr)
  <2>1. Neutral(<<Expect("hash"), Expect("("), Expr(defalt_bp), IfNext(",", "hash_data"), Expect(")")>>)
    BY Headed2, Pairs, CalmKeywords, CalmTokens, CalmOptionals
  <2> QED
    BY <1>1, <2>1, NodeOf5 DEF parse_hash_expr
<1>5. Operand(parse_error_expr)
  <2>1. Neutral(<<Expect("Error"), Expect("("), Expr(defalt_bp), Expect(","), Expr(defalt_bp), Expect(")")>>)
    BY Headed3, Pairs, CalmKeywords, CalmTokens, CalmMarks
  <2> QED
    BY <1>1, <2>1, NodeOf6 DEF parse_error_expr
<1> QED
  BY <1>2, <1>3, <1>4, <1>5

\* The action of a tool is neutral.
LEMMA NeutralAction == Neutral(parse_tool_action)
<1> DEFINE build == [do |-> "build_tool_action"]
<1>1. Neutral(<<Expect("{"), Until("}", "action_field"), Expect("}"), build>>)
  <2>1. <<Expect("{"), Until("}", "action_field"), Expect("}"), build>>
          = <<Expect("{"), Until("}", "action_field"), Expect("}")>> \o <<build>>
    BY Last4
  <2>2. Neutral(<<Expect("{"), Until("}", "action_field"), Expect("}")>>)
    BY Bracketed1, Pairs, CalmRepeats
  <2>3. Neutral(<<build>>)
    BY CalmOthers, NeutralOne
  <2> QED
    BY <2>1, <2>2, <2>3, NeutralJoin
<1>2. "action" \in NodeOps \ {"prefix"}
  BY DEF NodeOps
<1> QED
  BY <1>1, <1>2, NodeOf4 DEF parse_tool_action

\* The operand of a prefix operator is parsed in its node.
LEMMA PrefixWalk ==
  ASSUME NEW x \in Places, x.at = "item",
         NEW z \in Places, z.open = x.open, z.nodes = x.nodes, z.at = "operand"
  PROVE  Walks(parse_prefix_expr, x, z)
<1>1. PICK op : op = "prefix"
  OBVIOUS
<1>2. PICK y : y = Under(x, op, 0)
  OBVIOUS
<1>3. op \in Ops /\ op \in Tight /\ op \notin Led /\ op \notin TwoOperands
  BY <1>1, TokenFacts3, TokenFacts6 DEF Ops, NodeOps, Tight
<1>4. Node("prefix") \in Items /\ Done \in Items
  BY DEF NodeOps, Node, Done, Items
<1>5. /\ y \in Places /\ y.open = x.open /\ y.at = "item" /\ y.bound = 0
      /\ Top(y).op = op /\ Front(y.nodes) = x.nodes
  <2>1. op \in Ops
    BY <1>3
  <2>2. /\ y \in Places /\ y.open = x.open /\ y.at = "item" /\ y.bound = 0
        /\ Top(y) = [op |-> op, left |-> 0] /\ Front(y.nodes) = x.nodes
    BY <1>2, <2>1, UnderFacts
  <2> QED
    BY <2>2
<1>6. PICK w : w = At(y, "expression", 0)
  OBVIOUS
<1>7. w \in Places /\ w.open = x.open /\ w.nodes = y.nodes /\ w.at = "expression" /\ Top(w) = Top(y)
  <2>1. w.open = y.open /\ w.nodes = y.nodes /\ w.at = "expression" /\ Top(w) = Top(y)
    BY <1>5, <1>6, AtFacts
  <2>2. "expression" \in Complete /\ Top(y).op \notin TwoOperands
    BY <1>3, <1>5 DEF Complete
  <2>3. w \in Places
    BY <1>5, <1>6, <2>2, AtFacts
  <2> QED
    BY <1>5, <2>1, <2>3
<1>8. Walks(<<Node("prefix")>>, x, y)
  <2>1. Takes(Node("prefix"), x, y)
    BY <1>1, <1>2, TakesByKind DEF Node
  <2> QED
    BY <1>4, <1>5, <2>1, WalkOne
<1>9. Walks(<<Accept({"-", "!"})>>, y, y)
  <2>1. {"-", "!"} \in SUBSET PlainTokens
    BY PlainFacts
  <2>2. Accept({"-", "!"}) \in Items /\ Takes(Accept({"-", "!"}), y, y)
    BY <1>5, <2>1, ExpectFacts DEF Complete
  <2> QED
    BY <1>5, <2>2, WalkOne
<1>10. Walks(<<Expr(defalt_bp)>>, y, w)
  <2>1. Expr(defalt_bp) \in Items /\ Expr(defalt_bp).do = "expr" /\ Expr(defalt_bp).bp = 0
    BY DEF Expr, defalt_bp, Items
  <2>2. Takes(Expr(defalt_bp), y, w)
    BY <1>5, <1>6, <2>1, TakesByKind DEF Becomes
  <2> QED
    BY <1>5, <1>7, <2>1, <2>2, WalkOne
<1>11. Walks(<<Done>>, w, z)
  <2>1. EndsNode(w, z)
    BY <1>3, <1>5, <1>7 DEF EndsNode
  <2>2. Takes(Done, w, z)
    BY <2>1, TakesByKind DEF Done
  <2> QED
    BY <1>4, <1>7, <2>2, WalkOne
<1>12. Walks(<<Expr(defalt_bp)>> \o <<Done>>, y, z)
  BY <1>10, <1>11, WalkJoin
<1>13. Walks(<<Accept({"-", "!"})>> \o (<<Expr(defalt_bp)>> \o <<Done>>), y, z)
  BY <1>9, <1>12, WalkJoin
<1>14. Walks(<<Node("prefix")>> \o (<<Accept({"-", "!"})>> \o (<<Expr(defalt_bp)>> \o <<Done>>)), x, z)
  BY <1>8, <1>13, WalkJoin
<1>15. <<Expr(defalt_bp), Done>> = <<Expr(defalt_bp)>> \o <<Done>>
  BY First2
<1>16. <<Accept({"-", "!"}), Expr(defalt_bp), Done>> = <<Accept({"-", "!"})>> \o <<Expr(defalt_bp), Done>>
  BY First3
<1>17. parse_prefix_expr = <<Node("prefix")>> \o <<Accept({"-", "!"}), Expr(defalt_bp), Done>>
  BY First4 DEF parse_prefix_expr
<1> QED
  BY <1>14, <1>15, <1>16, <1>17, Zenon

\* A prefix operator and its operand are an operand.
LEMMA OperandPrefix == Operand(parse_prefix_expr)
<1> SUFFICES ASSUME NEW x \in Places, NEW b \in Nat, x.at = "item", At(x, "operand", b) \in Places
             PROVE  Walks(parse_prefix_expr, x, At(x, "operand", b))
  BY DEF Operand
<1>1. PICK z \in Places : z = At(x, "operand", b)
  OBVIOUS
<1>2. z.open = x.open /\ z.nodes = x.nodes /\ z.at = "operand"
  BY <1>1, AtFacts
<1> QED
  BY <1>1, <1>2, PrefixWalk

\* A token kept as a leaf is an operand.
LEMMA OperandKept ==
  ASSUME NEW set \in SUBSET PlainTokens, set \cap Led = {}
  PROVE  Operand(<<Keep(set)>>)
<1> SUFFICES ASSUME NEW x \in Places, NEW b \in Nat, x.at = "item", At(x, "operand", b) \in Places
             PROVE  Walks(<<Keep(set)>>, x, At(x, "operand", b))
  BY DEF Operand
<1>1. PICK z \in Places : z = At(x, "operand", b)
  OBVIOUS
<1>2. z.open = x.open /\ z.nodes = x.nodes /\ z.at = "operand"
  BY <1>1, AtFacts
<1>3. Keep(set) \in Items /\ Keep(set).do = "expect" /\ Keep(set).any = set /\ Keep(set).keep = TRUE
  BY DEF Keep, Items, PlainTokens
<1>4. x.open \in Seq(Opening)
  BY PlaceFacts
<1>5. \A t \in set : z.open = Nesting(x.open, Taken(set, t))
  <2>1. "id" \notin Brackets
    BY DEF Brackets, Opening, Closing
  <2>2. \A t \in set : Taken(set, t) \notin Brackets
    BY <2>1 DEF Taken, PlainTokens
  <2> QED
    BY <1>2, <1>4, <2>2, NestingFacts
<1>6. Becomes(x, z, "operand", b)
  BY <1>1 DEF Becomes
<1>7. TakesToken(Keep(set), x, z)
  BY <1>2, <1>3, <1>5, <1>6 DEF TakesToken, PlainTokens
<1>8. Walks(<<Keep(set)>>, x, z)
  BY <1>3, <1>7, TakesByKind, WalkOne
<1> QED
  BY <1>1, <1>8

\* A panic counts as an operand: nothing comes after it.
LEMMA OperandUnknown == Operand(<<Unknown>>)
<1>1. Unknown \in Items /\ Unknown.do = "panic"
  BY DEF Unknown, Items
<1> QED
  BY <1>1, TakesByKind, WalkOne DEF Operand

\* Whatever token begins an expression, its handler reads an operand or panics.
LEMMA OperandOf ==
  ASSUME NEW t
  PROVE  Operand(nud_lu(t))
<1>1. Operand(parse_primary_expr)
  <2>1. {"number", "hex", "id"} \cup Texts \cup FieldNames \in SUBSET PlainTokens
    BY PlainFacts DEF Identifiers
  <2>2. ({"number", "hex", "id"} \cup Texts \cup FieldNames) \cap Led = {}
    <3>1. "number" \notin Led /\ "hex" \notin Led
      BY LedFacts
    <3> QED
      BY <3>1, TokenFacts2, TokenFacts4, TokenFacts5 DEF Identifiers
  <2> QED
    BY <2>1, <2>2, OperandKept DEF parse_primary_expr
<1>2. Operand(parse_literal)
  <2>1. {"null", "this", "true", "false"} \subseteq Keywords
    BY DEF Keywords
  <2>2. {"null", "this", "true", "false"} \in SUBSET PlainTokens
    BY <2>1, PlainFacts
  <2>3. {"null", "this", "true", "false"} \cap Led = {}
    BY <2>1, KeywordFacts
  <2> QED
    BY <2>2, <2>3, OperandKept DEF parse_literal
<1> QED
  BY <1>1, <1>2, OperandPrefix, OperandBracketed, OperandBuiltins, OperandUnknown DEF nud_lu

-----------------------------------------------------------------------------
(* Operators, statements and declarations.                                 *)

\* The rest of an operator, from inside its node: its right operand completes it.
OfOperator(t) ==
  \A y \in Places :
    y.at = "item" /\ Top(y).op = t =>
      \E z \in Places :
        /\ Walks(led_lu(t), y, z) /\ z.open = y.open /\ z.nodes = y.nodes
        /\ z.at = IF t \in TwoOperands THEN "expression" ELSE "item"

\* The handler of an operator with two operands: the right one completes the node.
LEMMA OperandsWalk ==
  ASSUME NEW t \in TwoOperands, NEW bp, bp = bp_lu(t),
         NEW y \in Places, y.at = "item", Top(y).op = t,
         NEW z, z = At(y, "expression", bp)
  PROVE  z \in Places /\ Walks(<<Expect(t), Expr(bp)>>, y, z)
<1>1. bp \in Nat
  BY PowerOf
<1>2. t # "prefix"
  BY TokenFacts3, TokenFacts6
<1>3. z \in Places
  BY <1>1, <1>2, AtFacts DEF Complete
<1>4. Walks(<<Expect(t)>>, y, y)
  <2>1. {t} \in SUBSET PlainTokens
    BY PlainFacts
  <2>2. Accept({t}) \in Items /\ Takes(Accept({t}), y, y)
    BY <2>1, ExpectFacts DEF Complete
  <2> QED
    BY <2>2, WalkOne DEF Expect
<1>5. Walks(<<Expr(bp)>>, y, z)
  <2>1. Expr(bp) \in Items /\ Expr(bp).do = "expr" /\ Expr(bp).bp = bp
    BY <1>1 DEF Expr, Items
  <2>2. Takes(Expr(bp), y, z)
    BY <2>1, TakesByKind DEF Becomes
  <2> QED
    BY <1>3, <2>1, <2>2, WalkOne
<1>6. <<Expect(t), Expr(bp)>> = <<Expect(t)>> \o <<Expr(bp)>>
  BY First2
<1> QED
  BY <1>3, <1>4, <1>5, <1>6, WalkJoin

\* Every operator's handler does so.
LEMMA OperatorOf ==
  ASSUME NEW t \in Led
  PROVE  OfOperator(t)
<1>1. CASE t \in TwoOperands
  <2>1. led_lu(t) = <<Expect(t), Expr(bp_lu(t))>>
    <3>1. CASE t \in {"=", "+=", "-="}
      <4>1. bp_lu(t) = assignment
        BY <3>1, PowerOf
      <4> QED
        BY <3>1, <4>1 DEF led_lu, parse_assignment
    <3>2. CASE t \in Binary
      <4>1. t \notin {"=", "+=", "-=", "++", "[", "(", "."}
        BY <3>2, LedFacts
      <4> QED
        BY <4>1 DEF led_lu, parse_binary_expr
    <3> QED
      BY <1>1, <3>1, <3>2 DEF TwoOperands
  <2> SUFFICES ASSUME NEW y \in Places, y.at = "item", Top(y).op = t
               PROVE  \E z \in Places :
                        /\ Walks(led_lu(t), y, z) /\ z.open = y.open /\ z.nodes = y.nodes
                        /\ z.at = IF t \in TwoOperands THEN "expression" ELSE "item"
    BY DEF OfOperator
  <2>2. PICK bp \in Nat : bp = bp_lu(t)
    BY PowerOf
  <2>3. PICK z : z = At(y, "expression", bp)
    OBVIOUS
  <2>4. z \in Places /\ Walks(<<Expect(t), Expr(bp)>>, y, z)
    BY <1>1, <2>2, <2>3, OperandsWalk
  <2>5. z.open = y.open /\ z.nodes = y.nodes /\ z.at = "expression"
    BY <2>3, AtFacts
  <2> QED
    BY <1>1, <2>1, <2>2, <2>4, <2>5
<1>2. CASE t \notin TwoOperands
  <2>1. t \in {"++", "[", "(", "."}
    BY <1>2, LedFacts DEF TwoOperands
  <2>2. Neutral(led_lu(t))
    <3>1. CASE t = "++"
      <4>1. Neutral(parse_incdec_expr)
        BY CalmMarks, NeutralOne DEF parse_incdec_expr
      <4> QED
        BY <3>1, <4>1 DEF led_lu
    <3>2. CASE t = "["
      <4>1. Neutral(parse_array_access_item_expr)
        BY Bracketed1, Pairs, CalmTokens DEF parse_array_access_item_expr
      <4> QED
        BY <3>2, <4>1 DEF led_lu
    <3>3. CASE t = "("
      <4>1. Neutral(parse_call_expr)
        BY Bracketed1, Pairs, CalmRepeats DEF parse_call_expr
      <4> QED
        BY <3>3, <4>1 DEF led_lu
    <3>4. CASE t = "."
      <4>1. Neutral(parse_member_expr)
        BY CalmMarks, CalmTokens, Neutral2 DEF parse_member_expr
      <4> QED
        BY <3>4, <4>1 DEF led_lu
    <3> QED
      BY <2>1, <3>1, <3>2, <3>3, <3>4
  <2>3. t # "prefix"
    BY <2>1
  <2>4. \A y \in Places : y.at = "item" /\ Top(y).op = t => Loose(y)
    BY <1>2, <2>3 DEF Loose, Tight
  <2> QED
    BY <1>2, <2>2, <2>4 DEF Neutral, OfOperator
<1> QED
  BY <1>1, <1>2


\* Conditionals and loops are neutral.
LEMMA NeutralConditions ==
  Neutral(parse_if_stmt) /\ Neutral(parse_while_loop_stmt) /\ Neutral(parse_for_loop_stmt)
<1>1. /\ Neutral(<<Expect("if"), Expect("("), Expr(defalt_bp), Expect(")")>>)
      /\ Neutral(<<Expect("while"), Expect("("), Expr(defalt_bp), Expect(")")>>)
  BY Headed1, Pairs, CalmKeywords, CalmTokens
<1>2. Neutral(<<Expect("for"), Expect("("), Stmt, Expect(";"), Expr(defalt_bp), Expect(";"), Stmt,
                Expect(")")>>)
  BY Headed5, Pairs, CalmKeywords, CalmMarks, CalmTokens, CalmOthers
<1>3. Neutral(<<ElseBranch>>)
  BY CalmOthers, NeutralOne
<1>4. Neutral(parse_if_stmt)
  BY <1>1, <1>3, NeutralBlock, NeutralJoin DEF parse_if_stmt
<1>5. Neutral(parse_while_loop_stmt) /\ Neutral(parse_for_loop_stmt)
  BY <1>1, <1>2, NeutralBlock, NeutralJoin DEF parse_while_loop_stmt, parse_for_loop_stmt
<1> QED
  BY <1>4, <1>5

\* Libraries, contracts and functions are neutral.
LEMMA NeutralContract ==
  Neutral(parse_library_stmt) /\ Neutral(parse_contract_decl) /\ Neutral(parse_func_stmt)
<1>1. Neutral(<<Expect("library"), Accept(Identifiers)>>)
  BY CalmKeywords, CalmTokens, Neutral2
<1>2. Neutral(<<Expect("contract"), AnyToken>>) /\ Neutral(<<Expect("fn"), AnyToken>>)
  BY NeutralNamed
<1>3. Neutral(parse_arguments)
  BY Bracketed1, Pairs, CalmRepeats DEF parse_arguments
<1>4. Neutral(<<Expect(":"), Type>>)
  BY CalmMarks, CalmOthers, Neutral2
<1>5. Neutral(parse_library_stmt) /\ Neutral(parse_contract_decl)
  BY <1>1, <1>2, NeutralBlock, NeutralJoin DEF parse_library_stmt, parse_contract_decl
<1>6. Neutral(parse_func_stmt)
  BY <1>2, <1>3, <1>4, NeutralBlock, NeutralJoin DEF parse_func_stmt
<1> QED
  BY <1>5, <1>6

\* Statements with no block are neutral.
LEMMA NeutralSimple ==
  /\ Neutral(parse_var_decl) /\ Neutral(parse_return_stmt) /\ Neutral(parse_require_stmt)
  /\ Neutral(parse_emit_stmt)
<1>1. Neutral(parse_var_decl)
  BY Neutral5, CalmTokens, CalmOptionals, CalmMarks DEF parse_var_decl
<1>2. Neutral(parse_return_stmt)
  BY Neutral2, CalmKeywords, CalmOthers DEF parse_return_stmt
<1>3. Neutral(parse_require_stmt)
  BY Headed3, Pairs, CalmKeywords, CalmMarks, CalmTokens DEF parse_require_stmt
<1>4. Neutral(parse_emit_stmt)
  BY Headed2, Pairs, CalmKeywords, CalmOptionals, CalmTokens DEF parse_emit_stmt
<1> QED
  BY <1>1, <1>2, <1>3, <1>4

\* try and catch are neutral.
LEMMA NeutralTry == Neutral(parse_try_stmt) /\ Neutral(parse_catch)
<1>1. Neutral(<<Expect("try")>>) /\ Neutral(<<IfNext("catch", "catch")>>)
  BY CalmKeywords, CalmOptionals, NeutralOne
<1>2. Neutral(<<Expect("catch"), Expect("("), Name, Expect(")")>>)
  BY Headed1, Pairs, CalmKeywords, CalmTokens
<1>3. Neutral(parse_try_stmt)
  BY <1>1, NeutralBlock, NeutralJoin DEF parse_try_stmt
<1>4. Neutral(parse_catch)
  BY <1>2, NeutralBlock, NeutralJoin DEF parse_catch
<1> QED
  BY <1>3, <1>4


\* The declarations of agents, policies, types and tools are neutral.
LEMMA NeutralDeclarations ==
  /\ Neutral(parse_agent_stmt) /\ Neutral(parse_policy_stmt) /\ Neutral(parse_type_stmt)
  /\ Neutral(parse_tool_stmt) /\ Neutral(parse_trigger_stmt) /\ Neutral(parse_model_stmt)
  /\ Neutral(parse_behavior_stmt) /\ Neutral(parse_skills_stmt)
<1>1. Neutral(parse_agent_stmt)
  BY NamedHeaded1, Pairs, CalmKeywords, CalmTokens, CalmRepeats DEF parse_agent_stmt
<1>2. Neutral(parse_policy_stmt)
  BY NamedHeaded1, Pairs, CalmKeywords, CalmTokens, CalmRepeats DEF parse_policy_stmt
<1>3. Neutral(parse_type_stmt)
  BY NamedHeaded1, Pairs, CalmKeywords, CalmTokens, CalmRepeats DEF parse_type_stmt
<1>4. Neutral(parse_tool_stmt)
  BY NamedHeaded1, Pairs, CalmKeywords, CalmTokens, CalmRepeats DEF parse_tool_stmt
<1>5. Neutral(parse_trigger_stmt)
  BY Headed1, Pairs, CalmKeywords, CalmRepeats DEF parse_trigger_stmt
<1>6. Neutral(parse_model_stmt)
  BY Headed1, Pairs, CalmKeywords, CalmRepeats DEF parse_model_stmt
<1>7. Neutral(parse_behavior_stmt)
  BY Headed1, Pairs, CalmKeywords, CalmRepeats DEF parse_behavior_stmt
<1>8. Neutral(parse_skills_stmt)
  BY Headed1, Pairs, CalmKeywords, CalmRepeats DEF parse_skills_stmt
<1> QED
  BY <1>1, <1>2, <1>3, <1>4, <1>5, <1>6, <1>7, <1>8

\* The parts of declarations are neutral.
LEMMA NeutralParts ==
  /\ Neutral(parse_skill) /\ Neutral(parse_tool_step) /\ Neutral(parse_skill_uses)
  /\ Neutral(parse_tool_steps) /\ Neutral(parse_tool_step_input) /\ Neutral(parse_member_ref)
<1>1. Neutral(<<OptionalComma>>)
  BY CalmTokens, NeutralOne
<1>2. Neutral(parse_skill)
  <2>1. parse_skill = <<Expect("{"), Until("}", "skill_field"), Expect("}")>> \o <<OptionalComma>>
    BY Last4 DEF parse_skill
  <2>2. Neutral(<<Expect("{"), Until("}", "skill_field"), Expect("}")>>)
    BY Bracketed1, Pairs, CalmRepeats
  <2> QED
    BY <1>1, <2>1, <2>2, NeutralJoin
<1>3. Neutral(parse_tool_step)
  <2>1. parse_tool_step = <<Expect("{"), Until("}", "step_field"), Expect("}")>> \o <<OptionalComma>>
    BY Last4 DEF parse_tool_step
  <2>2. Neutral(<<Expect("{"), Until("}", "step_field"), Expect("}")>>)
    BY Bracketed1, Pairs, CalmRepeats
  <2> QED
    BY <1>1, <2>1, <2>2, NeutralJoin
<1>4. Neutral(parse_skill_uses)
  BY Bracketed1, Pairs, CalmRepeats DEF parse_skill_uses
<1>5. Neutral(parse_tool_steps)
  BY Bracketed1, Pairs, CalmRepeats DEF parse_tool_steps
<1>6. Neutral(parse_tool_step_input)
  BY Bracketed1, Pairs, CalmRepeats DEF parse_tool_step_input
<1>7. Neutral(parse_member_ref)
  BY Neutral2, CalmTokens, CalmOptionals DEF parse_member_ref
<1> QED
  BY <1>2, <1>3, <1>4, <1>5, <1>6, <1>7

\* Whatever token begins a statement, its handler is neutral.
LEMMA NeutralStatement ==
  ASSUME NEW t
  PROVE  Neutral(stmt_lu(t))
<1>1. Neutral(<<Expr(defalt_bp)>>)
  BY CalmTokens, NeutralOne
<1> QED
  BY <1>1, NeutralImport, NeutralConditions, NeutralContract, NeutralSimple, NeutralTry,
     NeutralDeclarations DEF stmt_lu

\* Whatever a field is named, what its switch does is neutral.
LEMMA NeutralSwitch ==
  ASSUME NEW declaration, NEW field
  PROVE  Neutral(switch(declaration, field))
<1>1. Neutral(<<Expr(defalt_bp)>>) /\ Neutral(<<Unknown>>)
  BY CalmTokens, CalmOthers, NeutralOne
<1> QED
  BY <1>1, NeutralParts, NeutralAction DEF switch

\* Every production that is repeated or optional is neutral.
LEMMA NeutralProduction ==
  ASSUME NEW name \in Repeated \cup Optionals
  PROVE  Neutral(Production(name))
<1>1. Neutral(argument)
  BY CalmTokens, Neutral2 DEF argument
<1>2. Neutral(parse_obj_item_assignment_expr)
  BY CalmTokens, CalmMarks, Neutral4 DEF parse_obj_item_assignment_expr
<1>3. Neutral(parameter)
  BY CalmTokens, CalmMarks, Neutral4 DEF parameter
<1>4. /\ Neutral(<<Expect(",")>>) /\ Neutral(<<Expect(","), Expr(defalt_bp)>>)
      /\ Neutral(<<Expect(","), Expr(defalt_bp), IfNext(",", "hash_data")>>)
      /\ Neutral(<<Expect(":"), Type>>)
      /\ Neutral(<<Expect("."), Accept(Identifiers), IfNext(".", "member_ref")>>)
  BY CalmTokens, CalmMarks, CalmOptionals, CalmOthers, NeutralOne, Neutral2, Neutral3
<1>5. /\ Neutral(<<Accept(Identifiers), Expect(":"), Expr(defalt_bp)>>)
      /\ Neutral(<<Name, Expect(":"), Expr(defalt_bp)>>)
      /\ Neutral(<<Name, Expect(":"), Expr(defalt_bp), OptionalComma>>)
  BY CalmTokens, CalmMarks, Neutral3, Neutral4
<1>6. /\ Neutral(<<AgentItem>>) /\ Neutral(<<Field("model")>>) /\ Neutral(<<Field("behavior")>>)
      /\ Neutral(<<Field("skill")>>) /\ Neutral(<<Field("tool")>>)
      /\ Neutral(<<Field("step"), OptionalComma>>) /\ Neutral(<<[do |-> "action_field"]>>)
  BY CalmTokens, CalmFields, CalmOthers, NeutralOne, Neutral2
<1>7. Neutral(parse_catch) /\ Neutral(parse_skill) /\ Neutral(parse_tool_step)
  BY NeutralTry, NeutralParts
<1> QED
  BY <1>1, <1>2, <1>3, <1>4, <1>5, <1>6, <1>7 DEF Production, Repeated, Optionals

-----------------------------------------------------------------------------
(* Trees that are well grouped.                                            *)

\* No operator that could still take what follows n binds looser than p.
RightWithin(n, p) ==
  \E T : /\ n \in T
         /\ \A m \in T : /\ m.op # "prefix"
                         /\ m.op \in TwoOperands => bp_lu(m.op) >= p /\ m.of[2] \in T

\* Every operator that could still take what precedes n binds tighter than p.
LeftAbove(n, p) ==
  \E T : n \in T /\ \A m \in T : m.op \in Led => bp_lu(m.op) > p /\ m.of[1] \in T

\* The token t, if it is an operator, can take n as its left operand.
Follows(n, t) == bp_lu(t) > 0 => RightWithin(n, bp_lu(t))

\* A node with an operator groups its operands as Precedence wants.
WellGrouped(n) ==
  Infix(n) =>
    /\ n.of # <<>>
    /\ RightWithin(n.of[1], bp_lu(n.op))
    /\ n.op \in TwoOperands /\ Len(n.of) = 2 => LeftAbove(n.of[2], bp_lu(n.op))

\* Nodes with all the nodes below them, each one well grouped.
Forest(G) == \A n \in G : n \in [op : Ops, of : Seq(G)] /\ WellGrouped(n)

\* A node that ends in no right operand.
LEMMA RightLeaf ==
  ASSUME NEW n, n.op \notin Tight, NEW p
  PROVE  RightWithin(n, p)
<1>1. n.op # "prefix" /\ n.op \notin TwoOperands
  BY DEF Tight
<1>2. \A m \in {n} : m.op # "prefix" /\ (m.op \in TwoOperands => bp_lu(m.op) >= p /\ m.of[2] \in {n})
  BY <1>1
<1> QED
  BY <1>2 DEF RightWithin

\* A node of an operator with two operands.
LEMMA RightNode ==
  ASSUME NEW n, n.op \in TwoOperands, NEW p, bp_lu(n.op) >= p, RightWithin(n.of[2], p)
  PROVE  RightWithin(n, p)
<1>1. PICK T : /\ n.of[2] \in T
               /\ \A m \in T : /\ m.op # "prefix"
                               /\ m.op \in TwoOperands => bp_lu(m.op) >= p /\ m.of[2] \in T
  BY DEF RightWithin
<1>2. n.op # "prefix"
  BY TokenFacts3, TokenFacts6
<1>3. \A m \in T \cup {n} : /\ m.op # "prefix"
                            /\ m.op \in TwoOperands => bp_lu(m.op) >= p /\ m.of[2] \in T \cup {n}
  BY <1>1, <1>2
<1>4. n \in T \cup {n}
  OBVIOUS
<1> QED
  BY <1>3, <1>4 DEF RightWithin

\* A node of no operator.
LEMMA LeftLeaf ==
  ASSUME NEW n, n.op \notin Led, NEW p
  PROVE  LeftAbove(n, p)
<1>1. PICK T : T = {n}
  OBVIOUS
<1>2. n \in T /\ \A m \in T : m.op \notin Led
  BY <1>1
<1> QED
  BY <1>2 DEF LeftAbove

\* Any node, by its operator and its left operand.
LEMMA LeftNode ==
  ASSUME NEW n, NEW p \in Nat, NEW q \in Nat, q <= p,
         n.op \in Led => bp_lu(n.op) > p /\ LeftAbove(n.of[1], p)
  PROVE  LeftAbove(n, q)
<1>1. CASE n.op \notin Led
  BY <1>1, LeftLeaf
<1>2. CASE n.op \in Led
  <2>1. PICK T : n.of[1] \in T /\ \A m \in T : m.op \in Led => bp_lu(m.op) > p /\ m.of[1] \in T
    BY <1>2 DEF LeftAbove
  <2>2. \A m : bp_lu(m.op) \in Nat
    BY PowerOf
  <2>3. \A m \in T \cup {n} : m.op \in Led => bp_lu(m.op) > q /\ m.of[1] \in T \cup {n}
    BY <1>2, <2>1, <2>2
  <2>4. n \in T \cup {n}
    OBVIOUS
  <2> QED
    BY <2>3, <2>4 DEF LeftAbove
<1> QED
  BY <1>1, <1>2

\* What a node of a forest is made of.
LEMMA ForestNode ==
  ASSUME NEW G, Forest(G), NEW n \in G
  PROVE  /\ n.op \in Ops /\ n.of \in Seq(G) /\ n = Open(n.op, n.of) /\ WellGrouped(n)
<1>1. n \in [op : Ops, of : Seq(G)] /\ WellGrouped(n)
  BY DEF Forest
<1> QED
  BY <1>1 DEF Open

\* The parts of a node.
LEMMA OpenFacts ==
  ASSUME NEW op, NEW of
  PROVE  Open(op, of).op = op /\ Open(op, of).of = of
BY DEF Open

\* A sequence over a set is one over a larger set.
LEMMA SeqGrows ==
  ASSUME NEW G, NEW H, G \subseteq H, NEW s \in Seq(G)
  PROVE  s \in Seq(H)
OBVIOUS

\* A forest with a new node over nodes it has is a forest.
LEMMA ForestGrows ==
  ASSUME NEW G, Forest(G), NEW op \in Ops, NEW of \in Seq(G), WellGrouped(Open(op, of))
  PROVE  LET H == G \cup {Open(op, of)} IN
         Forest(H) /\ Open(op, of) \in H /\ \A s : s \in Seq(G) => s \in Seq(H)
<1>1. PICK n : n = Open(op, of)
  OBVIOUS
<1>2. PICK H : H = G \cup {n}
  OBVIOUS
<1>3. \A s : s \in Seq(G) => s \in Seq(H)
  BY <1>2, SeqGrows
<1>4. n \in [op : Ops, of : Seq(H)]
  <2>1. of \in Seq(H)
    BY <1>3
  <2> QED
    BY <1>1, <2>1 DEF Open
<1>5. ASSUME NEW k \in G
      PROVE  k \in [op : Ops, of : Seq(H)] /\ WellGrouped(k)
  <2>1. k \in [op : Ops, of : Seq(G)] /\ WellGrouped(k)
    BY DEF Forest
  <2> QED
    BY <1>3, <2>1
<1>6. WellGrouped(n)
  BY <1>1
<1>7. Forest(H)
  <2>1. \A k \in H : k = n \/ k \in G
    BY <1>2
  <2> QED
    BY <1>4, <1>5, <1>6, <2>1 DEF Forest
<1> QED
  BY <1>1, <1>2, <1>3, <1>7

\* The last node of a stack, with one child more.
LEMMA ChildAdded ==
  ASSUME NEW G, Forest(G), NEW nodes \in Seq(G), nodes # <<>>, NEW n
  PROVE  /\ WithChild(nodes, n) = [nodes EXCEPT ![Len(nodes)] =
                                     Open(nodes[Len(nodes)].op, Append(nodes[Len(nodes)].of, n))]
<1>1. PICK l \in Nat : l = Len(nodes) /\ l > 0
  <2>1. Len(nodes) \in Nat /\ Len(nodes) > 0
    BY EmptySeq
  <2> QED
    BY <2>1
<1>2. PICK t \in G : t = nodes[l]
  BY <1>1
<1>3. t \in [op : Ops, of : Seq(G)]
  BY DEF Forest
<1>4. PICK s : s = Append(t.of, n)
  OBVIOUS
<1>5. [t EXCEPT !.of = s] = [op |-> t.op, of |-> s]
  BY <1>3
<1>6. WithChild(nodes, n) = [nodes EXCEPT ![l] = [t EXCEPT !.of = s]]
  BY <1>1, <1>2, <1>4 DEF WithChild
<1> QED
  BY <1>1, <1>2, <1>4, <1>5, <1>6 DEF Open

-----------------------------------------------------------------------------
(* The tree at a place.                                                    *)

\* The node is the one that its frame describes.
Fits(n, frame) ==
  /\ n.op = frame.op
  /\ Infix(n) => bp_lu(n.op) > frame.left /\ LeftAbove(n.of[1], frame.left)

\* A stack of nodes of a forest, as the frames describe them.
Rooted(G, nodes, frames) ==
  /\ Forest(G) /\ nodes \in Seq(G) /\ nodes # <<>>
  /\ Len(nodes) = Len(frames)
  /\ \A i \in 1..Len(nodes) : Fits(nodes[i], frames[i])

\* A node of an operator with two operands that has the left one only.
Waiting(n) == n.op \in TwoOperands => Len(n.of) = 1

\* The last operand of n is there: it keeps above the bound of the place, and the
\* token t can follow it.
Completed(n, x, t) ==
  /\ Len(n.of) > (IF Infix(n) THEN 1 ELSE 0)
  /\ n.op \in TwoOperands => Len(n.of) = 2
  /\ LeftAbove(n.of[Len(n.of)], x.bound)
  /\ Follows(n.of[Len(n.of)], t)
  /\ x.at = "expression" => bp_lu(t) <= x.bound

\* The stack of nodes is as the place tells, before the token t.
Standing(nodes, x, t) ==
  /\ \E G : Rooted(G, nodes, x.nodes)
  /\ \A i \in 1..Len(nodes) : i < Len(nodes) \/ x.at \notin Complete => Waiting(nodes[i])
  /\ x.at \in Complete => Completed(nodes[Len(nodes)], x, t)

\* The same nodes at another position, before any operand.
LEMMA StandingSame ==
  ASSUME NEW nodes, NEW x, NEW y, NEW t, NEW u, Standing(nodes, x, t),
         x.at \notin Complete, y.at \notin Complete, y.nodes = x.nodes
  PROVE  Standing(nodes, y, u)
BY DEF Standing

\* The same nodes where t does not continue the expression.
LEMMA StandingEnded ==
  ASSUME NEW nodes, NEW x \in Places, NEW y, NEW t, Standing(nodes, x, t),
         x.at = "operand", bp_lu(t) <= x.bound, Becomes(x, y, "expression", x.bound)
  PROVE  Standing(nodes, y, t)
<1>1. x.at \in Complete
  BY DEF Complete
<1>2. CASE y = At(x, "expression", x.bound)
  <2>1. y.nodes = x.nodes /\ y.at = "expression" /\ y.bound = x.bound /\ y.at \in Complete
    BY <1>2 DEF At, Place, Complete
  <2> QED
    BY <1>1, <2>1 DEF Standing, Completed
<1>3. CASE Top(x).op \notin Tight /\ y = At(x, "item", 0)
  <2>1. y.nodes = x.nodes /\ y.at \notin Complete
    BY <1>3 DEF At, Place, Complete
  <2>2. PICK G : Rooted(G, nodes, x.nodes)
    BY DEF Standing
  <2>3. Len(nodes) \in Nat /\ Len(nodes) > 0 /\ Len(nodes) = Len(x.nodes)
    BY <2>2, EmptySeq DEF Rooted
  <2>4. nodes[Len(nodes)].op = Top(x).op
    BY <2>2, <2>3 DEF Rooted, Fits, Top
  <2>5. Waiting(nodes[Len(nodes)])
    BY <1>3, <2>4 DEF Waiting, Tight
  <2>6. \A i \in 1..Len(nodes) : Waiting(nodes[i])
    <3>1. \A i \in 1..Len(nodes) : i < Len(nodes) \/ i = Len(nodes)
      BY <2>3
    <3> QED
      BY <2>5, <3>1 DEF Standing
  <2> QED
    BY <2>1, <2>2, <2>6 DEF Standing
<1> QED
  BY <1>2, <1>3 DEF Becomes

\* One node more, just begun.
LEMMA StandingPushed ==
  ASSUME NEW nodes, NEW x \in Places, NEW y, NEW t, NEW u, Standing(nodes, x, t),
         x.at \notin Complete, y.at \notin Complete,
         NEW op \in Ops \ Led, NEW left \in Nat,
         y.nodes = Append(x.nodes, [op |-> op, left |-> left])
  PROVE  Standing(Append(nodes, Open(op, <<>>)), y, u)
<1>1. PICK G : Rooted(G, nodes, x.nodes)
  BY DEF Standing
<1>2. PICK n : n = Open(op, <<>>)
  OBVIOUS
<1>3. n.op = op /\ ~Infix(n)
  BY <1>2, OpenFacts DEF Infix
<1>4. WellGrouped(n)
  BY <1>3 DEF WellGrouped
<1>5. PICK H : Forest(H) /\ n \in H /\ \A s : s \in Seq(G) => s \in Seq(H)
  <2>1. <<>> \in Seq(G)
    OBVIOUS
  <2> QED
    BY <1>1, <1>2, <1>4, <2>1, ForestGrows DEF Rooted
<1>6. PICK f : f = [op |-> op, left |-> left]
  OBVIOUS
<1>7. f \in Frames /\ f.op = op
  BY <1>6 DEF Frames
<1>8. nodes \in Seq(H) /\ x.nodes \in Seq(Frames)
  BY <1>1, <1>5, PlaceFacts DEF Rooted
<1>9. PICK m \in Seq(H) : m = Append(nodes, n)
  BY <1>5, <1>8, AppendedProperties
<1>10. PICK g \in Seq(Frames) : g = Append(x.nodes, f)
  BY <1>7, <1>8, AppendedProperties
<1>11. PICK l \in Nat : l = Len(nodes) /\ l = Len(x.nodes)
  BY <1>1, <1>8 DEF Rooted
<1>12. Len(m) = l + 1 /\ m[l + 1] = n /\ m # <<>> /\ \A i \in 1..l : m[i] = nodes[i]
  <2>1. n \in H /\ nodes \in Seq(H)
    BY <1>5, <1>8
  <2> QED
    <3>1. /\ Len(m) = Len(nodes) + 1 /\ m[Len(nodes) + 1] = n /\ m # <<>>
          /\ \A i \in 1..Len(nodes) : m[i] = nodes[i]
      BY <1>9, <2>1, AppendedProperties
    <3> QED
      BY <1>11, <3>1
<1>13. Len(g) = l + 1 /\ g[l + 1] = f /\ \A i \in 1..l : g[i] = x.nodes[i]
  BY <1>7, <1>8, <1>10, <1>11, AppendedProperties
<1>14. ASSUME NEW i \in 1..(l + 1)
       PROVE  Fits(m[i], g[i]) /\ Waiting(m[i])
  <2>1. CASE i = l + 1
    <3>1. op \notin TwoOperands
      BY TokenFacts3
    <3> QED
      BY <1>3, <1>7, <1>12, <1>13, <2>1, <3>1 DEF Fits, Waiting
  <2>2. CASE i # l + 1
    <3>1. i \in 1..l
      BY <1>11, <2>2
    <3>2. Fits(nodes[i], x.nodes[i]) /\ Waiting(nodes[i])
      BY <1>1, <1>11, <3>1 DEF Rooted, Standing
    <3> QED
      BY <1>12, <1>13, <3>1, <3>2
  <2> QED
    BY <2>1, <2>2
<1>15. Rooted(H, m, g)
  BY <1>5, <1>12, <1>13, <1>14 DEF Rooted
<1>16. Standing(m, y, u)
  BY <1>6, <1>10, <1>12, <1>14, <1>15 DEF Standing
<1> QED
  BY <1>2, <1>9, <1>16

\* A finished node becomes a child of the last one of a stack.
LEMMA StandingGiven ==
  ASSUME NEW G, NEW nodes, NEW frames, Rooted(G, nodes, frames),
         \A i \in 1..Len(nodes) : Waiting(nodes[i]),
         NEW c \in G, NEW y \in Places, y.nodes = frames, NEW t,
         \/ Loose(y)
         \/ y.at = "operand" /\ LeftAbove(c, y.bound) /\ Follows(c, t)
  PROVE  Standing(WithChild(nodes, c), y, t)
<1>1. PICK l \in Nat : l = Len(nodes) /\ l > 0 /\ l = Len(frames)
  <2>1. Len(nodes) \in Nat /\ Len(nodes) > 0
    BY EmptySeq DEF Rooted
  <2> QED
    BY <2>1 DEF Rooted
<1>2. PICK n \in G : n = nodes[l]
  BY <1>1 DEF Rooted
<1>3. n.op \in Ops /\ n.of \in Seq(G) /\ WellGrouped(n)
  BY ForestNode DEF Rooted
<1>4. PICK s \in Seq(G) : s = Append(n.of, c)
  BY <1>3, AppendedProperties
<1>5. PICK k \in Nat : k = Len(n.of)
  BY <1>3
<1>6. Len(s) = k + 1 /\ s[k + 1] = c /\ s # <<>> /\ \A i \in 1..k : s[i] = n.of[i]
  BY <1>3, <1>4, <1>5, AppendedProperties
<1>7. PICK o : o = Open(n.op, s)
  OBVIOUS
<1>8. o.op = n.op /\ o.of = s
  BY <1>7, OpenFacts
<1>9. n.op = frames[l].op /\ Waiting(n) /\ Fits(n, frames[l]) /\ frames[l] = Top(y)
  BY <1>1, <1>2 DEF Rooted, Fits, Top
<1>10. Infix(n) => k > 0 /\ s[1] = n.of[1]
  BY <1>3, <1>5, <1>6, EmptySeq DEF WellGrouped
<1>11. n.op \in TwoOperands => Len(s) = 2 /\ s[2] = c /\ y.at = "operand" /\ LeftAbove(c, bp_lu(n.op))
  <2> SUFFICES ASSUME n.op \in TwoOperands
               PROVE  Len(s) = 2 /\ s[2] = c /\ y.at = "operand" /\ LeftAbove(c, bp_lu(n.op))
    OBVIOUS
  <2>1. k = 1
    BY <1>5, <1>9 DEF Waiting
  <2>2. ~Loose(y)
    BY <1>9 DEF Loose, Tight
  <2>3. y.bound = bp_lu(n.op)
    BY <1>9, <2>2, PlaceFacts DEF Complete
  <2> QED
    BY <1>6, <2>1, <2>2, <2>3
<1>12. WellGrouped(o)
  BY <1>3, <1>6, <1>8, <1>10, <1>11 DEF WellGrouped, Infix
<1>13. Fits(o, frames[l])
  BY <1>8, <1>9, <1>10 DEF Fits, Infix
<1>14. PICK H : Forest(H) /\ o \in H /\ \A q : q \in Seq(G) => q \in Seq(H)
  BY <1>3, <1>7, <1>12, ForestGrows DEF Rooted
<1>15. PICK m : m = [nodes EXCEPT ![l] = o]
  OBVIOUS
<1>16. WithChild(nodes, c) = m
  BY <1>1, <1>2, <1>4, <1>7, <1>15, ChildAdded DEF Rooted
<1>17. nodes \in Seq(H)
  BY <1>14 DEF Rooted
<1>18. m \in Seq(H) /\ Len(m) = l /\ m[l] = o /\ \A i \in 1..l : i # l => m[i] = nodes[i]
  <2>1. l \in 1..Len(nodes)
    BY <1>1
  <2>2. \A i \in 1..l : i # l => i \in 1..Len(nodes)
    BY <1>1
  <2>3. Len(nodes) = l
    BY <1>1
  <2> QED
    BY <1>14, <1>15, <1>17, <2>1, <2>2, <2>3, ExceptSeq
<1>19. ASSUME NEW i \in 1..l
       PROVE  Fits(m[i], frames[i]) /\ (i < l => Waiting(m[i]))
  <2>1. CASE i = l
    BY <1>13, <1>18, <2>1
  <2>2. CASE i # l
    <3>1. Fits(nodes[i], frames[i]) /\ Waiting(nodes[i])
      BY <1>1 DEF Rooted
    <3> QED
      BY <1>18, <2>2, <3>1
  <2> QED
    BY <2>1, <2>2
<1>20. Rooted(H, m, y.nodes)
  <2>1. m # <<>>
    BY <1>1, <1>18, EmptySeq
  <2> QED
    BY <1>1, <1>14, <1>18, <1>19, <2>1 DEF Rooted
<1>21. CASE Loose(y)
  <2>1. y.at \notin Complete
    BY <1>21 DEF Loose, Complete
  <2>2. Waiting(o)
    BY <1>8, <1>9, <1>21 DEF Waiting, Loose, Tight
  <2>3. \A i \in 1..l : Waiting(m[i])
    <3>1. \A i \in 1..l : i < l \/ i = l
      OBVIOUS
    <3> QED
      BY <1>18, <1>19, <2>2, <3>1
  <2> QED
    BY <1>16, <1>18, <1>20, <2>1, <2>3 DEF Standing
<1>22. CASE y.at = "operand" /\ LeftAbove(c, y.bound) /\ Follows(c, t)
  <2>1. Len(o.of) = k + 1 /\ o.of[Len(o.of)] = c
    BY <1>6, <1>8
  <2>2. Infix(o) => k > 0
    BY <1>8, <1>10 DEF Infix
  <2>3. Completed(o, y, t)
    <3>1. Len(o.of) > (IF Infix(o) THEN 1 ELSE 0)
      BY <2>1, <2>2
    <3>2. o.op \in TwoOperands => Len(o.of) = 2
      BY <1>8, <1>11
    <3> QED
      BY <1>22, <2>1, <3>1, <3>2 DEF Completed
  <2>4. y.at \in Complete
    BY <1>22 DEF Complete
  <2> QED
    BY <1>16, <1>18, <1>19, <1>20, <2>3, <2>4 DEF Standing
<1> QED
  BY <1>21, <1>22

\* One leaf more in the last node.
LEMMA StandingKept ==
  ASSUME NEW nodes, NEW x \in Places, NEW y \in Places, NEW t, NEW u, Standing(nodes, x, t),
         x.at \notin Complete, y.nodes = x.nodes, NEW op \in Tokens \ Led,
         Loose(y) \/ y.at = "operand"
  PROVE  Standing(WithChild(nodes, Leaf(op)), y, u)
<1>1. PICK G : Rooted(G, nodes, x.nodes)
  BY DEF Standing
<1>2. PICK n : n = Open(op, <<>>)
  OBVIOUS
<1>3. n.op = op /\ ~Infix(n)
  BY <1>2, OpenFacts DEF Infix
<1>4. WellGrouped(n)
  BY <1>3 DEF WellGrouped
<1>5. PICK H : Forest(H) /\ n \in H /\ \A s : s \in Seq(G) => s \in Seq(H)
  <2>1. <<>> \in Seq(G) /\ op \in Ops
    BY DEF Ops
  <2> QED
    BY <1>1, <1>2, <1>4, <2>1, ForestGrows DEF Rooted
<1>6. Rooted(H, nodes, x.nodes)
  BY <1>1, <1>5 DEF Rooted
<1>7. \A i \in 1..Len(nodes) : Waiting(nodes[i])
  BY DEF Standing
<1>8. n.op \notin Tight /\ n.op \notin Led
  BY <1>3, TokenFacts3, TokenFacts6 DEF Tight
<1>9. LeftAbove(n, y.bound) /\ Follows(n, u)
  BY <1>8, LeftLeaf, RightLeaf DEF Follows
<1>10. Standing(WithChild(nodes, n), y, u)
  BY <1>5, <1>6, <1>7, <1>9, StandingGiven
<1> QED
  BY <1>2, <1>10 DEF Leaf

\* The last node ends, and is a child of the one around it.
LEMMA StandingClosed ==
  ASSUME NEW nodes, NEW x \in Places, NEW y \in Places, NEW t, Standing(nodes, x, t), EndsNode(x, y)
  PROVE  Standing(WithChild(Front(nodes), Last(nodes)), y, t)
<1>1. PICK G : Rooted(G, nodes, x.nodes)
  BY DEF Standing
<1>2. PICK l \in Nat : l = Len(nodes) /\ l > 0
  BY <1>1, EmptySeq DEF Rooted
<1>3. /\ x.nodes \in Seq(Frames) /\ x.nodes # <<>> /\ y.nodes \in Seq(Frames) /\ y.nodes # <<>>
      /\ y.nodes = Front(x.nodes) /\ Len(x.nodes) = l
  BY <1>1, <1>2, PlaceFacts DEF EndsNode, Rooted
<1>4. Len(y.nodes) = l - 1 /\ l - 1 > 0 /\ \A i \in 1..(l - 1) : y.nodes[i] = x.nodes[i]
  <2>1. Len(y.nodes) = l - 1 /\ \A i \in 1..(l - 1) : y.nodes[i] = x.nodes[i]
    BY <1>3, FrontProperties
  <2>2. Len(y.nodes) \in Nat /\ Len(y.nodes) > 0
    BY <1>3, EmptySeq
  <2> QED
    BY <2>1, <2>2
<1>5. PICK f, n : f = Front(nodes) /\ n = Last(nodes)
  OBVIOUS
<1>6. f \in Seq(G) /\ Len(f) = l - 1 /\ n = nodes[l] /\ n \in G /\ \A i \in 1..(l - 1) : f[i] = nodes[i]
  BY <1>1, <1>2, <1>5, FrontProperties DEF Rooted
<1>7. f # <<>>
  BY <1>4, <1>6, EmptySeq
<1>8. \A i \in 1..(l - 1) : i \in 1..l /\ i < l
  BY <1>2
<1>9. Rooted(G, f, y.nodes)
  <2>1. \A i \in 1..(l - 1) : Fits(f[i], y.nodes[i])
    BY <1>1, <1>2, <1>4, <1>6, <1>8 DEF Rooted
  <2> QED
    BY <1>1, <1>4, <1>6, <1>7, <2>1 DEF Rooted
<1>10. \A i \in 1..Len(f) : Waiting(f[i])
  BY <1>2, <1>6, <1>8 DEF Standing
<1>11. Fits(n, Top(x)) /\ n.op = Top(x).op
  BY <1>1, <1>2, <1>3, <1>6 DEF Rooted, Fits, Top
<1>12. Loose(y) \/ (y.at = "operand" /\ LeftAbove(n, y.bound) /\ Follows(n, t))
  <2> SUFFICES ASSUME y.at = "operand", Top(x).op \in Led => y.bound <= Top(x).left
               PROVE  LeftAbove(n, y.bound) /\ Follows(n, t)
    BY DEF EndsNode
  <2>1. Top(x).left \in Nat /\ y.bound \in Nat
    <3>1. Top(x) \in Frames
      <4>1. l \in 1..l
        BY <1>2
      <4> QED
        BY <1>3, <4>1, ElementOfSeq DEF Top
    <3> QED
      BY <3>1, PlaceFacts DEF Frames
  <2>2. LeftAbove(n, y.bound)
    <3>1. CASE n.op \notin Led
      BY <3>1, LeftLeaf
    <3>2. CASE n.op \in Led
      BY <1>11, <2>1, <3>2, LeftNode DEF Fits, Infix
    <3> QED
      BY <3>1, <3>2
  <2>3. Follows(n, t)
    <3>1. CASE n.op \notin Tight
      BY <3>1, RightLeaf DEF Follows
    <3>2. CASE n.op \in Tight
      <4>1. x.at = "expression"
        BY <1>11, <3>2 DEF EndsNode
      <4>2. x.at \in Complete /\ Completed(n, x, t)
        BY <1>2, <1>6, <4>1 DEF Standing, Complete
      <4>3. bp_lu(t) <= x.bound
        BY <4>1, <4>2 DEF Completed
      <4>4. CASE n.op = "prefix"
        <5>1. x.bound = 0
          BY <1>11, <4>2, <4>4, PlaceFacts
        <5>2. ~(bp_lu(t) > 0)
          BY <4>3, <5>1, PowerOf
        <5> QED
          BY <5>2 DEF Follows
      <4>5. CASE n.op \in TwoOperands
        <5>1. x.bound = bp_lu(n.op)
          BY <1>11, <4>2, <4>5, PlaceFacts
        <5>2. Len(n.of) = 2 /\ Follows(n.of[2], t)
          BY <4>2, <4>5 DEF Completed
        <5>3. bp_lu(n.op) >= bp_lu(t)
          BY <4>3, <5>1, PowerOf
        <5> QED
          BY <4>5, <5>2, <5>3, RightNode DEF Follows
      <4> QED
        BY <3>2, <4>4, <4>5 DEF Tight
    <3> QED
      BY <3>1, <3>2
  <2> QED
    BY <2>2, <2>3
<1>13. Standing(WithChild(f, n), y, t)
  BY <1>6, <1>9, <1>10, <1>12, StandingGiven
<1> QED
  BY <1>5, <1>13

\* The operand goes under its operator.
LEMMA StandingWrapped ==
  ASSUME NEW nodes, NEW x \in Places, NEW y \in Places, NEW t \in Led, Standing(nodes, x, t),
         x.at = "operand", bp_lu(t) > x.bound, NEW frame, frame = [op |-> t, left |-> x.bound],
         y.nodes = Append(x.nodes, frame), y.at = "item"
  PROVE  Standing(Append([nodes EXCEPT ![Len(nodes)].of = Front(@)],
                         Open(t, <<Last(nodes[Len(nodes)].of)>>)), y, t)
<1>1. PICK G : Rooted(G, nodes, x.nodes)
  BY DEF Standing
<1>2. PICK l \in Nat : l = Len(nodes) /\ l > 0
  BY <1>1, EmptySeq DEF Rooted
<1>3. PICK n \in G : n = nodes[l]
  BY <1>1, <1>2 DEF Rooted
<1>4. n.op \in Ops /\ n.of \in Seq(G) /\ WellGrouped(n) /\ n \in [op : Ops, of : Seq(G)]
  BY <1>1, ForestNode DEF Rooted, Forest
<1>5. x.at \in Complete /\ Completed(n, x, t)
  BY <1>2, <1>3 DEF Standing, Complete
<1>6. PICK k \in Nat : k = Len(n.of) /\ k > (IF Infix(n) THEN 1 ELSE 0) /\ k > 0
  BY <1>4, <1>5 DEF Completed
<1>7. n.of # <<>>
  BY <1>6, EmptySeq
<1>8. PICK s, c : s = Front(n.of) /\ c = Last(n.of)
  OBVIOUS
<1>9. s \in Seq(G) /\ Len(s) = k - 1 /\ c \in G /\ c = n.of[k] /\ \A i \in 1..(k - 1) : s[i] = n.of[i]
  BY <1>4, <1>6, <1>7, <1>8, FrontProperties
<1>10. LeftAbove(c, x.bound) /\ RightWithin(c, bp_lu(t))
  <2>1. bp_lu(t) > 0
    BY PowerOf
  <2> QED
    BY <1>5, <1>6, <1>9, <2>1 DEF Completed, Follows
\* What is left around the operand.
<1>11. PICK o : o = Open(n.op, s)
  OBVIOUS
<1>12. o.op = n.op /\ o.of = s
  BY <1>11, OpenFacts
<1>13. Infix(n) => s # <<>> /\ s[1] = n.of[1]
  <2> SUFFICES ASSUME Infix(n)
               PROVE  s # <<>> /\ s[1] = n.of[1]
    OBVIOUS
  <2>1. k > 1 /\ 1 \in 1..(k - 1)
    BY <1>6
  <2> QED
    BY <1>9, <2>1, EmptySeq
<1>14. n.op \in TwoOperands => Len(s) = 1
  BY <1>5, <1>6, <1>9 DEF Completed
<1>15. WellGrouped(o) /\ Waiting(o)
  BY <1>4, <1>12, <1>13, <1>14 DEF WellGrouped, Infix, Waiting
<1>16. Fits(n, x.nodes[l])
  BY <1>1, <1>2, <1>3 DEF Rooted
<1>17. Fits(o, x.nodes[l])
  BY <1>12, <1>13, <1>16 DEF Fits, Infix
<1>18. PICK H : Forest(H) /\ o \in H /\ \A q : q \in Seq(G) => q \in Seq(H)
  BY <1>1, <1>4, <1>9, <1>11, <1>15, ForestGrows DEF Rooted
\* The operator's node.
<1>19. PICK p : p = Open(t, <<c>>)
  OBVIOUS
<1>20. p.op = t /\ p.of = <<c>> /\ p.of[1] = c /\ Len(p.of) = 1 /\ p.of # <<>>
  BY <1>19, OpenFacts
<1>21. WellGrouped(p) /\ Waiting(p)
  BY <1>10, <1>20 DEF WellGrouped, Waiting
<1>22. frame.op = t /\ frame.left = x.bound /\ frame \in Frames
  <2>1. t \in Ops
    BY TokenFacts3 DEF Ops
  <2>2. x.bound \in Nat
    BY PlaceFacts
  <2> QED
    BY <2>1, <2>2 DEF Frames
<1>23. Fits(p, frame)
  BY <1>10, <1>20, <1>22 DEF Fits
<1>24. PICK K : Forest(K) /\ p \in K /\ \A q : q \in Seq(H) => q \in Seq(K)
  <2>1. <<c>> \in Seq(H)
    <3>1. <<c>> \in Seq(G)
      BY <1>9
    <3> QED
      BY <1>18, <3>1
  <2>2. t \in Ops
    BY TokenFacts3 DEF Ops
  <2> QED
    BY <1>18, <1>19, <1>21, <2>1, <2>2, ForestGrows
\* The stack.
<1>25. PICK m : m = [nodes EXCEPT ![l] = o]
  OBVIOUS
<1>26. m \in Seq(H) /\ Len(m) = l /\ m[l] = o /\ \A i \in 1..l : i # l => m[i] = nodes[i]
  <2>1. l \in 1..Len(nodes) /\ nodes \in Seq(H) /\ Len(nodes) = l
    BY <1>1, <1>2, <1>18 DEF Rooted
  <2> QED
    BY <1>18, <1>25, <2>1, ExceptSeq
<1>27. [nodes EXCEPT ![Len(nodes)].of = Front(@)] = m
  <2>1. [n EXCEPT !.of = s] = [op |-> n.op, of |-> s]
    BY <1>4
  <2>2. [nodes EXCEPT ![l].of = Front(@)] = [nodes EXCEPT ![l] = [n EXCEPT !.of = s]]
    BY <1>3, <1>8
  <2> QED
    BY <1>2, <1>11, <1>25, <2>1, <2>2 DEF Open
<1>28. m \in Seq(K) /\ p \in K
  BY <1>24, <1>26
<1>29. PICK r \in Seq(K) : r = Append(m, p)
  BY <1>28, AppendedProperties
<1>30. Len(r) = l + 1 /\ r[l + 1] = p /\ r # <<>> /\ \A i \in 1..l : r[i] = m[i]
  <2>1. /\ Len(r) = Len(m) + 1 /\ r[Len(m) + 1] = p /\ r # <<>>
        /\ \A i \in 1..Len(m) : r[i] = m[i]
    BY <1>28, <1>29, AppendedProperties
  <2> QED
    BY <1>26, <2>1
<1>31. PICK g \in Seq(Frames) : g = y.nodes
  BY PlaceFacts
<1>32. Len(g) = l + 1 /\ g[l + 1] = frame /\ \A i \in 1..l : g[i] = x.nodes[i]
  <2>1. x.nodes \in Seq(Frames) /\ Len(x.nodes) = l
    BY <1>1, <1>2, PlaceFacts DEF Rooted
  <2>2. g = Append(x.nodes, frame)
    BY <1>31
  <2>3. /\ Len(g) = Len(x.nodes) + 1 /\ g[Len(x.nodes) + 1] = frame
        /\ \A i \in 1..Len(x.nodes) : g[i] = x.nodes[i]
    BY <1>22, <2>1, <2>2, AppendedProperties
  <2> QED
    BY <2>1, <2>3
<1>33. ASSUME NEW i \in 1..(l + 1)
       PROVE  Fits(r[i], g[i]) /\ Waiting(r[i])
  <2>1. CASE i = l + 1
    BY <1>21, <1>23, <1>30, <1>32, <2>1
  <2>2. CASE i = l
    <3>1. i \in 1..l
      BY <1>2, <2>2
    <3>2. r[i] = o /\ g[i] = x.nodes[i]
      BY <1>26, <1>30, <1>32, <2>2, <3>1
    <3> QED
      BY <1>15, <1>17, <2>2, <3>2
  <2>3. CASE i \notin {l, l + 1}
    <3>1. i \in 1..l /\ i < l /\ i # l
      BY <1>2, <2>3
    <3>2. r[i] = nodes[i] /\ g[i] = x.nodes[i]
      BY <1>26, <1>30, <1>32, <3>1
    <3>3. Fits(nodes[i], x.nodes[i]) /\ Waiting(nodes[i])
      BY <1>1, <1>2, <3>1 DEF Rooted, Standing
    <3> QED
      BY <3>2, <3>3
  <2> QED
    BY <2>1, <2>2, <2>3
<1>34. Rooted(K, r, y.nodes)
  BY <1>24, <1>30, <1>31, <1>32, <1>33 DEF Rooted
<1>35. y.at \notin Complete
  BY DEF Complete
<1>36. Standing(r, y, t)
  BY <1>30, <1>33, <1>34, <1>35 DEF Standing
<1> QED
  BY <1>2, <1>3, <1>8, <1>19, <1>27, <1>29, <1>36

-----------------------------------------------------------------------------
(* The inductive invariant.                                                *)

\* What was read opened the brackets of the place, and ends in import, or in
\* what a name follows, where the place says so.
ReadTo(r, x) ==
  /\ FoldLeft(Nesting, <<>>, r) = x.open
  /\ x.at = "import" => r # <<>> /\ r[Len(r)] = "import"
  /\ x.at = "name" =>
       r # <<>> /\ (r[Len(r)] \in {"contract", "fn"} \/ (Len(r) > 1 /\ r[Len(r) - 1] = "import"))

\* What was read ends in a name taken without a look.
AsName(r) ==
  /\ Len(r) > 1 /\ Last(r) = "id"
  /\ r[Len(r) - 1] \in {"contract", "fn"} \/ (Len(r) > 2 /\ r[Len(r) - 2] = "import")

\* Reading one token more that is no bracket.
LEMMA ReadPlain ==
  ASSUME NEW r \in Seq(Tokens), NEW x \in Places, NEW y, ReadTo(r, x), NEW t \in Tokens \ Brackets,
         y.open = x.open, y.at \notin {"import", "name"}
  PROVE  ReadTo(Append(r, t), y)
<1>1. FoldLeft(Nesting, <<>>, Append(r, t)) = Nesting(x.open, t)
  BY NestingAfter DEF ReadTo
<1>2. Nesting(x.open, t) = x.open
  BY PlaceFacts, NestingFacts
<1> QED
  BY <1>1, <1>2 DEF ReadTo

\* The same tokens at another place.
LEMMA ReadSame ==
  ASSUME NEW r, NEW x, NEW y, ReadTo(r, x), y.open = x.open, y.at \notin {"import", "name"}
  PROVE  ReadTo(r, y)
BY DEF ReadTo

\* Reading one token more, consumed by an item.
LEMMA ReadTaken ==
  ASSUME NEW r \in Seq(Tokens), NEW x \in Places, NEW y \in Places, ReadTo(r, x),
         NEW i \in Items, i.do = "expect", TakesToken(i, x, y), NEW t \in i.any
  PROVE  /\ t \in Tokens /\ Taken(i.any, t) \in Tokens
         /\ ReadTo(Append(r, Taken(i.any, t)), y)
         /\ t = "EOF" => AsName(Append(r, Taken(i.any, t)))
<1>1. i.any \subseteq Tokens
  BY DEF Items
<1>2. PICK u \in Tokens : u = Taken(i.any, t)
  BY <1>1, TokenFacts2 DEF Taken
<1>3. PICK s \in Seq(Tokens) : s = Append(r, u)
  BY AppendedProperties
<1>4. PICK l \in Nat : l = Len(r)
  OBVIOUS
<1>5. Len(s) = l + 1 /\ s[l + 1] = u /\ s # <<>> /\ \A k \in 1..l : s[k] = r[k]
  BY <1>2, <1>3, <1>4, AppendedProperties
<1>6. FoldLeft(Nesting, <<>>, s) = y.open
  <2>1. FoldLeft(Nesting, <<>>, s) = Nesting(x.open, u)
    BY <1>2, <1>3, NestingAfter DEF ReadTo
  <2> QED
    BY <1>2, <2>1 DEF TakesToken
<1>7. i.any = {"import"} => u = "import"
  <2> SUFFICES ASSUME i.any = {"import"}
               PROVE  u = "import"
    OBVIOUS
  <2>1. "EOF" \in Tokens /\ "EOF" \notin {"import"}
    BY TokenFacts1
  <2>2. i.any # Tokens
    BY <2>1
  <2> QED
    BY <1>2, <2>2 DEF Taken
<1>8. i.any \in {{"contract"}, {"fn"}} => u \in {"contract", "fn"}
  <2> SUFFICES ASSUME i.any \in {{"contract"}, {"fn"}}
               PROVE  u \in {"contract", "fn"}
    OBVIOUS
  <2>1. "EOF" \in Tokens /\ "EOF" \notin {"contract"} /\ "EOF" \notin {"fn"}
    BY TokenFacts1
  <2>2. i.any # Tokens /\ t \in {"contract", "fn"}
    BY <2>1
  <2> QED
    BY <1>2, <2>2 DEF Taken
<1>9. y.at = "import" => u = "import"
  <2>1. CASE i.keep
    <3>1. y.at \in {"operand", "item"}
      BY <2>1 DEF TakesToken, Becomes, At, Place
    <3> QED
      BY <3>1
  <2>2. CASE ~i.keep
    BY <1>7, <2>2 DEF TakesToken
  <2> QED
    BY <2>1, <2>2
<1>10. y.at = "name" => u \in {"contract", "fn"} \/ (l > 0 /\ r[l] = "import")
  <2>1. CASE i.keep
    <3>1. y.at \in {"operand", "item"}
      BY <2>1 DEF TakesToken, Becomes, At, Place
    <3> QED
      BY <3>1
  <2>2. CASE ~i.keep
    <3> SUFFICES ASSUME y.at = "name"
                 PROVE  u \in {"contract", "fn"} \/ (l > 0 /\ r[l] = "import")
      OBVIOUS
    <3>1. CASE i.any \in {{"contract"}, {"fn"}}
      BY <1>8, <3>1
    <3>2. CASE x.at = "import"
      <4>1. r # <<>> /\ r[Len(r)] = "import"
        BY <3>2 DEF ReadTo
      <4> QED
        BY <1>4, <4>1, EmptySeq
    <3> QED
      BY <2>2, <3>1, <3>2 DEF TakesToken
  <2> QED
    BY <2>1, <2>2
<1>11. ReadTo(s, y)
  <2>1. y.at = "import" => s[Len(s)] = "import"
    BY <1>5, <1>9
  <2>2. y.at = "name" => s[Len(s)] \in {"contract", "fn"} \/ (Len(s) > 1 /\ s[Len(s) - 1] = "import")
    <3>1. l > 0 /\ r[l] = "import" => Len(s) > 1 /\ s[Len(s) - 1] = "import"
      BY <1>4, <1>5
    <3> QED
      BY <1>5, <1>10, <3>1
  <2> QED
    BY <1>5, <1>6, <2>1, <2>2 DEF ReadTo
<1>12. t = "EOF" => AsName(s)
  <2> SUFFICES ASSUME t = "EOF"
               PROVE  AsName(s)
    OBVIOUS
  <2>1. i.any = Tokens /\ x.at = "name" /\ u = "id"
    BY <1>2 DEF TakesToken, Taken
  <2>2. r # <<>> /\ (r[l] \in {"contract", "fn"} \/ (l > 1 /\ r[l - 1] = "import"))
    BY <1>4, <2>1 DEF ReadTo
  <2>3. l > 0
    BY <1>4, <2>2, EmptySeq
  <2>4. Last(s) = "id" /\ Len(s) > 1 /\ Len(s) - 1 = l /\ Len(s) - 2 = l - 1
    BY <1>4, <1>5, <2>1, <2>3 DEF Last
  <2>5. s[l] = r[l] /\ (l > 1 => s[l - 1] = r[l - 1])
    BY <1>5, <2>3
  <2> QED
    BY <2>2, <2>4, <2>5 DEF AsName
<1> QED
  BY <1>1, <1>2, <1>3, <1>11, <1>12

\* Every variable but todo and tree has its type.
Types ==
  /\ input \in Inputs /\ rest \in Seq(Tokens) /\ token \in Tokens \cup {"none"}
  /\ read \in Seq(Tokens) /\ status \in {"parsing", "parsed", "panicked"}

\* The place where a whole program has been read.
Home == Place(<<>>, <<[op |-> "program", left |-> 0]>>, "item", 0)

\* The outermost thing to do is to read the statements of the file.
Bottom(q) == q \in Seq(Items) /\ q # <<>> /\ q[Len(q)] = Statements("EOF")

\* The parse stands at x: what is left to do leads from x to Home, and what was
\* read and built is what leads to x.
Stands(x) == Walks(todo, x, Home) /\ ReadTo(read, x) /\ Standing(tree, x, token)

\* The inductive invariant: the parse stands at some place. The end of the file
\* was consumed as a name, and a program accepted when only its loop was left.
ParserInv ==
  /\ Types /\ Bottom(todo)
  /\ token = "none" => AsName(read)
  /\ status = "parsed" => Len(todo) = 1 /\ token = "EOF"
  /\ \E x \in Places : Stands(x)

\* Consuming a token: it joins those read, and whichever may come next is current.
LEMMA AdvanceFacts ==
  ASSUME Types, token \in Tokens, NEW as \in Tokens, advance(as)
  PROVE  /\ rest' \in Seq(Tokens) /\ read' \in Seq(Tokens) /\ read' = Append(read, as)
         /\ token' \in Tokens \cup {"none"} /\ (token' = "none" => token = "EOF")
<1>1. read' = Append(read, as) /\ read' \in Seq(Tokens)
  <2>1. Append(read, as) \in Seq(Tokens)
    BY AppendedProperties DEF Types
  <2> QED
    BY <2>1 DEF advance
<1>2. CASE token = "EOF"
  BY <1>1, <1>2 DEF advance, Types
<1>3. CASE token # "EOF"
  <2>1. NextToken
    BY <1>3 DEF advance
  <2>2. input.tokens \subseteq Tokens /\ input.after \in Seq(Tokens)
    BY InputsAssumption DEF Types
  <2>3. Head(Ending(input)) \in Tokens /\ Tail(Ending(input)) \in Seq(Tokens)
    <3>1. PICK e \in Seq(Tokens) : e = Ending(input) /\ e # <<>>
      BY <2>2, TokenFacts1, AppendedProperties DEF Ending
    <3>2. Head(e) \in Tokens /\ Tail(e) \in Seq(Tokens)
      BY <3>1, HeadTailProperties
    <3> QED
      BY <3>1, <3>2
  <2>4. rest # <<>> => Head(rest) \in Tokens /\ Tail(rest) \in Seq(Tokens)
    BY HeadTailProperties DEF Types
  <2>5. rest' \in Seq(Tokens) /\ token' \in Tokens
    BY <2>1, <2>2, <2>3, <2>4 DEF NextToken, Types
  <2>6. token' # "none"
    BY <2>5, TokenFacts6
  <2> QED
    BY <1>1, <2>5, <2>6
<1> QED
  BY <1>2, <1>3

\* At Home no bracket is open and the program is the only node.
LEMMA HomeFacts ==
  /\ Home \in Places /\ Home.open = <<>> /\ Home.nodes = <<[op |-> "program", left |-> 0]>>
  /\ Home.at = "item" /\ Top(Home).op = "program" /\ Loose(Home)
<1>1. PICK f : f = [op |-> "program", left |-> 0]
  OBVIOUS
<1>2. f \in Frames /\ f.op = "program"
  BY <1>1 DEF Frames, Ops
<1>3. PICK q : q = <<f>>
  OBVIOUS
<1>4. q \in Seq(Frames) /\ q # <<>> /\ q[Len(q)] = f
  BY <1>2, <1>3
<1>5. PICK e \in Seq(Opening) : e = <<>>
  <2>1. <<>> \in Seq(Opening)
    OBVIOUS
  <2> QED
    BY <2>1
<1>6. PICK h : h = Place(e, q, "item", 0)
  OBVIOUS
<1>7. h \in Places /\ h.open = e /\ h.nodes = q /\ h.at = "item" /\ Top(h) = f
  <2>1. "item" \notin Complete /\ 0 \in Nat
    BY DEF Complete
  <2>2. q \in Seq(Frames) /\ q # <<>> /\ e \in Seq(Opening)
    BY <1>4, <1>5
  <2>3. /\ h \in Places /\ h.open = e /\ h.nodes = q /\ h.at = "item"
        /\ Top(h) = q[Len(q)]
    BY <1>6, <2>1, <2>2, PlaceMade
  <2> QED
    BY <1>4, <2>3
<1>8. "program" \notin Tight
  BY LedFacts DEF Tight, TwoOperands
<1>9. Loose(h)
  BY <1>2, <1>7, <1>8 DEF Loose
<1> QED
  BY <1>1, <1>2, <1>3, <1>5, <1>6, <1>7, <1>9 DEF Home

-----------------------------------------------------------------------------
(* One step.                                                               *)

\* The first thing to do is the first step of the walk, and what comes after it
\* leads from there to Home.
LEMMA HeadOf ==
  ASSUME ParserInv
  PROVE  /\ Head(todo) \in Items /\ Tail(todo) \in Seq(Items) /\ todo = <<Head(todo)>> \o Tail(todo)
         /\ Head(todo).do # "statements" \/ Len(todo) > 1 => Bottom(Tail(todo))
         /\ \E x \in Places, m \in Places :
              /\ Takes(Head(todo), x, m) /\ Walks(Tail(todo), m, Home)
              /\ ReadTo(read, x) /\ Standing(tree, x, token)
<1>1. todo \in Seq(Items) /\ todo # <<>> /\ todo[Len(todo)] = Statements("EOF")
  BY DEF ParserInv, Bottom
<1>2. PICK n \in Nat : n = Len(todo) /\ n > 0
  BY <1>1, EmptySeq
<1>3. /\ Head(todo) \in Items /\ Tail(todo) \in Seq(Items) /\ Head(todo) = todo[1]
      /\ Len(Tail(todo)) = n - 1 /\ \A i \in 1..(n - 1) : Tail(todo)[i] = todo[i + 1]
  BY <1>1, <1>2, HeadTailProperties, ElementOfSeq
<1>4. todo = <<Head(todo)>> \o Tail(todo)
  <2>1. PICK q : q = <<Head(todo)>> \o Tail(todo)
    OBVIOUS
  <2>2. /\ <<Head(todo)>> \in Seq(Items) /\ Len(<<Head(todo)>>) = 1
        /\ <<Head(todo)>>[1] = Head(todo)
    BY <1>3, ShortSequences
  <2>3. PICK h \in Seq(Items) : h = <<Head(todo)>>
    BY <2>2
  <2>4. /\ q \in Seq(Items) /\ Len(q) = n /\ q[1] = todo[1]
        /\ \A i \in 1..n : i > 1 => q[i] = Tail(todo)[i - 1]
    BY <1>2, <1>3, <2>1, <2>2, <2>3, ExtendedProperties
  <2>5. \A i \in 1..n : q[i] = todo[i]
    <3> SUFFICES ASSUME NEW i \in 1..n
                 PROVE  q[i] = todo[i]
      OBVIOUS
    <3>1. CASE i = 1
      BY <2>4, <3>1
    <3>2. CASE i # 1
      <4>1. i > 1 /\ i - 1 \in 1..(n - 1) /\ (i - 1) + 1 = i
        BY <1>2, <3>2
      <4> QED
        BY <1>3, <2>4, <4>1
    <3> QED
      BY <3>1, <3>2
  <2> QED
    BY <1>1, <1>2, <2>1, <2>4, <2>5, SeqEqual
<1>5. Head(todo).do # "statements" \/ Len(todo) > 1 => Bottom(Tail(todo))
  <2> SUFFICES ASSUME Head(todo).do # "statements" \/ Len(todo) > 1
               PROVE  Bottom(Tail(todo))
    OBVIOUS
  <2>1. n > 1
    <3>1. Statements("EOF").do = "statements"
      BY DEF Statements
    <3> QED
      BY <1>1, <1>2, <1>3, <3>1
  <2>2. n - 1 \in 1..(n - 1) /\ (n - 1) + 1 = n
    BY <2>1
  <2>3. Tail(todo)[Len(Tail(todo))] = Statements("EOF")
    BY <1>1, <1>2, <1>3, <2>2
  <2>4. Tail(todo) # <<>>
    BY <1>3, <2>1, EmptySeq
  <2> QED
    BY <1>3, <2>3, <2>4 DEF Bottom
<1>6. PICK x \in Places : Stands(x)
  BY DEF ParserInv
<1>7. \E m \in Places : Takes(Head(todo), x, m) /\ Walks(Tail(todo), m, Home)
  BY <1>1, <1>6, WalkCut DEF Stands
<1> QED
  BY <1>3, <1>4, <1>5, <1>6, <1>7 DEF Stands

\* What is done in its place is a walk before the rest of the walk.
LEMMA TodoStands ==
  ASSUME NEW items, NEW q, NEW y, NEW m, Walks(items, y, m), Walks(q, m, Home), Bottom(q)
  PROVE  Walks(items \o q, y, Home) /\ Bottom(items \o q)
<1>1. Walks(items \o q, y, Home)
  BY WalkJoin
<1>2. items \in Seq(Items) /\ q \in Seq(Items) /\ q # <<>> /\ q[Len(q)] = Statements("EOF")
  BY DEF Walks, Leads, Bottom
<1>3. PICK a \in Nat, b \in Nat : a = Len(items) /\ b = Len(q) /\ b > 0
  BY <1>2, EmptySeq
<1>4. PICK r \in Seq(Items) : r = items \o q
  BY <1>2, ExtendedProperties
<1>5. /\ Len(r) = a + b
      /\ \A i \in 1..(a + b) : i > a => i - a \in 1..b /\ r[i] = q[i - a]
  BY <1>2, <1>3, <1>4, ExtendedProperties
<1>6. a + b \in 1..(a + b) /\ a + b > a /\ (a + b) - a = b
  BY <1>3
<1>7. r[Len(r)] = Statements("EOF") /\ r # <<>>
  BY <1>2, <1>3, <1>5, <1>6, EmptySeq
<1> QED
  BY <1>1, <1>4, <1>7 DEF Bottom

\* A step that consumes nothing keeps the invariant if what is then left to do is
\* a walk from a place as which the tree stands.
LEMMA LookingStep ==
  ASSUME ParserInv, Looking, status = "parsing", token # "none", Bottom(todo'),
         NEW y \in Places, Walks(todo', y, Home), ReadTo(read, y), Standing(tree', y, token)
  PROVE  ParserInv'
<1>1. Types'
  BY DEF ParserInv, Types, Looking
<1>2. Stands(y)'
  BY DEF Stands, Looking
<1>3. Bottom(todo)'
  OBVIOUS
<1> QED
  BY <1>1, <1>2, <1>3 DEF ParserInv, Looking

\* The same, for a step that consumes a token.
LEMMA ReadingStep ==
  ASSUME ParserInv, Parsing, status = "parsing", token \in Tokens, NEW as \in Tokens, advance(as),
         token = "EOF" => AsName(Append(read, as)), Bottom(todo'),
         NEW y \in Places, Walks(todo', y, Home), ReadTo(Append(read, as), y),
         Standing(tree', y, token')
  PROVE  ParserInv'
<1>1. /\ rest' \in Seq(Tokens) /\ read' \in Seq(Tokens) /\ read' = Append(read, as)
      /\ token' \in Tokens \cup {"none"} /\ (token' = "none" => token = "EOF")
  BY AdvanceFacts DEF ParserInv
<1>2. Types'
  BY <1>1 DEF ParserInv, Types, Parsing
<1>3. Stands(y)'
  BY <1>1 DEF Stands
<1>4. Bottom(todo)'
  OBVIOUS
<1>5. (token = "none" => AsName(read))'
  BY <1>1
<1> QED
  BY <1>2, <1>3, <1>4, <1>5 DEF ParserInv, Parsing

-----------------------------------------------------------------------------
(* Tokens, nodes and operands.                                             *)

\* The place after an operand or an expression.
LEMMA BecomesFacts ==
  ASSUME NEW x \in Places, NEW y \in Places, NEW at \in Complete, NEW b \in Nat, Becomes(x, y, at, b)
  PROVE  /\ y.open = x.open /\ y.nodes = x.nodes
         /\ Loose(y) \/ (y.at = at /\ y.bound = b)
         /\ y.at \notin {"import", "name"}
<1>1. at \in {"item", "import", "name", "operand", "expression"} /\ at \notin {"import", "name"}
  BY DEF Complete
<1>2. CASE y = At(x, at, b)
  BY <1>1, <1>2, AtFacts
<1>3. CASE Top(x).op \notin Tight /\ y = At(x, "item", 0)
  <2>1. y.open = x.open /\ y.nodes = x.nodes /\ y.at = "item" /\ Top(y) = Top(x)
    BY <1>3, AtFacts
  <2> QED
    BY <1>3, <2>1 DEF Loose
<1> QED
  BY <1>2, <1>3 DEF Becomes

\* An item done leaves the rest of the walk.
LEMMA Dropped ==
  ASSUME NEW m \in Places, NEW q, Walks(q, m, Home), Bottom(q)
  PROVE  Walks(<<>> \o q, m, Home) /\ Bottom(<<>> \o q)
BY WalkNone, TodoStands

\* A loose place is after no operand, and after no name.
LEMMA LooseNotComplete ==
  ASSUME NEW y, Loose(y)
  PROVE  y.at = "item" /\ y.at \notin Complete /\ y.at \notin {"import", "name"}
BY DEF Loose, Complete

\* Consuming an expected token keeps the invariant.
LEMMA ExpectKeeps ==
  ASSUME ParserInv, expect
  PROVE  ParserInv'
<1>1. PICK x \in Places, m \in Places :
        /\ Takes(Head(todo), x, m) /\ Walks(Tail(todo), m, Home)
        /\ ReadTo(read, x) /\ Standing(tree, x, token)
  BY HeadOf
<1>2. PICK i \in Items : i = Head(todo)
  BY HeadOf
<1>3. i.do = "expect" /\ token \in i.any /\ status = "parsing" /\ Bottom(Tail(todo))
  BY <1>2, HeadOf DEF expect, Does
<1>4. TakesToken(i, x, m)
  BY <1>1, <1>2, <1>3, TakesByKind
<1>5. PICK as : as = Taken(i.any, token)
  OBVIOUS
<1>6. read \in Seq(Tokens)
  BY DEF ParserInv, Types
<1>7. /\ token \in Tokens /\ as \in Tokens /\ ReadTo(Append(read, as), m)
      /\ token = "EOF" => AsName(Append(read, as))
  BY <1>1, <1>3, <1>4, <1>5, <1>6, ReadTaken
<1>8. advance(as) /\ Parsing
  BY <1>2, <1>5 DEF expect, Taken
<1>9. Walks(todo', m, Home) /\ Bottom(todo')
  BY <1>1, <1>3, Dropped DEF expect, Do
<1>10. Standing(tree', m, token')
  <2>1. CASE i.keep
    <3>1. x.at = "item" /\ token \notin Led
      BY <1>3, <1>4, <2>1 DEF TakesToken
    <3>2. PICK b \in Nat : Becomes(x, m, "operand", b)
      BY <1>4, <2>1 DEF TakesToken
    <3>3. m.nodes = x.nodes /\ (Loose(m) \/ m.at = "operand")
      BY <3>2, BecomesFacts DEF Complete
    <3>4. tree' = WithChild(tree, Leaf(token))
      BY <1>2, <2>1 DEF expect
    <3>5. x.at \notin Complete
      BY <3>1 DEF Complete
    <3>6. token \in Tokens \ Led
      BY <1>7, <3>1
    <3>7. Standing(WithChild(tree, Leaf(token)), m, token')
      BY <1>1, <3>3, <3>5, <3>6, StandingKept
    <3> QED
      BY <3>4, <3>7
  <2>2. CASE ~i.keep
    <3>1. m.nodes = x.nodes /\ x.at \notin Complete /\ m.at \notin Complete
      BY <1>4, <2>2 DEF TakesToken
    <3>2. tree' = tree
      BY <1>2, <2>2 DEF expect
    <3> QED
      BY <1>1, <3>1, <3>2, StandingSame
  <2> QED
    BY <2>1, <2>2
<1> QED
  BY <1>3, <1>7, <1>8, <1>9, <1>10, ReadingStep

\* So does beginning a node.
LEMMA BeginNodeKeeps ==
  ASSUME ParserInv, BeginNode
  PROVE  ParserInv'
<1>1. PICK x \in Places, m \in Places :
        /\ Takes(Head(todo), x, m) /\ Walks(Tail(todo), m, Home)
        /\ ReadTo(read, x) /\ Standing(tree, x, token)
  BY HeadOf
<1>2. PICK i \in Items : i = Head(todo)
  BY HeadOf
<1>3. i.do = "node" /\ status = "parsing" /\ token # "none" /\ Bottom(Tail(todo)) /\ Looking
  BY <1>2, HeadOf DEF BeginNode, Does
<1>4. x.at = "item" /\ m = Under(x, i.op, 0)
  BY <1>1, <1>2, <1>3, TakesByKind
<1>5. i.op \in Ops \ Led
  <2>1. i.op \in NodeOps
    BY <1>3 DEF Items
  <2> QED
    BY <2>1, TokenFacts6 DEF Ops
<1>6. m.open = x.open /\ m.at = "item" /\ m.nodes = Append(x.nodes, [op |-> i.op, left |-> 0])
  BY <1>4 DEF Under, Place
<1>7. x.at \notin Complete /\ m.at \notin Complete /\ m.at \notin {"import", "name"}
  BY <1>4, <1>6 DEF Complete
<1>8. Standing(tree', m, token)
  <2>1. tree' = Append(tree, Open(i.op, <<>>))
    BY <1>2 DEF BeginNode
  <2>2. Standing(Append(tree, Open(i.op, <<>>)), m, token)
    BY <1>1, <1>5, <1>6, <1>7, StandingPushed
  <2> QED
    BY <2>1, <2>2
<1>9. Walks(todo', m, Home) /\ Bottom(todo')
  BY <1>1, <1>3, Dropped DEF BeginNode, Do
<1>10. ReadTo(read, m)
  BY <1>1, <1>6, <1>7, ReadSame
<1> QED
  BY <1>3, <1>8, <1>9, <1>10, LookingStep

\* So does ending one.
LEMMA EndNodeKeeps ==
  ASSUME ParserInv, EndNode
  PROVE  ParserInv'
<1>1. PICK x \in Places, m \in Places :
        /\ Takes(Head(todo), x, m) /\ Walks(Tail(todo), m, Home)
        /\ ReadTo(read, x) /\ Standing(tree, x, token)
  BY HeadOf
<1>2. PICK i \in Items : i = Head(todo)
  BY HeadOf
<1>3. i.do = "done" /\ status = "parsing" /\ token # "none" /\ Bottom(Tail(todo)) /\ Looking
  BY <1>2, HeadOf DEF EndNode, Does
<1>4. EndsNode(x, m)
  BY <1>1, <1>2, <1>3, TakesByKind
<1>5. m.open = x.open /\ m.at \notin {"import", "name"}
  BY <1>4, LooseNotComplete DEF EndsNode
<1>6. Standing(tree', m, token)
  <2>1. tree' = WithChild(Front(tree), Last(tree))
    BY DEF EndNode, Closed
  <2> QED
    BY <1>1, <1>4, <2>1, StandingClosed
<1>7. Walks(todo', m, Home) /\ Bottom(todo')
  BY <1>1, <1>3, Dropped DEF EndNode, Do
<1>8. ReadTo(read, m)
  BY <1>1, <1>5, ReadSame
<1> QED
  BY <1>3, <1>6, <1>7, <1>8, LookingStep

\* An expression: an operand, and the operators that follow it.
LEMMA ParseExprKeeps ==
  ASSUME ParserInv, parse_expr
  PROVE  ParserInv'
<1>1. PICK x \in Places, m \in Places :
        /\ Takes(Head(todo), x, m) /\ Walks(Tail(todo), m, Home)
        /\ ReadTo(read, x) /\ Standing(tree, x, token)
  BY HeadOf
<1>2. PICK i \in Items : i = Head(todo)
  BY HeadOf
<1>3. i.do = "expr" /\ status = "parsing" /\ token # "none" /\ Bottom(Tail(todo)) /\ Looking
  BY <1>2, HeadOf DEF parse_expr, Does
<1>4. x.at = "item" /\ Becomes(x, m, "expression", i.bp)
  BY <1>1, <1>2, <1>3, TakesByKind
<1>5. PICK bp \in Nat : bp = i.bp
  <2>1. i.bp \in Nat
    BY <1>3 DEF Items
  <2> QED
    BY <2>1
<1>6. PICK z : z = At(x, "operand", bp)
  OBVIOUS
<1>7. z.open = x.open /\ z.nodes = x.nodes /\ z.at = "operand" /\ z.bound = bp /\ Top(z) = Top(x)
  BY <1>6, AtFacts
<1>8. z \in Places
  <2>1. CASE m = At(x, "expression", bp)
    <3>1. /\ Top(x).op \in TwoOperands => bp = bp_lu(Top(x).op)
          /\ Top(x).op = "prefix" => bp = 0
      BY <2>1, AtFacts DEF Complete
    <3> QED
      BY <1>6, <3>1, AtFacts DEF Complete
  <2>2. CASE Top(x).op \notin Tight
    <3>1. Top(x).op \notin TwoOperands /\ Top(x).op # "prefix"
      BY <2>2 DEF Tight
    <3> QED
      BY <1>6, <3>1, AtFacts DEF Complete
  <2> QED
    BY <1>4, <1>5, <2>1, <2>2 DEF Becomes
<1>9. Walks(nud_lu(token), x, z)
  BY <1>4, <1>6, <1>8, OperandOf DEF Operand
<1>10. Walks(<<Operators(bp)>>, z, m)
  <2>1. Operators(bp) \in Items /\ Operators(bp).do = "operators" /\ Operators(bp).bp = bp
    BY DEF Operators, Items
  <2>2. Becomes(z, m, "expression", bp)
    <3>1. At(z, "expression", bp) = At(x, "expression", bp) /\ At(z, "item", 0) = At(x, "item", 0)
      BY <1>7 DEF At
    <3> QED
      BY <1>4, <1>5, <1>7, <3>1 DEF Becomes
  <2>3. Takes(Operators(bp), z, m)
    BY <1>7, <2>1, <2>2, TakesByKind
  <2> QED
    BY <1>8, <2>1, <2>3, WalkOne
<1>11. Walks(nud_lu(token) \o <<Operators(bp)>>, x, m)
  BY <1>9, <1>10, WalkJoin
<1>12. Walks(todo', x, Home) /\ Bottom(todo')
  BY <1>1, <1>2, <1>3, <1>5, <1>11, TodoStands DEF parse_expr, Do
<1>13. Standing(tree', x, token)
  BY <1>1 DEF parse_expr
<1> QED
  BY <1>1, <1>3, <1>12, <1>13, LookingStep

-----------------------------------------------------------------------------
(* Operators and statements.                                               *)

\* An operator takes the operand before it into a node of its own.
LEMMA ApplyOperatorKeeps ==
  ASSUME ParserInv, ApplyOperator
  PROVE  ParserInv'
<1>1. PICK x \in Places, m \in Places :
        /\ Takes(Head(todo), x, m) /\ Walks(Tail(todo), m, Home)
        /\ ReadTo(read, x) /\ Standing(tree, x, token)
  BY HeadOf
<1>2. PICK i \in Items : i = Head(todo)
  BY HeadOf
<1>3. /\ i.do = "operators" /\ status = "parsing" /\ token # "none" /\ Bottom(Tail(todo)) /\ Looking
      /\ bp_lu(token) > i.bp
  BY <1>2, HeadOf DEF ApplyOperator, Does
<1>4. x.at = "operand" /\ x.bound = i.bp /\ Becomes(x, m, "expression", i.bp)
  BY <1>1, <1>2, <1>3, TakesByKind
<1>5. x.bound \in Nat /\ x = At(x, "operand", x.bound)
  BY <1>4, PlaceFacts DEF At
<1>6. token \in Led /\ token \in Ops
  <2>1. bp_lu(token) > 0
    BY <1>3, <1>4, <1>5, PowerOf
  <2> QED
    BY <2>1, PowerOf, TokenFacts3 DEF Ops
<1>7. PICK frame : frame = [op |-> token, left |-> x.bound]
  OBVIOUS
<1>8. PICK y : y = Under(x, token, x.bound)
  OBVIOUS
<1>9. /\ y \in Places /\ y.open = x.open /\ y.at = "item" /\ y.bound = 0
      /\ y.nodes = Append(x.nodes, frame) /\ Top(y) = frame /\ Front(y.nodes) = x.nodes
  BY <1>5, <1>6, <1>7, <1>8, UnderFacts
<1>10. Top(y).op = token /\ Top(y).left = x.bound
  BY <1>7, <1>9
<1>11. PICK z \in Places :
         /\ Walks(led_lu(token), y, z) /\ z.open = y.open /\ z.nodes = y.nodes
         /\ z.at = IF token \in TwoOperands THEN "expression" ELSE "item"
  BY <1>6, <1>9, <1>10, OperatorOf DEF OfOperator
<1>12. Top(z) = Top(y)
  BY <1>11 DEF Top
<1>13. EndsNode(z, x)
  <2>1. token \in Tight <=> token \in TwoOperands
    <3>1. token # "prefix"
      BY <1>6, TokenFacts3, TokenFacts6
    <3> QED
      BY <3>1 DEF Tight
  <2>2. z.at = IF Top(z).op \in Tight THEN "expression" ELSE "item"
    BY <1>10, <1>11, <1>12, <2>1
  <2>3. x.open = z.open /\ x.nodes = Front(z.nodes)
    BY <1>9, <1>11
  <2>4. x.bound <= Top(z).left
    BY <1>5, <1>10, <1>12
  <2> QED
    BY <1>4, <2>2, <2>3, <2>4 DEF EndsNode
<1>14. Walks(<<Done>>, z, x)
  <2>1. Done \in Items /\ Done.do = "done"
    BY DEF Done, Items
  <2> QED
    BY <1>13, <2>1, TakesByKind, WalkOne
<1>15. Walks(<<i>>, x, m)
  <2>1. Takes(i, x, m)
    BY <1>1, <1>2
  <2> QED
    BY <2>1, WalkOne
<1>16. <<Done, i>> = <<Done>> \o <<i>>
  BY First2
<1>17. Walks(<<Done, i>>, z, m)
  BY <1>14, <1>15, <1>16, WalkJoin
<1>18. Walks(led_lu(token) \o <<Done, i>>, y, m)
  BY <1>11, <1>17, WalkJoin
<1>19. Walks(todo', y, Home) /\ Bottom(todo')
  BY <1>1, <1>2, <1>3, <1>18, TodoStands DEF ApplyOperator, Do
<1>20. Standing(tree', y, token)
  <2>1. tree' = Append([tree EXCEPT ![Len(tree)].of = Front(@)],
                       Open(token, <<Last(tree[Len(tree)].of)>>))
    BY DEF ApplyOperator, Wrapped, Last
  <2>2. bp_lu(token) > x.bound
    BY <1>3, <1>4
  <2>3. Standing(Append([tree EXCEPT ![Len(tree)].of = Front(@)],
                        Open(token, <<Last(tree[Len(tree)].of)>>)), y, token)
    BY <1>1, <1>4, <1>6, <1>7, <1>9, <2>2, StandingWrapped
  <2> QED
    BY <2>1, <2>3
<1>21. ReadTo(read, y)
  BY <1>1, <1>9, ReadSame
<1> QED
  BY <1>3, <1>9, <1>19, <1>20, <1>21, LookingStep

\* What follows is no operator that binds tighter: the expression ends.
LEMMA EndExpressionKeeps ==
  ASSUME ParserInv, EndExpression
  PROVE  ParserInv'
<1>1. PICK x \in Places, m \in Places :
        /\ Takes(Head(todo), x, m) /\ Walks(Tail(todo), m, Home)
        /\ ReadTo(read, x) /\ Standing(tree, x, token)
  BY HeadOf
<1>2. PICK i \in Items : i = Head(todo)
  BY HeadOf
<1>3. /\ i.do = "operators" /\ status = "parsing" /\ token # "none" /\ Bottom(Tail(todo)) /\ Looking
      /\ bp_lu(token) <= i.bp
  BY <1>2, HeadOf DEF EndExpression, Does
<1>4. x.at = "operand" /\ x.bound = i.bp /\ Becomes(x, m, "expression", x.bound)
  BY <1>1, <1>2, <1>3, TakesByKind
<1>5. x.bound \in Nat /\ "expression" \in Complete
  BY PlaceFacts DEF Complete
<1>6. m.open = x.open /\ m.nodes = x.nodes /\ m.at \notin {"import", "name"}
  BY <1>4, <1>5, BecomesFacts
<1>7. Standing(tree', m, token)
  <2>1. Standing(tree, m, token)
    BY <1>1, <1>3, <1>4, StandingEnded
  <2> QED
    BY <2>1 DEF EndExpression
<1>8. Walks(todo', m, Home) /\ Bottom(todo')
  BY <1>1, <1>3, Dropped DEF EndExpression, Do
<1>9. ReadTo(read, m)
  BY <1>1, <1>6, ReadSame
<1> QED
  BY <1>3, <1>7, <1>8, <1>9, LookingStep

\* A statement is a node around what its keyword begins.
LEMMA ParseStmtKeeps ==
  ASSUME ParserInv, parse_stmt
  PROVE  ParserInv'
<1>1. PICK x \in Places, m \in Places :
        /\ Takes(Head(todo), x, m) /\ Walks(Tail(todo), m, Home)
        /\ ReadTo(read, x) /\ Standing(tree, x, token)
  BY HeadOf
<1>2. PICK i \in Items : i = Head(todo)
  BY HeadOf
<1>3. i.do = "stmt" /\ status = "parsing" /\ token # "none" /\ Bottom(Tail(todo)) /\ Looking
  BY <1>2, HeadOf DEF parse_stmt, Does
<1>4. m = x /\ Loose(x)
  BY <1>1, <1>2, <1>3, TakesByKind
<1>5. PICK op : op = "statement"
  OBVIOUS
<1>6. op \in Ops \ Led /\ op \notin Tight
  <2>1. op \in Ops
    BY <1>5 DEF Ops
  <2>2. op \notin Led /\ op # "prefix"
    BY <1>5, LedFacts
  <2> QED
    BY <2>1, <2>2, TokenFacts3 DEF Tight
<1>7. PICK y : y = Under(x, op, 0)
  OBVIOUS
<1>8. /\ y \in Places /\ y.open = x.open /\ y.at = "item" /\ y.bound = 0
      /\ y.nodes = Append(x.nodes, [op |-> op, left |-> 0])
      /\ Top(y) = [op |-> op, left |-> 0] /\ Front(y.nodes) = x.nodes
  BY <1>6, <1>7, UnderFacts
<1>9. Loose(y) /\ Top(y).op = op
  BY <1>6, <1>8 DEF Loose
<1>10. Walks(stmt_lu(token), y, y)
  BY <1>8, <1>9, NeutralStatement DEF Neutral
<1>11. Walks(<<Done>>, y, x)
  <2>1. Done \in Items /\ Done.do = "done"
    BY DEF Done, Items
  <2>2. EndsNode(y, x)
    BY <1>4, <1>6, <1>8, <1>9 DEF EndsNode
  <2> QED
    BY <1>8, <2>1, <2>2, TakesByKind, WalkOne
<1>12. Walks(stmt_lu(token) \o <<Done>>, y, x)
  BY <1>10, <1>11, WalkJoin
<1>13. Walks(todo', y, Home) /\ Bottom(todo')
  BY <1>1, <1>3, <1>4, <1>12, TodoStands DEF parse_stmt, Do
<1>14. Standing(tree', y, token)
  <2>1. tree' = Append(tree, Open(op, <<>>))
    BY <1>5 DEF parse_stmt
  <2>2. x.at \notin Complete /\ y.at \notin Complete
    BY <1>4, <1>9, LooseNotComplete
  <2>3. Standing(Append(tree, Open(op, <<>>)), y, token)
    BY <1>1, <1>6, <1>8, <2>2, StandingPushed
  <2> QED
    BY <2>1, <2>3
<1>15. ReadTo(read, y)
  BY <1>1, <1>8, ReadSame
<1> QED
  BY <1>3, <1>8, <1>13, <1>14, <1>15, LookingStep

-----------------------------------------------------------------------------
(* Loops and branches.                                                     *)

\* The item kinds that leave the place as it is.
Quiet(i) ==
  i.do \notin {"expect", "expr", "operators", "node", "done", "action_value", "panic"}

\* A step that replaces such an item by what is neutral keeps the invariant.
LEMMA QuietStep ==
  ASSUME ParserInv, Looking, UNCHANGED tree, status = "parsing", token # "none",
         Quiet(Head(todo)), NEW items, Neutral(items),
         Head(todo).do # "statements" \/ Len(todo) > 1, todo' = items \o Tail(todo)
  PROVE  ParserInv'
<1>1. PICK x \in Places, m \in Places :
        /\ Takes(Head(todo), x, m) /\ Walks(Tail(todo), m, Home)
        /\ ReadTo(read, x) /\ Standing(tree, x, token)
  BY HeadOf
<1>2. m = x /\ Loose(x)
  BY <1>1, TakesByKind DEF Quiet
<1>3. Bottom(Tail(todo))
  BY HeadOf
<1>4. Walks(items, x, x)
  BY <1>2 DEF Neutral
<1>5. Walks(items \o Tail(todo), x, Home) /\ Bottom(items \o Tail(todo))
  BY <1>1, <1>2, <1>3, <1>4, TodoStands
<1>6. Walks(todo', x, Home) /\ Bottom(todo')
  BY <1>5
<1>7. Standing(tree', x, token)
  BY <1>1
<1> QED
  BY <1>1, <1>6, <1>7, LookingStep

\* The same, for a step that consumes a name.
LEMMA QuietReadingStep ==
  ASSUME ParserInv, Parsing, UNCHANGED tree, status = "parsing", token \in Names,
         advance(token), Quiet(Head(todo)), Head(todo).do # "statements",
         NEW items, Neutral(items), todo' = items \o Tail(todo)
  PROVE  ParserInv'
<1>1. PICK x \in Places, m \in Places :
        /\ Takes(Head(todo), x, m) /\ Walks(Tail(todo), m, Home)
        /\ ReadTo(read, x) /\ Standing(tree, x, token)
  BY HeadOf
<1>2. m = x /\ Loose(x)
  BY <1>1, TakesByKind DEF Quiet
<1>3. Bottom(Tail(todo))
  BY HeadOf
<1>4. Walks(items, x, x)
  BY <1>2 DEF Neutral
<1>5. Walks(items \o Tail(todo), x, Home) /\ Bottom(items \o Tail(todo))
  BY <1>1, <1>2, <1>3, <1>4, TodoStands
<1>6. Walks(todo', x, Home) /\ Bottom(todo')
  BY <1>5
<1>7. x.at \notin {"import", "name"} /\ x.at \notin Complete
  BY <1>2, LooseNotComplete
<1>8. token \in Tokens \ Brackets /\ token # "EOF"
  BY PlainFacts DEF PlainTokens
<1>9. ReadTo(Append(read, token), x)
  <2>1. read \in Seq(Tokens)
    BY DEF ParserInv, Types
  <2> QED
    BY <1>1, <1>7, <1>8, <2>1, ReadPlain
<1>10. Standing(tree', x, token')
  <2>1. Standing(tree, x, token')
    BY <1>1, <1>7, StandingSame
  <2> QED
    BY <2>1
<1> QED
  BY <1>6, <1>8, <1>9, <1>10, ReadingStep

\* The loop over statements goes on.
LEMMA NextStatementKeeps ==
  ASSUME ParserInv, NextStatement
  PROVE  ParserInv'
<1>1. PICK x \in Places, m \in Places :
        /\ Takes(Head(todo), x, m) /\ Walks(Tail(todo), m, Home)
        /\ ReadTo(read, x) /\ Standing(tree, x, token)
  BY HeadOf
<1>2. PICK i \in Items : i = Head(todo)
  BY HeadOf
<1>3. i.do = "statements" /\ status = "parsing" /\ token # "none" /\ Looking
  BY <1>2 DEF NextStatement, Does
<1>4. m = x /\ Loose(x)
  BY <1>1, <1>2, <1>3, TakesByKind
<1>5. Stmt \in Items /\ Tail(todo) \in Seq(Items) /\ todo = <<i>> \o Tail(todo) /\ Bottom(todo)
  BY <1>2, HeadOf, CalmOthers DEF Calm, ParserInv
<1>6. todo' = <<Stmt>> \o todo
  <2>1. todo' = <<Stmt, i>> \o Tail(todo)
    BY <1>2 DEF NextStatement, Do
  <2>2. <<Stmt, i>> = <<Stmt>> \o <<i>>
    BY First2
  <2>3. PICK a \in Seq(Items), b \in Seq(Items) : a = <<Stmt>> /\ b = <<i>>
    <3>1. <<Stmt>> \in Seq(Items) /\ <<i>> \in Seq(Items)
      BY <1>5, ShortSequences
    <3> QED
      BY <3>1
  <2>4. (a \o b) \o Tail(todo) = a \o (b \o Tail(todo))
    BY <1>5, ConcatAssociative
  <2> QED
    BY <1>5, <2>1, <2>2, <2>3, <2>4
<1>7. Walks(<<i>> \o Tail(todo), x, Home)
  <2>1. Walks(<<i>>, x, x)
    BY <1>1, <1>2, <1>4, WalkOne
  <2> QED
    BY <1>1, <1>4, <2>1, WalkJoin
<1>8. Walks(<<Stmt>>, x, x)
  BY <1>4, CalmOthers, NeutralOne DEF Neutral
<1>9. Walks(todo, x, Home)
  BY <1>5, <1>7
<1>10. Walks(<<Stmt>> \o todo, x, Home) /\ Bottom(<<Stmt>> \o todo)
  BY <1>5, <1>8, <1>9, TodoStands
<1>11. Walks(todo', x, Home) /\ Bottom(todo') /\ Standing(tree', x, token)
  BY <1>1, <1>6, <1>10 DEF NextStatement
<1> QED
  BY <1>1, <1>3, <1>11, LookingStep

\* It ends; the loops over parts go on and end; a part is there or not.
LEMMA LoopsKeep ==
  ASSUME ParserInv, EndStatements \/ Repeat \/ EndRepeat \/ Optional
  PROVE  ParserInv'
<1>1. Head(todo) \in Items
  BY HeadOf
<1>2. CASE EndStatements
  <2>1. Quiet(Head(todo)) /\ Looking /\ UNCHANGED tree /\ status = "parsing" /\ token # "none"
    BY <1>2 DEF EndStatements, Does, Quiet
  <2>2. todo' = <<>> \o Tail(todo) /\ Len(todo) > 1
    BY <1>2 DEF EndStatements, Do
  <2> QED
    BY <2>1, <2>2, NeutralNone, QuietStep
<1>3. CASE Repeat
  <2>1. PICK i \in Items : i = Head(todo)
    BY <1>1
  <2>2. /\ i.do = "until" /\ Quiet(i) /\ Looking /\ UNCHANGED tree /\ status = "parsing"
        /\ token # "none" /\ i.do # "statements"
    BY <1>3, <2>1 DEF Repeat, Does, Quiet
  <2>3. Neutral(Production(i.body))
    <3>1. i.body \in Repeated
      BY <2>2 DEF Items
    <3> QED
      BY <3>1, NeutralProduction
  <2>4. Neutral(<<i>>)
    <3>1. Calm(i)
      BY <2>2, TakesByKind DEF Calm
    <3> QED
      BY <3>1, NeutralOne
  <2>5. Neutral(Production(i.body) \o <<i>>)
    BY <2>3, <2>4, NeutralJoin
  <2>6. todo' = (Production(i.body) \o <<i>>) \o Tail(todo)
    BY <1>3, <2>1 DEF Repeat, Do
  <2> QED
    BY <2>1, <2>2, <2>5, <2>6, QuietStep
<1>4. CASE EndRepeat
  <2>1. /\ Quiet(Head(todo)) /\ Looking /\ UNCHANGED tree /\ status = "parsing" /\ token # "none"
        /\ Head(todo).do # "statements"
    BY <1>4 DEF EndRepeat, Does, Quiet
  <2>2. todo' = <<>> \o Tail(todo)
    BY <1>4 DEF EndRepeat, Do
  <2> QED
    BY <2>1, <2>2, NeutralNone, QuietStep
<1>5. CASE Optional
  <2>1. PICK i \in Items : i = Head(todo)
    BY <1>1
  <2>2. /\ i.do = "if" /\ Quiet(i) /\ Looking /\ UNCHANGED tree /\ status = "parsing"
        /\ token # "none" /\ i.do # "statements"
    BY <1>5, <2>1 DEF Optional, Does, Quiet
  <2>3. PICK items : items = IF token = i.next THEN Production(i.body) ELSE <<>>
    OBVIOUS
  <2>4. Neutral(items)
    <3>1. i.body \in Optionals
      BY <2>2 DEF Items
    <3> QED
      BY <2>3, <3>1, NeutralProduction, NeutralNone
  <2>5. todo' = items \o Tail(todo)
    BY <1>5, <2>1, <2>3 DEF Optional, Do
  <2> QED
    BY <2>1, <2>2, <2>4, <2>5, QuietStep
<1> QED
  BY <1>2, <1>3, <1>4, <1>5

\* A type is neutral.
LEMMA NeutralType ==
  ASSUME NEW t
  PROVE  Neutral(CASE t \in Identifiers -> <<Accept(Identifiers)>>
                   [] t = "[" -> <<Expect("["), Expect("]"), Type>>
                   [] OTHER -> <<Unknown>>)
<1>1. Neutral(<<Accept(Identifiers)>>) /\ Neutral(<<Unknown>>) /\ Neutral(<<Type>>)
  BY CalmTokens, CalmOthers, NeutralOne
<1>2. Neutral(<<Expect("["), Expect("]"), Type>>)
  <2>1. <<Expect("["), Expect("]")>> = <<Expect("[")>> \o <<>> \o <<Expect("]")>>
    BY Ends2
  <2>2. Neutral(<<Expect("["), Expect("]")>>)
    BY <2>1, Pairs, NeutralNone, NeutralBracketed DEF Pair
  <2>3. <<Expect("["), Expect("]"), Type>> = <<Expect("["), Expect("]")>> \o <<Type>>
    BY SMTT(30)
  <2> QED
    BY <1>1, <2>2, <2>3, NeutralJoin
<1> QED
  BY <1>1, <1>2

\* The handlers that choose a production by the current token keep the invariant.
LEMMA BranchesKeep ==
  ASSUME ParserInv,
         parse_type \/ ParseElseBody \/ ParseReturnValue \/ ParseAgentItem \/ BuildToolAction
  PROVE  ParserInv'
<1>1. ASSUME NEW kind \in {"type", "else_body", "return_value", "agent_item", "build_tool_action"},
             Does(kind), Looking, UNCHANGED tree, NEW items, Neutral(items), Do(items)
      PROVE  ParserInv'
  <2>1. Quiet(Head(todo)) /\ status = "parsing" /\ token # "none" /\ Head(todo).do # "statements"
    BY <1>1 DEF Does, Quiet
  <2> QED
    BY <1>1, <2>1, QuietStep DEF Do
<1>2. CASE parse_type
  BY <1>1, <1>2, NeutralType DEF parse_type
<1>3. CASE ParseElseBody
  BY <1>1, <1>3, NeutralConditions, NeutralBlock DEF ParseElseBody
<1>4. CASE ParseReturnValue
  <2>1. Neutral(<<Expr(defalt_bp)>>)
    BY CalmTokens, NeutralOne
  <2> QED
    BY <1>1, <1>4, <2>1, NeutralNone DEF ParseReturnValue
<1>5. CASE ParseAgentItem
  <2>1. Neutral(<<Field("agent")>>)
    BY CalmFields, NeutralOne
  <2>2. PICK items : items = CASE token = "model" -> parse_model_stmt
                               [] token = "behavior" -> parse_behavior_stmt
                               [] token = "skills" -> parse_skills_stmt
                               [] token = "trigger" -> parse_trigger_stmt
                               [] token = "tool" -> parse_tool_stmt
                               [] OTHER -> <<Field("agent")>>
    OBVIOUS
  <2>3. Neutral(items)
    BY <2>1, <2>2, NeutralDeclarations
  <2>4. Does("agent_item") /\ Looking /\ UNCHANGED tree /\ Do(items)
    BY <1>5, <2>2 DEF ParseAgentItem
  <2> QED
    BY <1>1, <2>3, <2>4
<1>6. CASE BuildToolAction
  BY <1>1, <1>6, NeutralNone DEF BuildToolAction
<1> QED
  BY <1>2, <1>3, <1>4, <1>5, <1>6

-----------------------------------------------------------------------------
(* Fields, and the end.                                                    *)

\* An else is consumed, and what follows it is a block or another conditional.
LEMMA ParseElseKeeps ==
  ASSUME ParserInv, ParseElse
  PROVE  ParserInv'
<1>1. /\ Quiet(Head(todo)) /\ status = "parsing" /\ token # "none" /\ UNCHANGED tree
      /\ Parsing /\ Head(todo).do # "statements"
  BY DEF ParseElse, Does, Quiet
<1>2. CASE token # "else"
  <2>1. todo' = <<>> \o Tail(todo) /\ Looking
    BY <1>1, <1>2 DEF ParseElse, Do, Looking, Parsing
  <2> QED
    BY <1>1, <2>1, NeutralNone, QuietStep
<1>3. CASE token = "else"
  <2>1. PICK items : items = <<[do |-> "else_body"]>>
    OBVIOUS
  <2>2. Neutral(items)
    BY <2>1, CalmOthers, NeutralOne
  <2>3. todo' = items \o Tail(todo) /\ advance(token)
    BY <1>3, <2>1 DEF ParseElse, Do
  <2>4. token \in Names
    BY <1>3 DEF Names, Keywords
  <2> QED
    BY <1>1, <2>2, <2>3, <2>4, QuietReadingStep
<1> QED
  BY <1>2, <1>3

\* The name of a field is consumed, and its value is neutral.
LEMMA ParseFieldKeeps ==
  ASSUME ParserInv, ParseField
  PROVE  ParserInv'
<1>1. /\ Quiet(Head(todo)) /\ status = "parsing" /\ token \in Names /\ UNCHANGED tree
      /\ Parsing /\ Head(todo).do # "statements" /\ advance(token)
  BY DEF ParseField, Does, Quiet
<1>2. PICK items : items = <<Expect(":")>> \o switch(Head(todo).switch, token)
  OBVIOUS
<1>3. Neutral(items)
  BY <1>2, CalmMarks, NeutralSwitch, NeutralCalm
<1>4. todo' = items \o Tail(todo)
  BY <1>2 DEF ParseField, Do
<1> QED
  BY <1>1, <1>3, <1>4, QuietReadingStep

\* The name of an action's field begins the node of its value.
LEMMA ParseActionFieldKeeps ==
  ASSUME ParserInv, ParseActionField
  PROVE  ParserInv'
<1>1. PICK x \in Places, m \in Places :
        /\ Takes(Head(todo), x, m) /\ Walks(Tail(todo), m, Home)
        /\ ReadTo(read, x) /\ Standing(tree, x, token)
  BY HeadOf
<1>2. PICK i \in Items : i = Head(todo)
  BY HeadOf
<1>3. /\ i.do = "action_field" /\ status = "parsing" /\ token \in Names /\ Bottom(Tail(todo))
      /\ Parsing /\ advance(token)
  BY <1>2, HeadOf DEF ParseActionField, Does
<1>4. m = x /\ Loose(x)
  BY <1>1, <1>2, <1>3, TakesByKind
<1>5. token \in Ops \ Led /\ token \notin Tight /\ token \in Tokens \ Brackets /\ token # "EOF"
  BY <1>3, TokenFacts4, PlainFacts DEF Ops, PlainTokens
<1>6. PICK y : y = Under(x, token, 0)
  OBVIOUS
<1>7. /\ y \in Places /\ y.open = x.open /\ y.at = "item" /\ y.bound = 0
      /\ y.nodes = Append(x.nodes, [op |-> token, left |-> 0])
      /\ Top(y) = [op |-> token, left |-> 0] /\ Front(y.nodes) = x.nodes
  BY <1>5, <1>6, UnderFacts
<1>8. Loose(y) /\ Top(y).op = token
  BY <1>5, <1>7 DEF Loose
<1>9. PICK v : v = [do |-> "action_value", field |-> token]
  OBVIOUS
<1>10. Walks(<<Expect(":")>>, y, y)
  BY <1>7, <1>8, CalmMarks, NeutralOne DEF Neutral
<1>11. Walks(<<v>>, y, x)
  <2>1. v \in Items /\ v.do = "action_value"
    BY <1>3, <1>9 DEF Items
  <2>2. EndsField(y, x)
    BY <1>4, <1>5, <1>7, <1>8 DEF EndsField
  <2> QED
    BY <1>7, <2>1, <2>2, TakesByKind, WalkOne
<1>12. <<Expect(":"), v>> = <<Expect(":")>> \o <<v>>
  BY First2
<1>13. Walks(<<Expect(":"), v>>, y, x)
  BY <1>10, <1>11, <1>12, WalkJoin
<1>14. Walks(todo', y, Home) /\ Bottom(todo')
  BY <1>1, <1>3, <1>4, <1>9, <1>13, TodoStands DEF ParseActionField, Do
<1>15. Standing(tree', y, token')
  <2>1. tree' = Append(tree, Open(token, <<>>))
    BY DEF ParseActionField
  <2>2. x.at \notin Complete /\ y.at \notin Complete
    BY <1>4, <1>8, LooseNotComplete
  <2>3. Standing(Append(tree, Open(token, <<>>)), y, token')
    BY <1>1, <1>5, <1>7, <2>2, StandingPushed
  <2> QED
    BY <2>1, <2>3
<1>16. ReadTo(Append(read, token), y)
  <2>1. read \in Seq(Tokens)
    BY DEF ParserInv, Types
  <2> QED
    BY <1>1, <1>5, <1>7, <2>1, ReadPlain
<1> QED
  BY <1>3, <1>5, <1>7, <1>14, <1>15, <1>16, ReadingStep

\* The value of an action's field ends its node.
LEMMA ActionValueWalks ==
  ASSUME NEW field, NEW x \in Places, NEW m \in Places, EndsField(x, m)
  PROVE  Walks(action_value(field), x, m)
<1>1. Loose(x) /\ Loose(m)
  BY DEF EndsField, Loose, Tight
<1>2. EndsNode(x, m)
  BY DEF EndsField, EndsNode
<1>3. Walks(<<Done>>, x, m)
  <2>1. Done \in Items /\ Done.do = "done"
    BY DEF Done, Items
  <2> QED
    BY <1>2, <2>1, TakesByKind, WalkOne
<1>4. Walks(<<Done, OptionalComma>>, x, m)
  <2>1. <<Done, OptionalComma>> = <<Done>> \o <<OptionalComma>>
    BY First2
  <2>2. Walks(<<OptionalComma>>, m, m)
    BY <1>1, CalmTokens, NeutralOne DEF Neutral
  <2> QED
    BY <1>3, <2>1, <2>2, WalkJoin
<1>5. Walks(<<Keep(Texts), Done, OptionalComma>>, x, m)
  <2>1. <<Keep(Texts), Done, OptionalComma>> = <<Keep(Texts)>> \o <<Done, OptionalComma>>
    BY First3
  <2>2. Texts \in SUBSET PlainTokens /\ Texts \cap Led = {}
    BY PlainFacts, TokenFacts5
  <2>3. Walks(<<Keep(Texts)>>, x, x)
    BY <1>1, <2>2, CalmKeep, NeutralOne DEF Neutral
  <2> QED
    BY <1>4, <2>1, <2>3, WalkJoin
<1>6. Walks(<<Expr(defalt_bp)>>, x, x)
  BY <1>1, CalmTokens, NeutralOne DEF Neutral
<1>7. Walks(<<Unknown>>, x, m)
  <2>1. Unknown \in Items /\ Unknown.do = "panic"
    BY DEF Unknown, Items
  <2> QED
    BY <2>1, TakesByKind, WalkOne
<1>8. /\ Walks(<<Expr(defalt_bp)>> \o <<Unknown>>, x, m)
      /\ Walks(<<Expr(defalt_bp)>> \o <<Done, OptionalComma>>, x, m)
  BY <1>4, <1>6, <1>7, WalkJoin
<1> QED
  BY <1>5, <1>8 DEF action_value

\* Choosing that value keeps the invariant.
LEMMA ParseActionValueKeeps ==
  ASSUME ParserInv, ParseActionValue
  PROVE  ParserInv'
<1>1. PICK x \in Places, m \in Places :
        /\ Takes(Head(todo), x, m) /\ Walks(Tail(todo), m, Home)
        /\ ReadTo(read, x) /\ Standing(tree, x, token)
  BY HeadOf
<1>2. PICK i \in Items : i = Head(todo)
  BY HeadOf
<1>3. i.do = "action_value" /\ status = "parsing" /\ token # "none" /\ Bottom(Tail(todo)) /\ Looking
  BY <1>2, HeadOf DEF ParseActionValue, Does
<1>4. EndsField(x, m)
  BY <1>1, <1>2, <1>3, TakesByKind
<1>5. Walks(action_value(i.field), x, m)
  BY <1>4, ActionValueWalks
<1>6. Walks(todo', x, Home) /\ Bottom(todo')
  BY <1>1, <1>2, <1>3, <1>5, TodoStands DEF ParseActionValue, Do
<1>7. Standing(tree', x, token)
  BY <1>1 DEF ParseActionValue
<1> QED
  BY <1>1, <1>3, <1>6, <1>7, LookingStep

\* So do the panics and the end of the file.
LEMMA EndingKeeps ==
  ASSUME ParserInv, Panic \/ Finish
  PROVE  ParserInv'
<1>1. Types'
  BY DEF ParserInv, Types, Panic, Finish
<1>2. Bottom(todo)' /\ (token = "none" => AsName(read))'
  BY DEF ParserInv, Panic, Finish
<1>3. (status = "parsed" => Len(todo) = 1 /\ token = "EOF")'
  BY DEF ParserInv, Panic, Finish
<1>4. (\E x \in Places : Stands(x))'
  BY DEF ParserInv, Stands, Panic, Finish
<1> QED
  BY <1>1, <1>2, <1>3, <1>4 DEF ParserInv

\* So does a step that changes nothing.
LEMMA StutterKeeps ==
  ASSUME ParserInv, UNCHANGED vars
  PROVE  ParserInv'
<1>1. Types'
  BY DEF ParserInv, Types, vars
<1>2. Bottom(todo)' /\ (token = "none" => AsName(read))'
  BY DEF ParserInv, vars
<1>3. (status = "parsed" => Len(todo) = 1 /\ token = "EOF")'
  BY DEF ParserInv, vars
<1>4. (\E x \in Places : Stands(x))'
  BY DEF ParserInv, Stands, vars
<1> QED
  BY <1>1, <1>2, <1>3, <1>4 DEF ParserInv

\* The parse begins at Home, with all of the program still to be read.
LEMMA ParserInvInitially ==
  ASSUME Init
  PROVE  ParserInv
<1>1. /\ input \in Inputs /\ read = <<>> /\ todo = <<Statements("EOF")>>
      /\ tree = <<Open("program", <<>>)>> /\ status = "parsing"
  BY DEF Init
<1>2. /\ input.given \in Seq(Tokens) /\ input.tokens \subseteq Tokens
      /\ Ending(input) \in Seq(Tokens) /\ Ending(input) # <<>>
  <2>1. input.given \in Seq(Tokens) /\ input.tokens \subseteq Tokens /\ input.after \in Seq(Tokens)
    BY <1>1, InputsAssumption
  <2>2. Ending(input) \in Seq(Tokens) /\ Ending(input) # <<>>
    BY <2>1, TokenFacts1, AppendedProperties DEF Ending
  <2> QED
    BY <2>1, <2>2
<1>3. token \in Tokens /\ rest \in Seq(Tokens)
  <2>1. PICK e \in Seq(Tokens) : e = Ending(input) /\ e # <<>>
    BY <1>2
  <2>2. Head(e) \in Tokens /\ Tail(e) \in Seq(Tokens)
    BY <2>1, HeadTailProperties
  <2>3. PICK first : first = input.given \o (IF input.most = 0 THEN Ending(input) ELSE <<>>)
    OBVIOUS
  <2>4. first \in Seq(Tokens)
    <3>1. (IF input.most = 0 THEN Ending(input) ELSE <<>>) \in Seq(Tokens)
      BY <1>2
    <3> QED
      BY <1>2, <2>3, <3>1, ConcatProperties
  <2>5. first # <<>> => Head(first) \in Tokens /\ Tail(first) \in Seq(Tokens)
    BY <2>4, HeadTailProperties
  <2>6. <<>> \in Seq(Tokens)
    OBVIOUS
  <2>7. IF first # <<>> THEN token = Head(first) /\ rest = Tail(first)
        ELSE \/ token \in input.tokens /\ rest = <<>>
             \/ token = Head(e) /\ rest = Tail(e)
    BY <2>1, <2>3 DEF Init
  <2> QED
    BY <1>2, <2>2, <2>5, <2>6, <2>7
<1>4. token # "none"
  BY <1>3, TokenFacts6
<1>5. Types
  BY <1>1, <1>3 DEF Types
<1>6. Statements("EOF") \in Items
  BY TokenFacts1 DEF Statements, Items
<1>7. Bottom(todo)
  <2>1. PICK s \in Items : s = Statements("EOF")
    BY <1>6
  <2>2. <<s>> \in Seq(Items) /\ <<s>> # <<>> /\ Len(<<s>>) = 1 /\ <<s>>[1] = s
    BY ShortSequences
  <2> QED
    BY <1>1, <2>1, <2>2 DEF Bottom
<1>8. Walks(todo, Home, Home)
  BY <1>1, HomeFacts, TokenFacts1, CalmOthers, NeutralOne DEF Neutral
<1>9. ReadTo(read, Home)
  <2>1. FoldLeft(Nesting, <<>>, <<>>) = <<>>
    <3>1. <<>> \in Seq(Tokens) /\ "EOF" \in Tokens
      BY TokenFacts1
    <3>2. PICK s \in Seq(Tokens), t \in Tokens : s = <<>>
      BY <3>1
    <3> QED
      BY NestingAfter
  <2> QED
    BY <1>1, <2>1, HomeFacts DEF ReadTo
<1>10. Standing(tree, Home, token)
  <2>1. PICK n : n = Open("program", <<>>)
    OBVIOUS
  <2>2. n.op = "program" /\ n.of = <<>>
    BY <2>1, OpenFacts
  <2>3. n.op \notin Led /\ n.op \notin TwoOperands /\ n.op \in Ops
    <3>1. "program" \notin Led
      BY LedFacts
    <3> QED
      BY <2>2, <3>1, TokenFacts3 DEF Ops
  <2>4. PICK G : G = {n}
    OBVIOUS
  <2>5. Forest(G)
    <3>1. <<>> \in Seq(G)
      OBVIOUS
    <3>2. n \in [op : Ops, of : Seq(G)]
      BY <2>1, <2>2, <2>3, <3>1 DEF Open
    <3>3. WellGrouped(n)
      BY <2>3 DEF WellGrouped, Infix
    <3> QED
      BY <2>4, <3>2, <3>3 DEF Forest
  <2>6. PICK f : f = [op |-> "program", left |-> 0]
    OBVIOUS
  <2>7. Fits(n, f)
    BY <2>2, <2>3, <2>6 DEF Fits, Infix
  <2>8. /\ tree = <<n>> /\ tree \in Seq(G) /\ tree # <<>> /\ Len(tree) = 1 /\ tree[1] = n
        /\ Home.nodes = <<f>> /\ Len(Home.nodes) = 1 /\ Home.nodes[1] = f
    BY <1>1, <2>1, <2>4, <2>6, HomeFacts
  <2>9. \A i \in 1..1 : i = 1
    OBVIOUS
  <2>10. Rooted(G, tree, Home.nodes)
    BY <2>5, <2>7, <2>8, <2>9 DEF Rooted
  <2>11. \A i \in 1..Len(tree) : Waiting(tree[i])
    BY <2>3, <2>8, <2>9 DEF Waiting
  <2>12. Home.at \notin Complete
    BY HomeFacts DEF Complete
  <2> QED
    BY <2>10, <2>11, <2>12 DEF Standing
<1>11. Stands(Home)
  BY <1>8, <1>9, <1>10 DEF Stands
<1> QED
  BY <1>1, <1>4, <1>5, <1>7, <1>11, HomeFacts DEF ParserInv

\* Every step keeps the invariant.
LEMMA ParserInvKept ==
  ASSUME ParserInv, [Next]_vars
  PROVE  ParserInv'
BY ExpectKeeps, BeginNodeKeeps, EndNodeKeeps, ParseExprKeeps, ApplyOperatorKeeps,
   EndExpressionKeeps, ParseStmtKeeps, BranchesKeep, NextStatementKeeps, LoopsKeep,
   ParseElseKeeps, ParseFieldKeeps, ParseActionFieldKeeps, ParseActionValueKeeps,
   EndingKeeps, StutterKeeps DEF Next

\* Whatever the input, at every moment the parse stands at some place: what its
\* handlers have left to do leads from there to where the program is whole.
THEOREM ParserInvHolds == Spec => []ParserInv
<1>1. Init => ParserInv
  BY ParserInvInitially
<1>2. ParserInv /\ [Next]_vars => ParserInv'
  BY ParserInvKept
<1> QED
  BY <1>1, <1>2, PTL DEF Spec

-----------------------------------------------------------------------------
(* What the invariant shows.                                               *)

\* The function Reached is defined by: what is reached from S in at most n steps.
IsUpto(side, S, n, f) ==
  f = [i \in 0..n |->
        IF i = 0 THEN S
        ELSE LET above == f[i - 1] IN above \cup UNION {Toward(side, k) : k \in above}]

\* There is such a function.
LEMMA UptoExists ==
  ASSUME NEW side, NEW S, NEW n \in Nat
  PROVE  \E f : IsUpto(side, S, n, f)
<1> DEFINE Has(m) == \E f : IsUpto(side, S, m, f)
           T == {m \in 0..n : ~Has(m)}
<1> HIDE DEF Has
<1> SUFFICES ASSUME T # {} PROVE FALSE
  BY DEF Has
<1>1. T \subseteq Nat
  OBVIOUS
<1>2. PICK m \in T : \A j \in T : m <= j
  <2> HIDE DEF T
  <2> QED
    BY <1>1, FirstPosition
<1>3. m \in Nat /\ ~Has(m)
  OBVIOUS
<1>4. m # 0 => m - 1 \in Nat /\ Has(m - 1)
  BY <1>2
<1> HIDE DEF T
<1>5. m # 0
  <2> SUFFICES ASSUME m = 0 PROVE FALSE
    OBVIOUS
  <2> DEFINE f == [i \in 0..0 |-> S]
  <2>1. \A i \in 0..0 : i = 0
    OBVIOUS
  <2>2. IsUpto(side, S, 0, f)
    BY <2>1 DEF IsUpto
  <2> HIDE DEF f
  <2>3. Has(0)
    BY <2>2 DEF Has
  <2> QED
    BY <1>3, <2>3
<1>6. PICK f : IsUpto(side, S, m - 1, f)
  BY <1>4, <1>5 DEF Has
<1> DEFINE Step(above) == above \cup UNION {Toward(side, k) : k \in above}
           h == [i \in 0..m |-> IF i = m THEN Step(f[m - 1]) ELSE f[i]]
<1> HIDE DEF Step
<1>7. \A i \in 0..(m - 1) : f[i] = IF i = 0 THEN S ELSE Step(f[i - 1])
  BY <1>6 DEF IsUpto, Step
<1>8. ASSUME NEW i \in 0..m
      PROVE  h[i] = IF i = 0 THEN S ELSE Step(h[i - 1])
  <2>1. CASE i = m
    <3>1. m - 1 \in 0..m /\ m - 1 # m
      BY <1>3, <1>5
    <3>2. h[i] = Step(f[m - 1]) /\ h[i - 1] = f[m - 1]
      BY <2>1, <3>1
    <3> HIDE DEF h
    <3> QED
      BY <1>5, <2>1, <3>2
  <2>2. CASE i # m
    <3>1. i \in 0..(m - 1) /\ h[i] = f[i]
      BY <1>3, <2>2
    <3>2. i # 0 => i - 1 \in 0..m /\ i - 1 # m
      BY <1>3
    <3>3. i # 0 => h[i - 1] = f[i - 1]
      BY <3>2
    <3> HIDE DEF h
    <3> QED
      BY <1>7, <3>1, <3>3
  <2> QED
    BY <2>1, <2>2
<1>9. h = [i \in 0..m |-> h[i]]
  OBVIOUS
<1> HIDE DEF h
<1>10. h = [i \in 0..m |-> IF i = 0 THEN S ELSE Step(h[i - 1])]
  BY <1>8, <1>9
<1>11. IsUpto(side, S, m, h)
  BY <1>10 DEF IsUpto, Step
<1> QED
  BY <1>3, <1>11 DEF Has

\* What is reached from S stays in a set that holds S and where its nodes lead.
LEMMA ReachedWithin ==
  ASSUME read \in Seq(Tokens), NEW side, NEW G, NEW S, S \subseteq G,
         \A k \in G : Toward(side, k) \subseteq G
  PROVE  Reached(side, S) \subseteq G
<1>1. PICK n \in Nat : n = Len(read) + 1
  OBVIOUS
<1> DEFINE f == CHOOSE f : IsUpto(side, S, n, f)
<1>2. Reached(side, S) = f[n]
  BY <1>1 DEF Reached, IsUpto
<1>3. IsUpto(side, S, n, f)
  BY UptoExists
<1> HIDE DEF f
<1> DEFINE T == {i \in 0..n : ~(f[i] \subseteq G)}
<1>4. T = {}
  <2> SUFFICES ASSUME T # {} PROVE FALSE
    OBVIOUS
  <2>1. T \subseteq Nat
    OBVIOUS
  <2>2. PICK m \in T : \A j \in T : m <= j
    <3> HIDE DEF T
    <3> QED
      BY <2>1, FirstPosition
  <2>3. m \in 0..n /\ ~(f[m] \subseteq G)
    OBVIOUS
  <2>4. m # 0 => m - 1 \in 0..n /\ f[m - 1] \subseteq G
    BY <2>2
  <2> HIDE DEF T
  <2>5. f[m] = IF m = 0 THEN S ELSE f[m - 1] \cup UNION {Toward(side, k) : k \in f[m - 1]}
    BY <1>3, <2>3 DEF IsUpto
  <2>6. m # 0
    BY <2>3, <2>5
  <2>7. \A k \in f[m - 1] : Toward(side, k) \subseteq G
    BY <2>4, <2>6
  <2>8. UNION {Toward(side, k) : k \in f[m - 1]} \subseteq G
    BY <2>7
  <2> QED
    BY <2>3, <2>4, <2>5, <2>6, <2>8
<1> QED
  BY <1>2, <1>4

\* The nodes of a tree over a forest are in the forest.
LEMMA AllNodesWithin ==
  ASSUME read \in Seq(Tokens), NEW G, Forest(G), tree \in Seq(G)
  PROVE  AllNodes \subseteq G
<1>1. \A s \in Seq(G) : Range(s) \subseteq G
  BY DEF Range
<1>2. Range(tree) \subseteq G
  BY <1>1
<1>3. ASSUME NEW k \in G
      PROVE  Toward("below", k) \subseteq G
  <2>1. k.of \in Seq(G)
    BY ForestNode
  <2> QED
    BY <1>1, <2>1 DEF Toward
<1> QED
  BY <1>2, <1>3, ReachedWithin DEF AllNodes

\* RightWithin bounds every operator of the right edge.
LEMMA RightEdgeWithin ==
  ASSUME read \in Seq(Tokens), NEW n, NEW p, RightWithin(n, p)
  PROVE  \A o \in RightEdge(n) : o # "prefix" /\ bp_lu(o) >= p
<1>1. PICK T : /\ n \in T
               /\ \A m \in T : /\ m.op # "prefix"
                               /\ m.op \in TwoOperands => bp_lu(m.op) >= p /\ m.of[2] \in T
  BY DEF RightWithin
<1>2. ASSUME NEW k \in T
      PROVE  Toward("right", k) \subseteq T
  BY <1>1 DEF Toward
<1>3. {n} \subseteq T
  BY <1>1
<1>4. Reached("right", {n}) \subseteq T
  BY <1>2, <1>3, ReachedWithin
<1> QED
  BY <1>1, <1>4 DEF RightEdge

\* LeftAbove bounds every operator of the left edge.
LEMMA LeftEdgeAbove ==
  ASSUME read \in Seq(Tokens), NEW n, NEW p, LeftAbove(n, p)
  PROVE  \A o \in LeftEdge(n) : bp_lu(o) > p
<1>1. PICK T : n \in T /\ \A m \in T : m.op \in Led => bp_lu(m.op) > p /\ m.of[1] \in T
  BY DEF LeftAbove
<1>2. ASSUME NEW k \in T
      PROVE  Toward("left", k) \subseteq T
  BY <1>1 DEF Toward, Infix
<1>3. {n} \subseteq T
  BY <1>1
<1>4. Reached("left", {n}) \subseteq T
  BY <1>2, <1>3, ReachedWithin
<1> QED
  BY <1>1, <1>4 DEF LeftEdge

\* The nodes of the tree are well grouped, as Precedence states.
LEMMA InvGroups ==
  ASSUME ParserInv
  PROVE  Precedence
<1>1. read \in Seq(Tokens)
  BY DEF ParserInv, Types
<1>2. PICK x \in Places : Stands(x)
  BY DEF ParserInv
<1>3. PICK G : Rooted(G, tree, x.nodes)
  BY <1>2 DEF Stands, Standing
<1>4. AllNodes \subseteq G
  BY <1>1, <1>3, AllNodesWithin DEF Rooted
<1>5. ASSUME NEW n \in AllNodes, Infix(n)
      PROVE  /\ \A o \in RightEdge(n.of[1]) : o # "prefix" /\ bp_lu(o) >= bp_lu(n.op)
             /\ n.op \in TwoOperands /\ Len(n.of) = 2 =>
                  \A o \in LeftEdge(n.of[2]) : bp_lu(o) > bp_lu(n.op)
  <2>1. WellGrouped(n)
    BY <1>3, <1>4, ForestNode DEF Rooted
  <2>2. RightWithin(n.of[1], bp_lu(n.op))
    BY <1>5, <2>1 DEF WellGrouped
  <2>3. n.op \in TwoOperands /\ Len(n.of) = 2 => LeftAbove(n.of[2], bp_lu(n.op))
    BY <1>5, <2>1 DEF WellGrouped
  <2> QED
    BY <1>1, <2>2, <2>3, RightEdgeWithin, LeftEdgeAbove
<1> QED
  BY <1>5 DEF Precedence

\* An accepted program was read at Home.
LEMMA InvParsed ==
  ASSUME ParserInv, status = "parsed"
  PROVE  FoldLeft(Nesting, <<>>, read) = <<>> /\ Len(tree) = 1 /\ token = "EOF"
<1>1. Len(todo) = 1 /\ token = "EOF" /\ todo \in Seq(Items) /\ todo[1] = Statements("EOF")
  BY DEF ParserInv, Bottom
<1>2. PICK x \in Places : Stands(x)
  BY DEF ParserInv
<1>3. x = Home
  <2>1. PICK h \in [0..1 -> Places] : /\ h[0] = x /\ h[1] = Home
                                      /\ \A k \in 1..1 : Takes(todo[k], h[k - 1], h[k])
    BY <1>1, <1>2, TakingFacts DEF Stands, Walks, Leads
  <2>2. Takes(todo[1], x, Home)
    <3>1. 1 \in 1..1 /\ 1 - 1 = 0
      OBVIOUS
    <3> QED
      BY <2>1, <3>1
  <2>3. todo[1].do = "statements"
    BY <1>1 DEF Statements
  <2> QED
    BY <2>2, <2>3, TakesByKind
<1>4. FoldLeft(Nesting, <<>>, read) = <<>>
  BY <1>2, <1>3, HomeFacts DEF Stands, ReadTo
<1>5. Len(tree) = Len(Home.nodes)
  BY <1>2, <1>3 DEF Stands, Standing, Rooted
<1>6. Len(Home.nodes) = 1
  BY HomeFacts
<1> QED
  BY <1>1, <1>4, <1>5, <1>6

\* The types that TypeOK states.
LEMMA InvTyped ==
  ASSUME ParserInv
  PROVE  TypeOK
<1>1. PICK x \in Places : Stands(x)
  BY DEF ParserInv
<1>2. Len(tree) > 0
  <2>1. PICK G : Rooted(G, tree, x.nodes)
    BY <1>1 DEF Stands, Standing
  <2>2. tree \in Seq(G) /\ tree # <<>>
    BY <2>1 DEF Rooted
  <2> QED
    BY <2>2, EmptySeq
<1>3. todo \in Seq(Items) /\ Len(todo) > 0
  BY EmptySeq DEF ParserInv, Bottom
<1>4. status = "parsed" => Len(tree) = 1 /\ token = "EOF"
  BY InvParsed
<1> QED
  BY <1>2, <1>3, <1>4 DEF TypeOK, ParserInv, Types

\* Whatever the input, every variable keeps its type, and an accepted program is
\* one whole tree read to the end of its file: the loop of Parse.
THEOREM ParserTypeCorrect == Spec => []TypeOK
BY ParserInvHolds, InvTyped, PTL

\* Whatever is written, what has no parentheses is grouped to the left by binding
\* powers: the loop of parse_expr, under every handler that calls it.
THEOREM ParserGroups == Spec => []Precedence
BY ParserInvHolds, InvGroups, PTL

\* In every accepted program, however deep, the brackets are nested: the handlers
\* close what they open.
THEOREM ParserNestsBrackets == Spec => []BracketsNested
<1>1. ParserInv => BracketsNested
  BY InvParsed DEF BracketsNested
<1> QED
  BY <1>1, ParserInvHolds, PTL

\* Whatever the input, the end of the file is consumed only as the name of a
\* contract or of a function or after that of an import, where parser.advance takes
\* the token without a look.
THEOREM EndTakenAsName == Spec => []EndConsumedAsName
<1>1. ParserInv => EndConsumedAsName
  BY DEF ParserInv, AsName, EndConsumedAsName
<1> QED
  BY <1>1, ParserInvHolds, PTL

-----------------------------------------------------------------------------
(* The reader of expressions, token by token.                              *)

\* What the reader's states and tokens are made of.
Bracketing == {"group", "call", "array", "index", "object"}
Alphabet == ExpressionTokens \cup {"EOF"}

\* The tokens of expressions and the operators among them, one by one.
LEMMA AlphabetFacts ==
  /\ Alphabet = {"=", "+=", "-=", "++", "&&", "||", "..", "<", "<=", ">", ">=", "==", "!=",
                 "+", "-", "*", "/", "%", "[", "(", ".", "id", "!", ")", "]", "{", "}", ",",
                 ":", "EOF"}
  /\ Alphabet \subseteq Tokens
  /\ TwoOperands = {"=", "+=", "-=", "&&", "||", "..", "<", "<=", ">", ">=", "==", "!=",
                    "+", "-", "*", "/", "%"}
  /\ Led = TwoOperands \cup {"++", "(", "[", "."}
<1>1. TwoOperands = {"=", "+=", "-=", "&&", "||", "..", "<", "<=", ">", ">=", "==", "!=",
                     "+", "-", "*", "/", "%"}
  BY LedFacts DEF TwoOperands
<1>2. Led = TwoOperands \cup {"++", "(", "[", "."}
  BY <1>1, LedFacts
<1>3. Alphabet = {"=", "+=", "-=", "++", "&&", "||", "..", "<", "<=", ">", ">=", "==", "!=",
                 "+", "-", "*", "/", "%", "[", "(", ".", "id", "!", ")", "]", "{", "}", ",",
                 ":", "EOF"}
  BY <1>1 DEF Alphabet, ExpressionTokens
<1>4. Alphabet \subseteq Tokens
  BY <1>3, TokenFacts1, TokenFacts2, TokenFacts3 DEF Tokens, Punctuation
<1> QED
  BY <1>1, <1>2, <1>3, <1>4

\* The fields of a reader.
LEMMA ReaderFacts ==
  ASSUME NEW at, NEW open, NEW k
  PROVE  /\ Reader(at, open, k).at = at /\ Reader(at, open, k).open = open
         /\ Reader(at, open, k).statements = k
BY DEF Reader

\* The first token of an operand.
LEMMA BeginsFacts ==
  ASSUME NEW s, NEW t
  PROVE  /\ t = "id" => Begins(s, t) = Reader("operator", s.open, s.statements)
         /\ t \in {"-", "!"} => Begins(s, t) = Reader("operand", s.open, s.statements)
         /\ t = "(" => Begins(s, t) = Reader("operand", Append(s.open, "group"), s.statements)
         /\ t = "[" => Begins(s, t) = Reader("start", Append(s.open, "array"), s.statements)
         /\ t = "{" => Begins(s, t) = Reader("key", Append(s.open, "object"), s.statements)
         /\ t \notin {"id", "-", "!", "(", "[", "{"} =>
              Begins(s, t) = Reader("dead", s.open, s.statements)
<1>1. t \notin {"id", "-", "!", "(", "[", "{"} =>
        Begins(s, t) = Reader("dead", s.open, s.statements)
  <2> SUFFICES ASSUME t \notin {"id", "-", "!", "(", "[", "{"}
               PROVE  Begins(s, t) = Reader("dead", s.open, s.statements)
    OBVIOUS
  <2>1. t # "id" /\ t \notin {"-", "!"} /\ t # "(" /\ t # "[" /\ t # "{"
    OBVIOUS
  <2> QED
    BY <2>1 DEF Begins
<1> QED
  BY <1>1 DEF Begins

\* What closes each kind of bracket, and a program.
LEMMA CloserFacts ==
  /\ Closer("group") = ")" /\ Closer("call") = ")" /\ Closer("array") = "]"
  /\ Closer("index") = "]" /\ Closer("object") = "}" /\ Closer("program") = "EOF"
BY DEF Closer

\* Closing what is open.
LEMMA FeedCloses ==
  ASSUME NEW s, s.at \in {"start", "operator", "key"}, NEW t, t = Closer(Last(s.open))
  PROVE  /\ Last(s.open) = "program" => Feed(s, t) = Reader("end", s.open, s.statements)
         /\ Last(s.open) # "program" =>
              Feed(s, t) = Reader("operator", Front(s.open), s.statements)
BY DEF Feed

\* Where an operand, or an item, is expected.
LEMMA FeedOperand ==
  ASSUME NEW s, s.at = "operand", NEW t
  PROVE  Feed(s, t) = Begins(s, t)
BY DEF Feed

\* Where an item may begin: in a program it is one more statement.
LEMMA FeedItem ==
  ASSUME NEW s, s.at = "start", NEW t, t # Closer(Last(s.open))
  PROVE  Feed(s, t) =
           Begins(IF Last(s.open) = "program" THEN Reader(s.at, s.open, s.statements + 1) ELSE s, t)
<1>1. Feed(s, t) = BeginsItem(s, t)
  BY DEF Feed
<1> QED
  BY <1>1 DEF BeginsItem

\* Where the name of a property is expected.
LEMMA FeedKey ==
  ASSUME NEW s, s.at = "key", NEW t, t # Closer(Last(s.open))
  PROVE  Feed(s, t) = Reader(IF t = "id" THEN "colon" ELSE "dead", s.open, s.statements)
BY DEF Feed

\* After that name, and after a dot.
LEMMA FeedRest ==
  ASSUME NEW s, NEW t
  PROVE  /\ s.at = "colon" =>
              Feed(s, t) = Reader(IF t = ":" THEN "operand" ELSE "dead", s.open, s.statements)
         /\ s.at = "name" =>
              Feed(s, t) = Reader(IF t = "id" THEN "operator" ELSE "dead", s.open, s.statements)
BY DEF Feed

\* After an operand.
LEMMA FeedOperator ==
  ASSUME NEW s, s.at = "operator", NEW t, Last(s.open) \in Bracketing \cup {"program"}
  PROVE  /\ t \in TwoOperands => Feed(s, t) = Reader("operand", s.open, s.statements)
         /\ t = "++" => Feed(s, t) = Reader("operator", s.open, s.statements)
         /\ t = "(" => Feed(s, t) = Reader("start", Append(s.open, "call"), s.statements)
         /\ t = "[" => Feed(s, t) = Reader("operand", Append(s.open, "index"), s.statements)
         /\ t = "." => Feed(s, t) = Reader("name", s.open, s.statements)
         /\ t = "," /\ Last(s.open) \in {"call", "array"} =>
              Feed(s, t) = Reader("start", s.open, s.statements)
         /\ t = "," /\ Last(s.open) = "object" =>
              Feed(s, t) = Reader("key", s.open, s.statements)
<1>1. Closer(Last(s.open)) \notin TwoOperands \cup {"++", "(", "[", ".", ","}
  BY CloserFacts, AlphabetFacts DEF Bracketing
<1>2. TwoOperands \cap {"++", "(", "[", ".", ","} = {}
  BY AlphabetFacts
<1>3. CASE t \in TwoOperands
  BY <1>1, <1>2, <1>3 DEF Feed
<1>4. CASE t \in {"++", "(", "[", ".", ","}
  <2>1. t \notin TwoOperands /\ t # Closer(Last(s.open))
    BY <1>1, <1>2, <1>4
  <2> QED
    BY <1>4, <2>1 DEF Feed
<1> QED
  BY <1>3, <1>4

\* No operator: a list goes on where it may, and a bracket that holds one
\* expression must close.
LEMMA FeedNext ==
  ASSUME NEW s, s.at = "operator", NEW t, t \notin Led, t # Closer(Last(s.open))
  PROVE  /\ Last(s.open) \in {"group", "index"} =>
              Feed(s, t) = Reader("dead", s.open, s.statements)
         /\ Last(s.open) = "program" \/ (Last(s.open) \in {"call", "array"} /\ t # ",") =>
              Feed(s, t) = BeginsItem(s, t)
         /\ Last(s.open) = "object" /\ t # "," =>
              Feed(s, t) = Reader(IF t = "id" THEN "colon" ELSE "dead", s.open, s.statements)
<1>1. t \notin TwoOperands /\ t \notin {"++", "(", "[", "."}
  BY AlphabetFacts
<1> QED
  BY <1>1 DEF Feed

-----------------------------------------------------------------------------
(* Spots: where a parse of expressions is, and what brings it on.          *)

\* A spot: what the reader expects there, what is open, which tokens may come next
\* and how many nodes of the tree are.
Opened == Bracketing \cup {"program"}
Spot(at, open, next, depth) == [at |-> at, open |-> open, next |-> next, depth |-> depth]

\* What is open decides where items and properties may begin.
Spots ==
  {c \in [at : {"item", "operand", "operator", "key", "name", "colon"}, open : Seq(Opened),
          next : SUBSET Alphabet, depth : Nat] :
     /\ c.open # <<>>
     /\ c.at = "item" => Last(c.open) \in {"program", "call", "array"}
     /\ c.at = "key" => Last(c.open) = "object"}

\* The reader at the spot c with n statements complete before it.
View(c, n) ==
  Reader(IF c.at = "item" THEN "start" ELSE c.at, c.open,
         IF c.at = "item" /\ Last(c.open) = "program" THEN n ELSE n + 1)

\* The tokens that bind no tighter than bp.
UpTo(bp) == {t \in Alphabet : bp_lu(t) <= bp}
\* Between two statements.
Outset == Spot("item", <<"program">>, Alphabet, 1)

\* Within a statement.
Within(c) == c.depth > 1

\* An operand may begin at c.
Opens(c) == c.at = "operand" \/ (c.at = "item" /\ Closer(Last(c.open)) \notin c.next)

\* The loop that ends at close reads the items of what is open at c.
Lists(close, body, c) ==
  /\ c.at \in {"item", "key"} /\ Last(c.open) # "program" /\ close = Closer(Last(c.open))
  /\ body = IF c.at = "key" THEN "property" ELSE "argument"

\* The item i takes a token at c, the ones the reader takes and no others, to d.
BringsToken(i, c, d) ==
  /\ "EOF" \notin i.any /\ Within(c) /\ d.depth = c.depth /\ d.next = Alphabet
  /\ \A n \in Nat, t \in c.next :
       IF t \in i.any THEN Feed(View(c, n), t) = View(d, n)
       ELSE Feed(View(c, n), t).at = "dead"

\* Done at c, the item i leads to d.
Brings(i, c, d) ==
  CASE i.do = "expect" -> BringsToken(i, c, d)
    [] i.do = "expr" ->
         Opens(c) /\ Within(c) /\ d = Spot("operator", c.open, UpTo(i.bp), c.depth)
    [] i.do = "operators" ->
         c.at = "operator" /\ Within(c) /\ d = Spot("operator", c.open, UpTo(i.bp), c.depth)
    [] i.do = "stmt" ->
         /\ c.at = "item" /\ c.open = <<"program">> /\ "EOF" \notin c.next /\ c.depth = 1
         /\ d = Outset
    [] i.do = "statements" -> i.close = "EOF" /\ c = Outset /\ d = Outset
    [] i.do = "until" ->
         /\ Lists(i.close, i.body, c) /\ Within(c)
         /\ d = Spot(c.at, c.open, {i.close}, c.depth)
    [] i.do = "if" ->
         /\ i = OptionalComma /\ c.at = "operator" /\ c.next \cap Led = {} /\ Within(c)
         /\ Last(c.open) \in {"call", "array", "object"}
         /\ d = Spot(IF Last(c.open) = "object" THEN "key" ELSE "item", c.open, Alphabet, c.depth)
    [] i.do = "node" -> d = Spot(c.at, c.open, c.next, c.depth + 1)
    [] i.do = "done" ->
         /\ c.at = "operator"
         /\ \/ /\ c.depth = 2 /\ c.open = <<"program">> /\ c.next \cap Led = {}
               /\ d = Outset
            \/ c.depth > 2 /\ d = Spot("operator", c.open, Alphabet, c.depth - 1)
    [] i.do = "panic" -> \A n \in Nat, t \in c.next : Feed(View(c, n), t).at = "dead"
    [] OTHER -> FALSE

Bringing == {z \in Items \X Spots \X Spots : Brings(z[1], z[2], z[3])}

\* What is left to do, q, leads from the spot a to the spot b, one item at a time.
Carries(q, a, b) == Leads(Bringing, Spots, q, a, b)

\* Bringing is Brings, as a set of triples.
LEMMA BringingFacts ==
  ASSUME NEW i, NEW a \in Spots, NEW b \in Spots
  PROVE  <<i, a, b>> \in Bringing <=> i \in Items /\ Brings(i, a, b)
<1>1. <<i, a, b>>[1] = i /\ <<i, a, b>>[2] = a /\ <<i, a, b>>[3] = b
  OBVIOUS
<1>2. <<i, a, b>> \in Items \X Spots \X Spots <=> i \in Items
  OBVIOUS
<1> QED
  BY <1>1, <1>2 DEF Bringing

\* What an item that reads an expression, a list or a program brings.
LEMMA BringsByKind ==
  ASSUME NEW i, NEW c, NEW d
  PROVE  /\ i.do = "expect" => (Brings(i, c, d) <=> BringsToken(i, c, d))
         /\ i.do = "expr" =>
              (Brings(i, c, d) <=>
                 Opens(c) /\ Within(c) /\ d = Spot("operator", c.open, UpTo(i.bp), c.depth))
         /\ i.do = "operators" =>
              (Brings(i, c, d) <=>
                 /\ c.at = "operator" /\ Within(c)
                 /\ d = Spot("operator", c.open, UpTo(i.bp), c.depth))
         /\ i.do = "stmt" =>
              (Brings(i, c, d) <=>
                 /\ c.at = "item" /\ c.open = <<"program">> /\ "EOF" \notin c.next /\ c.depth = 1
                 /\ d = Outset)
         /\ i.do = "statements" =>
              (Brings(i, c, d) <=> i.close = "EOF" /\ c = Outset /\ d = Outset)
         /\ i.do = "until" =>
              (Brings(i, c, d) <=>
                 /\ Lists(i.close, i.body, c) /\ Within(c)
                 /\ d = Spot(c.at, c.open, {i.close}, c.depth))
BY DEF Brings

\* What every other item brings.
LEMMA BringsByKind2 ==
  ASSUME NEW i, NEW c, NEW d
  PROVE  /\ i.do = "if" =>
              (Brings(i, c, d) <=>
                 /\ i = OptionalComma /\ c.at = "operator" /\ c.next \cap Led = {} /\ Within(c)
                 /\ Last(c.open) \in {"call", "array", "object"}
                 /\ d = Spot(IF Last(c.open) = "object" THEN "key" ELSE "item", c.open, Alphabet,
                             c.depth))
         /\ i.do = "node" => (Brings(i, c, d) <=> d = Spot(c.at, c.open, c.next, c.depth + 1))
         /\ i.do = "done" =>
              (Brings(i, c, d) <=>
                 /\ c.at = "operator"
                 /\ \/ /\ c.depth = 2 /\ c.open = <<"program">> /\ c.next \cap Led = {}
                       /\ d = Outset
                    \/ c.depth > 2 /\ d = Spot("operator", c.open, Alphabet, c.depth - 1))
         /\ i.do = "panic" =>
              (Brings(i, c, d) <=> \A n \in Nat, t \in c.next : Feed(View(c, n), t).at = "dead")
         /\ i.do \notin {"expect", "expr", "operators", "stmt", "statements", "until", "if", "node",
                         "done", "panic"} => ~Brings(i, c, d)
BY DEF Brings

\* The fields of a spot.
LEMMA SpotFacts ==
  ASSUME NEW c \in Spots
  PROVE  /\ c.at \in {"item", "operand", "operator", "key", "name", "colon"}
         /\ c.open \in Seq(Opened) /\ c.open # <<>> /\ Last(c.open) \in Opened
         /\ c.next \subseteq Alphabet /\ c.depth \in Nat
         /\ c.at = "item" => Last(c.open) \in {"program", "call", "array"}
         /\ c.at = "key" => Last(c.open) = "object"
         /\ c = Spot(c.at, c.open, c.next, c.depth)
<1>1. /\ c \in [at : {"item", "operand", "operator", "key", "name", "colon"}, open : Seq(Opened),
                next : SUBSET Alphabet, depth : Nat]
      /\ c.open # <<>>
      /\ c.at = "item" => Last(c.open) \in {"program", "call", "array"}
      /\ c.at = "key" => Last(c.open) = "object"
  BY DEF Spots
<1>2. c = Spot(c.at, c.open, c.next, c.depth)
  BY <1>1 DEF Spot
<1>3. Last(c.open) \in Opened
  <2>1. Len(c.open) \in 1..Len(c.open)
    BY <1>1, EmptySeq
  <2> QED
    BY <1>1, <2>1 DEF Last
<1> QED
  BY <1>1, <1>2, <1>3

\* A spot is made of any fields that fit together.
LEMMA SpotMade ==
  ASSUME NEW at, at \in {"item", "operand", "operator", "key", "name", "colon"},
         NEW open, open \in Seq(Opened), open # <<>>, NEW next, next \subseteq Alphabet, NEW depth, depth \in Nat,
         at = "item" => Last(open) \in {"program", "call", "array"},
         at = "key" => Last(open) = "object"
  PROVE  LET c == Spot(at, open, next, depth) IN
         c \in Spots /\ c.at = at /\ c.open = open /\ c.next = next /\ c.depth = depth
<1>1. PICK c : c = Spot(at, open, next, depth)
  OBVIOUS
<1>2. c.at = at /\ c.open = open /\ c.next = next /\ c.depth = depth
  BY <1>1 DEF Spot
<1>3. c \in [at : {"item", "operand", "operator", "key", "name", "colon"}, open : Seq(Opened),
             next : SUBSET Alphabet, depth : Nat]
  BY <1>1 DEF Spot
<1> QED
  BY <1>1, <1>2, <1>3 DEF Spots

\* One more bracket b within those of outer.
Deeper(open, outer, b) == open = Append(outer, b)

\* One bracket more.
LEMMA DeeperFacts ==
  ASSUME NEW outer \in Seq(Opened), NEW b \in Bracketing, NEW open, Deeper(open, outer, b)
  PROVE  open \in Seq(Opened) /\ open # <<>> /\ Last(open) = b /\ Front(open) = outer
<1>1. b \in Opened
  BY DEF Opened
<1> QED
  BY <1>1, PushedAndPopped, AppendedProperties DEF Deeper

\* The depth of a spot and the tokens that may follow it.
LEMMA SpotNumbers ==
  ASSUME NEW c \in Spots
  PROVE  c.depth \in Nat /\ c.next \subseteq Alphabet
BY SpotFacts

\* The outset: between two statements.
LEMMA OutsetFacts ==
  /\ Outset \in Spots /\ Outset.at = "item" /\ Outset.open = <<"program">>
  /\ Outset.next = Alphabet /\ Outset.depth = 1 /\ Last(<<"program">>) = "program"
<1>1. PICK p : p = "program"
  OBVIOUS
<1>2. PICK s : s = <<p>>
  OBVIOUS
<1>3. s \in Seq(Opened) /\ s # <<>> /\ Len(s) = 1 /\ s[1] = p
  BY <1>1, <1>2 DEF Opened
<1>4. Last(s) = p
  BY <1>3 DEF Last
<1>5. Spot("item", s, Alphabet, 1) \in Spots
  BY <1>1, <1>3, <1>4, SpotMade
<1> QED
  BY <1>1, <1>2, <1>4, <1>5, SpotMade DEF Outset, Spot

\* The fields of the view from a spot.
LEMMA ViewFacts ==
  ASSUME NEW c, NEW n
  PROVE  /\ View(c, n).at = IF c.at = "item" THEN "start" ELSE c.at
         /\ View(c, n).open = c.open
         /\ View(c, n).statements = IF c.at = "item" /\ Last(c.open) = "program" THEN n ELSE n + 1
BY ReaderFacts DEF View

-----------------------------------------------------------------------------
(* What is left to do carries the parse from spot to spot.                 *)

\* Doing nothing, one item, or one thing after another.
LEMMA CarryNone ==
  ASSUME NEW a \in Spots
  PROVE  Carries(<<>>, a, a)
BY LeadsNone DEF Carries

\* A single item carries where it brings.
LEMMA CarryOne ==
  ASSUME NEW i \in Items, NEW a \in Spots, NEW b \in Spots, Brings(i, a, b)
  PROVE  Carries(<<i>>, a, b)
BY LeadsOne, BringingFacts DEF Carries

\* Items done one after the other.
LEMMA CarryJoin ==
  ASSUME NEW p, NEW q, NEW a, NEW m, NEW b, Carries(p, a, m), Carries(q, m, b)
  PROVE  Carries(p \o q, a, b)
BY LeadsJoin DEF Carries

\* The first item done, then the rest.
LEMMA CarryCut ==
  ASSUME NEW q, NEW a, NEW b, Carries(q, a, b), q # <<>>
  PROVE  /\ Head(q) \in Items /\ Tail(q) \in Seq(Items)
         /\ \E m \in Spots : Brings(Head(q), a, m) /\ Carries(Tail(q), m, b)
<1>1. a \in Spots
  BY DEF Carries, Leads
<1>2. /\ Head(q) \in Items /\ Tail(q) \in Seq(Items)
      /\ \E m \in Spots : <<Head(q), a, m>> \in Bringing /\ Carries(Tail(q), m, b)
  BY LeadsCut DEF Carries
<1> QED
  BY <1>1, <1>2, BringingFacts

\* Items one after the other, from two to five.
LEMMA Carry2 ==
  ASSUME NEW i, NEW j, NEW a, NEW b, NEW c, Carries(<<i>>, a, b), Carries(<<j>>, b, c)
  PROVE  Carries(<<i, j>>, a, c)
<1>1. Carries(<<i>> \o <<j>>, a, c)
  BY CarryJoin
<1>2. <<i, j>> = <<i>> \o <<j>>
  BY First2
<1> QED
  BY <1>1, <1>2, Zenon

\* Three items.
LEMMA Carry3 ==
  ASSUME NEW i, NEW j, NEW k, NEW a, NEW b, NEW c,
         Carries(<<i>>, a, b), Carries(<<j, k>>, b, c)
  PROVE  Carries(<<i, j, k>>, a, c)
<1>1. Carries(<<i>> \o <<j, k>>, a, c)
  BY CarryJoin
<1>2. <<i, j, k>> = <<i>> \o <<j, k>>
  BY First3
<1> QED
  BY <1>1, <1>2, Zenon

\* Four items.
LEMMA Carry4 ==
  ASSUME NEW i, NEW j, NEW k, NEW l, NEW a, NEW b, NEW c,
         Carries(<<i>>, a, b), Carries(<<j, k, l>>, b, c)
  PROVE  Carries(<<i, j, k, l>>, a, c)
<1>1. Carries(<<i>> \o <<j, k, l>>, a, c)
  BY CarryJoin
<1>2. <<i, j, k, l>> = <<i>> \o <<j, k, l>>
  BY First4
<1> QED
  BY <1>1, <1>2, Zenon

\* The items that expressions are made of.
LEMMA ExpressionItems ==
  /\ \A S \in SUBSET Tokens : /\ Accept(S) \in Items /\ Accept(S).do = "expect"
                              /\ Accept(S).any = S
                              /\ Keep(S) \in Items /\ Keep(S).do = "expect" /\ Keep(S).any = S
  /\ \A t \in Tokens : Expect(t) \in Items /\ Expect(t).do = "expect" /\ Expect(t).any = {t}
  /\ \A b \in Nat : /\ Expr(b) \in Items /\ Expr(b).do = "expr" /\ Expr(b).bp = b
                    /\ Operators(b) \in Items /\ Operators(b).do = "operators"
                    /\ Operators(b).bp = b
  /\ \A t \in Tokens, p \in Repeated :
       /\ Until(t, p) \in Items /\ Until(t, p).do = "until"
       /\ Until(t, p).close = t /\ Until(t, p).body = p
  /\ \A op \in NodeOps : Node(op) \in Items /\ Node(op).do = "node" /\ Node(op).op = op
  /\ Done \in Items /\ Done.do = "done" /\ Unknown \in Items /\ Unknown.do = "panic"
<1>1. ASSUME NEW S \in SUBSET Tokens
      PROVE  /\ Accept(S) \in Items /\ Accept(S).do = "expect" /\ Accept(S).any = S
             /\ Keep(S) \in Items /\ Keep(S).do = "expect" /\ Keep(S).any = S
  BY DEF Accept, Keep, Items
<1>2. ASSUME NEW t \in Tokens
      PROVE  Expect(t) \in Items /\ Expect(t).do = "expect" /\ Expect(t).any = {t}
  <2>1. {t} \in SUBSET Tokens
    OBVIOUS
  <2> QED
    BY <1>1, <2>1 DEF Expect
<1>3. ASSUME NEW b \in Nat
      PROVE  /\ Expr(b) \in Items /\ Expr(b).do = "expr" /\ Expr(b).bp = b
             /\ Operators(b) \in Items /\ Operators(b).do = "operators" /\ Operators(b).bp = b
  BY DEF Expr, Operators, Items
<1>4. ASSUME NEW t \in Tokens, NEW p \in Repeated
      PROVE  /\ Until(t, p) \in Items /\ Until(t, p).do = "until"
             /\ Until(t, p).close = t /\ Until(t, p).body = p
  BY DEF Until, Items
<1>5. ASSUME NEW op \in NodeOps
      PROVE  Node(op) \in Items /\ Node(op).do = "node" /\ Node(op).op = op
  BY DEF Node, Items
<1>6. Done \in Items /\ Done.do = "done" /\ Unknown \in Items /\ Unknown.do = "panic"
  BY DEF Done, Unknown, Items
<1> QED
  BY <1>1, <1>2, <1>3, <1>4, <1>5, <1>6

\* Another spot at the same brackets, or within one more.
LEMMA SpotBeside ==
  ASSUME NEW c \in Spots, NEW at, at \in {"operand", "operator", "name", "colon"},
         NEW next, next \subseteq Alphabet, NEW k, k \in Nat
  PROVE  LET d == Spot(at, c.open, next, k) IN
         d \in Spots /\ d.at = at /\ d.open = c.open /\ d.next = next /\ d.depth = k
<1>1. at \in {"item", "operand", "operator", "key", "name", "colon"} /\ at # "item" /\ at # "key"
  OBVIOUS
<1> QED
  BY <1>1, SpotFacts, SpotMade

\* The spot just inside a bracket.
LEMMA SpotInside ==
  ASSUME NEW c \in Spots, NEW b \in Bracketing, NEW at, at \in {"item", "operand", "operator", "key"},
         at = "item" => b \in {"call", "array"}, at = "key" => b = "object", NEW k, k \in Nat
  PROVE  \E d \in Spots : /\ Deeper(d.open, c.open, b) /\ d.at = at /\ d.next = Alphabet
                          /\ d.depth = k
<1>1. PICK o : Deeper(o, c.open, b)
  BY DEF Deeper
<1>2. o \in Seq(Opened) /\ o # <<>> /\ Last(o) = b
  <2>1. c.open \in Seq(Opened)
    BY SpotFacts
  <2> QED
    BY <1>1, <2>1, DeeperFacts
<1>3. at \in {"item", "operand", "operator", "key", "name", "colon"} /\ Alphabet \subseteq Alphabet
  OBVIOUS
<1>4. PICK d : d = Spot(at, o, Alphabet, k)
  OBVIOUS
<1>5. d \in Spots /\ d.at = at /\ d.open = o /\ d.next = Alphabet /\ d.depth = k
  <2>1. (at = "item" => Last(o) \in {"program", "call", "array"}) /\ (at = "key" => Last(o) = "object")
    BY <1>2
  <2> QED
    BY <1>2, <1>3, <1>4, <2>1, SpotMade
<1> QED
  BY <1>1, <1>5

\* The same spot before other tokens, or at another depth.
LEMMA SameSpot ==
  ASSUME NEW c \in Spots, NEW next, next \subseteq Alphabet, NEW k, k \in Nat
  PROVE  LET d == Spot(c.at, c.open, next, k) IN
         d \in Spots /\ d.at = c.at /\ d.open = c.open /\ d.next = next /\ d.depth = k
BY SpotFacts, SpotMade

\* The spot before a given token.
LEMMA SpotBefore ==
  ASSUME NEW c \in Spots, NEW t, t \in Alphabet, NEW d, d = Spot(c.at, c.open, {t}, c.depth)
  PROVE  d \in Spots /\ d.at = c.at /\ d.open = c.open /\ d.next = {t} /\ d.depth = c.depth
<1>1. c.depth \in Nat /\ {t} \subseteq Alphabet
  BY SpotNumbers
<1> QED
  BY <1>1, SpotFacts, SpotMade

\* The spot after an operand, with nothing known of the next token.
LEMMA AfterOperand ==
  ASSUME NEW c \in Spots, NEW k, k \in Nat
  PROVE  LET d == Spot("operator", c.open, Alphabet, k) IN
         /\ d \in Spots /\ d.at = "operator" /\ d.open = c.open /\ d.next = Alphabet
         /\ d.depth = k
<1>1. "operator" \in {"operand", "operator", "name", "colon"} /\ Alphabet \subseteq Alphabet
  OBVIOUS
<1> QED
  BY <1>1, SpotFacts, SpotMade

\* The spot after an expression, before what does not continue it.
LEMMA AfterExpression ==
  ASSUME NEW c \in Spots, NEW k, k \in Nat, NEW b, b \in Nat
  PROVE  LET d == Spot("operator", c.open, UpTo(b), k) IN
         /\ d \in Spots /\ d.at = "operator" /\ d.open = c.open /\ d.next = UpTo(b)
         /\ d.depth = k
<1>1. "operator" \in {"operand", "operator", "name", "colon"} /\ UpTo(b) \subseteq Alphabet
  BY DEF UpTo
<1> QED
  BY <1>1, SpotFacts, SpotMade

\* What the reader is at a spot that is within a statement.
LEMMA ViewWithin ==
  ASSUME NEW d \in Spots, NEW n \in Nat, d.at # "item" \/ Last(d.open) # "program"
  PROVE  View(d, n) = Reader(IF d.at = "item" THEN "start" ELSE d.at, d.open, n + 1)
BY DEF View

-----------------------------------------------------------------------------
(* What begins an operand carries it past the operand.                     *)

\* What the reader makes of the first token of an operand.
LEMMA OpensFeeds ==
  ASSUME NEW c \in Spots, Opens(c), NEW n \in Nat, NEW t, t \in c.next
  PROVE  /\ t = "id" => Feed(View(c, n), t) = Reader("operator", c.open, n + 1)
         /\ t \in {"-", "!"} => Feed(View(c, n), t) = Reader("operand", c.open, n + 1)
         /\ t = "(" => Feed(View(c, n), t) = Reader("operand", Append(c.open, "group"), n + 1)
         /\ t = "[" => Feed(View(c, n), t) = Reader("start", Append(c.open, "array"), n + 1)
         /\ t = "{" => Feed(View(c, n), t) = Reader("key", Append(c.open, "object"), n + 1)
         /\ t \notin {"id", "-", "!", "(", "[", "{"} => Feed(View(c, n), t).at = "dead"
<1>1. PICK v : v = View(c, n)
  OBVIOUS
<1>2. PICK w : w.open = c.open /\ w.statements = n + 1 /\ Feed(v, t) = Begins(w, t)
  <2>1. CASE c.at = "operand"
    <3>1. v.at = "operand" /\ v.open = c.open /\ v.statements = n + 1
      BY <1>1, <2>1, ViewFacts
    <3> QED
      BY <3>1, FeedOperand
  <2>2. CASE c.at = "item"
    <3>1. t # Closer(Last(c.open))
      BY <2>2 DEF Opens
    <3>2. v.at = "start" /\ v.open = c.open
      BY <1>1, <2>2, ViewFacts
    <3>3. PICK w : w = IF Last(v.open) = "program" THEN Reader(v.at, v.open, v.statements + 1) ELSE v
      OBVIOUS
    <3>4. Feed(v, t) = Begins(w, t)
      BY <3>1, <3>2, <3>3, FeedItem
    <3>5. v.statements = IF Last(c.open) = "program" THEN n ELSE n + 1
      BY <1>1, <2>2, ViewFacts
    <3>6. w.open = c.open /\ w.statements = n + 1
      BY <3>2, <3>3, <3>5, ReaderFacts
    <3> QED
      BY <3>4, <3>6
  <2> QED
    BY <2>1, <2>2 DEF Opens
<1>3. Reader("dead", w.open, w.statements).at = "dead"
  BY ReaderFacts
<1> QED
  BY <1>1, <1>2, <1>3, BeginsFacts

\* A parenthesis opens a group,
LEMMA OpensGroup ==
  ASSUME NEW c \in Spots, Opens(c), NEW n \in Nat, "(" \in c.next, NEW o, Deeper(o, c.open, "group")
  PROVE  Feed(View(c, n), "(") = Reader("operand", o, n + 1)
BY OpensFeeds DEF Deeper

\* a bracket an array,
LEMMA OpensArray ==
  ASSUME NEW c \in Spots, Opens(c), NEW n \in Nat, "[" \in c.next, NEW o, Deeper(o, c.open, "array")
  PROVE  Feed(View(c, n), "[") = Reader("start", o, n + 1)
BY OpensFeeds DEF Deeper

\* and a brace an object.
LEMMA OpensObject ==
  ASSUME NEW c \in Spots, Opens(c), NEW n \in Nat, "{" \in c.next, NEW o, Deeper(o, c.open, "object")
  PROVE  Feed(View(c, n), "{") = Reader("key", o, n + 1)
BY OpensFeeds DEF Deeper

\* Consuming a token, from where it takes the reader to.
LEMMA CarryExpect ==
  ASSUME NEW i \in Items, i.do = "expect", "EOF" \notin i.any, NEW c \in Spots, NEW d \in Spots,
         Within(c), d.depth = c.depth, d.next = Alphabet,
         \A n \in Nat, t \in c.next :
           /\ t \in i.any => Feed(View(c, n), t) = View(d, n)
           /\ t \notin i.any => Feed(View(c, n), t).at = "dead"
  PROVE  Carries(<<i>>, c, d)
<1>1. Brings(i, c, d)
  <2>1. BringsToken(i, c, d)
    BY DEF BringsToken
  <2> QED
    BY <2>1, BringsByKind
<1> QED
  BY <1>1, CarryOne

\* An expression.
LEMMA CarryExpr ==
  ASSUME NEW b \in Nat, NEW c \in Spots, Opens(c), Within(c)
  PROVE  /\ Carries(<<Expr(b)>>, c, Spot("operator", c.open, UpTo(b), c.depth))
         /\ UpTo(b) \subseteq Alphabet
<1>1. UpTo(b) \subseteq Alphabet
  BY DEF UpTo
<1>2. PICK d : d = Spot("operator", c.open, UpTo(b), c.depth)
  OBVIOUS
<1>3. d \in Spots
  BY <1>1, <1>2, SpotNumbers, SpotBeside
<1>4. Brings(Expr(b), c, d)
  BY <1>2, ExpressionItems, BringsByKind
<1> QED
  BY <1>1, <1>2, <1>3, <1>4, ExpressionItems, CarryOne

\* The tokens that go no further than an expression of the lowest power are no operators.
LEMMA LowestFacts ==
  UpTo(0) = Alphabet \ Led /\ UpTo(0) \cap Led = {}
<1>1. \A t : bp_lu(t) <= 0 <=> t \notin Led
  BY PowerOf
<1> QED
  BY <1>1 DEF UpTo

\* The beginning of a node, and its end, around what is read within a statement.
LEMMA CarryNode ==
  ASSUME NEW op \in NodeOps, NEW c \in Spots
  PROVE  Carries(<<Node(op)>>, c, Spot(c.at, c.open, c.next, c.depth + 1))
<1>1. PICK d : d = Spot(c.at, c.open, c.next, c.depth + 1)
  OBVIOUS
<1>2. d \in Spots
  <2>1. c.depth + 1 \in Nat /\ c.next \subseteq Alphabet
    BY SpotFacts
  <2> QED
    BY <1>1, <2>1, SameSpot
<1>3. Node(op) \in Items /\ Brings(Node(op), c, d)
  BY <1>1, ExpressionItems, BringsByKind2
<1> QED
  BY <1>1, <1>2, <1>3, CarryOne

\* The end of a node whose expression is complete.
LEMMA CarryDone ==
  ASSUME NEW c \in Spots, c.at = "operator", c.depth > 2
  PROVE  Carries(<<Done>>, c, Spot("operator", c.open, Alphabet, c.depth - 1))
<1>1. PICK d : d = Spot("operator", c.open, Alphabet, c.depth - 1)
  OBVIOUS
<1>2. c.depth - 1 \in Nat /\ Alphabet \subseteq Alphabet
  BY SpotFacts
<1>3. d \in Spots
  BY <1>1, <1>2, SpotBeside
<1>4. Done \in Items /\ Brings(Done, c, d)
  BY <1>1, ExpressionItems, BringsByKind2
<1> QED
  BY <1>1, <1>3, <1>4, CarryOne

\* Every bracket closes with a token of its own, which is no operator.
LEMMA ClosersApart ==
  ASSUME NEW b \in Bracketing
  PROVE  /\ Closer(b) \in {")", "]", "}"} /\ Closer(b) \in Alphabet /\ Closer(b) \in Tokens
         /\ Closer(b) # "EOF" /\ Closer(b) \notin Led
<1>1. Closer(b) \in {")", "]", "}"}
  BY CloserFacts DEF Bracketing
<1> QED
  BY <1>1, AlphabetFacts

\* Closing a bracket.
LEMMA CarryClose ==
  ASSUME NEW x \in Spots, NEW b \in Bracketing, NEW c \in Spots, Deeper(c.open, x.open, b),
         c.at \in {"item", "key", "operator"}, Within(c),
         \/ c.next = {Closer(b)}
         \/ c.at = "operator" /\ b \in {"group", "index"} /\ c.next \cap Led = {}
  PROVE  Carries(<<Expect(Closer(b))>>, c, Spot("operator", x.open, Alphabet, c.depth))
<1>1. PICK d : d = Spot("operator", x.open, Alphabet, c.depth)
  OBVIOUS
<1>2. /\ d \in Spots /\ d.at = "operator" /\ d.open = x.open /\ d.next = Alphabet
      /\ d.depth = c.depth
  <2>1. c.depth \in Nat
    BY SpotNumbers
  <2> QED
    BY <1>1, <2>1, AfterOperand
<1>3. PICK i \in Items : i = Expect(Closer(b)) /\ i.do = "expect" /\ i.any = {Closer(b)}
  <2>1. PICK k \in Tokens : k = Closer(b)
    BY ClosersApart
  <2>2. Expect(k) \in Items /\ Expect(k).do = "expect" /\ Expect(k).any = {k}
    BY ExpressionItems
  <2> QED
    BY <2>1, <2>2
<1>4. "EOF" \notin i.any
  BY <1>3, ClosersApart
<1>5. Last(c.open) = b /\ Front(c.open) = x.open /\ b # "program"
  BY SpotFacts, DeeperFacts DEF Bracketing
<1>6. ASSUME NEW n \in Nat, NEW t \in c.next
      PROVE  /\ t \in i.any => Feed(View(c, n), t) = View(d, n)
             /\ t \notin i.any => Feed(View(c, n), t).at = "dead"
  <2>1. PICK v : v = View(c, n)
    OBVIOUS
  <2>2. /\ v.at = IF c.at = "item" THEN "start" ELSE c.at
        /\ v.open = c.open /\ v.statements = n + 1
    BY <1>5, <2>1, ViewFacts
  <2>3. v.at \in {"start", "operator", "key"} /\ Last(v.open) = b
    BY <1>5, <2>2
  <2>4. View(d, n) = Reader("operator", x.open, n + 1)
    BY <1>2, ViewWithin
  <2>5. CASE t = Closer(b)
    <3>1. Feed(v, t) = Reader("operator", Front(v.open), v.statements)
      BY <1>5, <2>3, <2>5, FeedCloses
    <3> QED
      BY <1>3, <1>5, <2>1, <2>2, <2>4, <2>5, <3>1
  <2>6. CASE t # Closer(b)
    <3>1. c.at = "operator" /\ b \in {"group", "index"} /\ t \notin Led
      BY <2>6
    <3>2. v.at = "operator"
      BY <2>2, <3>1
    <3>3. Feed(v, t) = Reader("dead", v.open, v.statements)
      BY <2>3, <2>6, <3>1, <3>2, FeedNext
    <3> QED
      BY <1>3, <2>1, <2>6, <3>3, ReaderFacts
  <2> QED
    BY <2>5, <2>6
<1>7. Carries(<<i>>, c, d)
  BY <1>2, <1>3, <1>4, <1>6, CarryExpect
<1> QED
  BY <1>1, <1>3, <1>7

\* A list up to the bracket that closes it.
LEMMA CarryList ==
  ASSUME NEW x \in Spots, NEW b \in Bracketing, NEW c \in Spots, Deeper(c.open, x.open, b),
         NEW body \in Repeated, Lists(Closer(b), body, c), Within(c)
  PROVE  Carries(<<Until(Closer(b), body), Expect(Closer(b))>>, c,
                 Spot("operator", x.open, Alphabet, c.depth))
<1>1. PICK k : k = Closer(b)
  OBVIOUS
<1>2. k \in Tokens /\ k \in Alphabet
  BY <1>1, ClosersApart
<1>3. PICK d : d = Spot(c.at, c.open, {k}, c.depth)
  OBVIOUS
<1>4. d \in Spots /\ d.at = c.at /\ d.open = c.open /\ d.next = {k} /\ d.depth = c.depth
  BY <1>2, <1>3, SpotBefore
<1>6. Carries(<<Until(k, body)>>, c, d)
  <2>1. PICK i : i = Until(k, body)
    OBVIOUS
  <2>2. i \in Items /\ i.do = "until" /\ i.close = k /\ i.body = body
    BY <1>2, <2>1, ExpressionItems
  <2>3. Lists(i.close, i.body, c)
    BY <1>1, <2>2
  <2>4. Brings(i, c, d)
    BY <1>3, <2>2, <2>3, BringsByKind
  <2> QED
    BY <1>4, <2>1, <2>2, <2>4, CarryOne
<1>7. c.at \in {"item", "key"}
  BY DEF Lists
<1>8. Carries(<<Expect(k)>>, d, Spot("operator", x.open, Alphabet, d.depth))
  <2>1. Deeper(d.open, x.open, b) /\ d.at \in {"item", "key", "operator"} /\ Within(d)
    BY <1>4, <1>7 DEF Within
  <2>2. d.next = {Closer(b)}
    BY <1>1, <1>4
  <2> QED
    BY <1>1, <1>4, <2>1, <2>2, CarryClose
<1> QED
  BY <1>1, <1>4, <1>6, <1>8, Carry2

\* The tokens that begin an operand, consumed.
LEMMA CarryOpening ==
  ASSUME NEW i \in Items, i.do = "expect", "EOF" \notin i.any, NEW t \in i.any,
         NEW c \in Spots, Within(c), c.next = {t},
         NEW d \in Spots, d.depth = c.depth, d.next = Alphabet,
         \A n \in Nat : Feed(View(c, n), t) = View(d, n)
  PROVE  Carries(<<i>>, c, d)
<1>1. ASSUME NEW n \in Nat, NEW u \in c.next
      PROVE  /\ u \in i.any => Feed(View(c, n), u) = View(d, n)
             /\ u \notin i.any => Feed(View(c, n), u).at = "dead"
  BY <1>1
<1> QED
  BY <1>1, CarryExpect

\* A literal or a name.
LEMMA CarryId ==
  ASSUME NEW c \in Spots, Opens(c), Within(c), c.next = {"id"}
  PROVE  Carries(parse_primary_expr, c, Spot("operator", c.open, Alphabet, c.depth))
<1>1. PICK d : d = Spot("operator", c.open, Alphabet, c.depth)
  OBVIOUS
<1>2. d \in Spots /\ d.at = "operator" /\ d.open = c.open /\ d.next = Alphabet /\ d.depth = c.depth
  BY <1>1, SpotNumbers, AfterOperand
<1>3. PICK S : S = {"number", "hex", "id"} \cup Texts \cup FieldNames
  OBVIOUS
<1>4. S \in SUBSET Tokens /\ "EOF" \notin S /\ "id" \in S
  <2>1. FieldNames \subseteq Names
    BY TokenFacts2 DEF Identifiers
  <2>2. "EOF" \notin FieldNames /\ "EOF" \notin Texts
    BY <2>1, TokenFacts4, TokenFacts5
  <2> QED
    BY <1>3, <2>1, <2>2, TokenFacts2 DEF Tokens
<1>5. PICK i : i = Keep(S)
  OBVIOUS
<1>6. i \in Items /\ i.do = "expect" /\ i.any = S
  BY <1>4, <1>5, ExpressionItems
<1>7. \A n \in Nat : Feed(View(c, n), "id") = View(d, n)
  <2> SUFFICES ASSUME NEW n \in Nat
               PROVE  Feed(View(c, n), "id") = View(d, n)
    OBVIOUS
  <2>1. Feed(View(c, n), "id") = Reader("operator", c.open, n + 1)
    BY OpensFeeds
  <2>2. View(d, n) = Reader("operator", c.open, n + 1)
    BY <1>2, ViewWithin
  <2> QED
    BY <2>1, <2>2
<1>8. Carries(<<i>>, c, d)
  BY <1>2, <1>4, <1>6, <1>7, CarryOpening
<1> QED
  BY <1>1, <1>3, <1>5, <1>8 DEF parse_primary_expr

\* A node around what leads past an operand.
LEMMA CarryWithin ==
  ASSUME NEW op \in NodeOps, NEW c \in Spots, Within(c), NEW q, NEW e \in Spots,
         e.at = "operator", e.open = c.open, e.depth = c.depth + 1,
         Carries(q, Spot(c.at, c.open, c.next, c.depth + 1), e)
  PROVE  Carries(<<Node(op)>> \o q \o <<Done>>, c, Spot("operator", c.open, Alphabet, c.depth))
<1>1. PICK k \in Nat : k = c.depth /\ k > 1 /\ e.depth = k + 1
  BY SpotNumbers DEF Within
<1>2. e.depth > 2 /\ e.depth - 1 = k
  BY <1>1
<1>3. Carries(<<Done>>, e, Spot("operator", c.open, Alphabet, c.depth))
  BY <1>1, <1>2, CarryDone
<1>4. Carries(<<Node(op)>>, c, Spot(c.at, c.open, c.next, c.depth + 1))
  BY CarryNode
<1> QED
  BY <1>3, <1>4, CarryJoin

\* The spot within the node.
LEMMA WithinFacts ==
  ASSUME NEW c \in Spots, Opens(c), Within(c)
  PROVE  LET a == Spot(c.at, c.open, c.next, c.depth + 1) IN
         /\ a \in Spots /\ Opens(a) /\ Within(a) /\ a.depth = c.depth + 1 /\ a.open = c.open
         /\ a.next = c.next
<1>1. PICK k \in Nat : k = c.depth + 1 /\ k > 1
  BY SpotNumbers DEF Within
<1>2. PICK a : a = Spot(c.at, c.open, c.next, k)
  OBVIOUS
<1>3. a \in Spots /\ a.at = c.at /\ a.open = c.open /\ a.next = c.next /\ a.depth = k
  BY <1>2, SpotNumbers, SpotFacts, SpotMade
<1>4. Opens(a)
  BY <1>3 DEF Opens
<1>5. Within(a)
  BY <1>1, <1>3 DEF Within
<1> QED
  BY <1>1, <1>2, <1>3, <1>4, <1>5

\* A prefix operator and its operand.
LEMMA CarryPrefix ==
  ASSUME NEW a \in Spots, Opens(a), Within(a), NEW t \in {"-", "!"}, a.next = {t}
  PROVE  Carries(<<Accept({"-", "!"}), Expr(defalt_bp)>>, a, Spot("operator", a.open, UpTo(0), a.depth))
<1>1. PICK d : d = Spot("operand", a.open, Alphabet, a.depth)
  OBVIOUS
<1>2. d \in Spots /\ d.at = "operand" /\ d.open = a.open /\ d.next = Alphabet /\ d.depth = a.depth
  BY <1>1, SpotNumbers, SpotFacts, SpotMade
<1>3. PICK i : i = Accept({"-", "!"})
  OBVIOUS
<1>4. i \in Items /\ i.do = "expect" /\ i.any = {"-", "!"}
  <2>1. {"-", "!"} \in SUBSET Tokens
    BY AlphabetFacts
  <2> QED
    BY <1>3, <2>1, ExpressionItems
<1>5. \A n \in Nat : Feed(View(a, n), t) = View(d, n)
  <2> SUFFICES ASSUME NEW n \in Nat
               PROVE  Feed(View(a, n), t) = View(d, n)
    OBVIOUS
  <2>1. t \in a.next
    OBVIOUS
  <2>2. Feed(View(a, n), t) = Reader("operand", a.open, n + 1)
    BY <2>1, OpensFeeds
  <2>3. View(d, n) = Reader("operand", a.open, n + 1)
    BY <1>2, ViewWithin
  <2> QED
    BY <2>2, <2>3
<1>6. Carries(<<i>>, a, d)
  BY <1>2, <1>4, <1>5, CarryOpening
<1>7. Carries(<<Expr(defalt_bp)>>, d, Spot("operator", d.open, UpTo(0), d.depth))
  BY <1>2, CarryExpr DEF Opens, Within, defalt_bp
<1> QED
  BY <1>2, <1>3, <1>6, <1>7, Carry2

\* A group.
LEMMA CarryGroup ==
  ASSUME NEW a \in Spots, Opens(a), Within(a), a.next = {"("}
  PROVE  Carries(<<Expect("("), Expr(defalt_bp), Expect(")")>>, a,
                 Spot("operator", a.open, Alphabet, a.depth))
<1>1. PICK b \in Bracketing : b = "group"
  BY DEF Bracketing
<1>2. PICK d \in Spots : /\ Deeper(d.open, a.open, b) /\ d.at = "operand" /\ d.next = Alphabet
                        /\ d.depth = a.depth
  BY SpotNumbers, SpotInside
<1>3. PICK i : i = Expect("(")
  OBVIOUS
<1>4. i \in Items /\ i.do = "expect" /\ i.any = {"("}
  BY <1>3, AlphabetFacts, ExpressionItems
<1>5. \A n \in Nat : Feed(View(a, n), "(") = View(d, n)
  <2> SUFFICES ASSUME NEW n \in Nat
               PROVE  Feed(View(a, n), "(") = View(d, n)
    OBVIOUS
  <2>1. Feed(View(a, n), "(") = Reader("operand", d.open, n + 1)
    <3>1. "(" \in a.next /\ Deeper(d.open, a.open, "group")
      BY <1>1, <1>2
    <3> QED
      BY <3>1, OpensGroup
  <2>2. View(d, n) = Reader("operand", d.open, n + 1)
    BY <1>2, ViewWithin
  <2> QED
    BY <2>1, <2>2
<1>6. Carries(<<i>>, a, d)
  BY <1>2, <1>4, <1>5, CarryOpening
<1>7. PICK e : e = Spot("operator", d.open, UpTo(0), d.depth)
  OBVIOUS
<1>8. Carries(<<Expr(defalt_bp)>>, d, e)
  BY <1>2, <1>7, CarryExpr DEF Opens, Within, defalt_bp
<1>9. /\ e \in Spots /\ e.at = "operator" /\ e.open = d.open /\ e.next = UpTo(0)
      /\ e.depth = d.depth
  BY <1>7, SpotNumbers, AfterExpression
<1>10. Carries(<<Expect(")")>>, e, Spot("operator", a.open, Alphabet, e.depth))
  <2>1. Deeper(e.open, a.open, b) /\ e.at \in {"item", "key", "operator"} /\ Within(e)
    BY <1>2, <1>9 DEF Within
  <2>2. e.next \cap Led = {} /\ b \in {"group", "index"}
    BY <1>1, <1>9, LowestFacts
  <2>3. Carries(<<Expect(Closer(b))>>, e, Spot("operator", a.open, Alphabet, e.depth))
    BY <1>9, <2>1, <2>2, CarryClose
  <2> QED
    BY <1>1, <2>3, CloserFacts
<1>11. Carries(<<Expr(defalt_bp), Expect(")")>>, d, Spot("operator", a.open, Alphabet, a.depth))
  BY <1>2, <1>8, <1>9, <1>10, Carry2
<1> QED
  BY <1>3, <1>6, <1>11, Carry3

\* The braces by name: the SMT translation does not take them as strings.
LBrace == "{"
RBrace == "}"

\* An array, and an object.
LEMMA CarryArray ==
  ASSUME NEW a \in Spots, Opens(a), Within(a), a.next = {"["}
  PROVE  Carries(<<Expect("["), Until("]", "argument"), Expect("]")>>, a,
                 Spot("operator", a.open, Alphabet, a.depth))
<1>1. PICK b \in Bracketing : b = "array"
  BY DEF Bracketing
<1>2. PICK d \in Spots : /\ Deeper(d.open, a.open, b) /\ d.at = "item" /\ d.next = Alphabet
                        /\ d.depth = a.depth
  BY <1>1, SpotNumbers, SpotInside
<1>3. PICK i : i = Expect("[")
  OBVIOUS
<1>4. i \in Items /\ i.do = "expect" /\ i.any = {"["}
  BY <1>3, AlphabetFacts, ExpressionItems
<1>5. Last(d.open) = b
  BY <1>2, SpotFacts, DeeperFacts
<1>6. \A n \in Nat : Feed(View(a, n), "[") = View(d, n)
  <2> SUFFICES ASSUME NEW n \in Nat
               PROVE  Feed(View(a, n), "[") = View(d, n)
    OBVIOUS
  <2>1. Feed(View(a, n), "[") = Reader("start", d.open, n + 1)
    <3>1. "[" \in a.next /\ Deeper(d.open, a.open, "array")
      BY <1>1, <1>2
    <3> QED
      BY <3>1, OpensArray
  <2>2. View(d, n) = Reader("start", d.open, n + 1)
    BY <1>1, <1>2, <1>5, ViewWithin
  <2> QED
    BY <2>1, <2>2
<1>7. Carries(<<i>>, a, d)
  BY <1>2, <1>4, <1>6, CarryOpening
<1>8. "argument" \in Repeated /\ Lists(Closer(b), "argument", d) /\ Within(d) /\ Closer(b) = "]"
  BY <1>1, <1>2, <1>5, CloserFacts DEF Repeated, Lists, Within
<1>9. Carries(<<Until("]", "argument"), Expect("]")>>, d, Spot("operator", a.open, Alphabet, d.depth))
  BY <1>2, <1>8, CarryList
<1> QED
  BY <1>2, <1>3, <1>7, <1>9, Carry3

\* The braces are tokens of expressions.
LEMMA BraceFacts ==
  /\ LBrace \in Tokens /\ LBrace \in Alphabet /\ LBrace # "EOF" /\ Closer("object") = RBrace
  /\ RBrace \in Tokens
BY AlphabetFacts, CloserFacts DEF LBrace, RBrace

\* The left brace of an object.
LEMMA OpensBrace ==
  ASSUME NEW c \in Spots, Opens(c), NEW n \in Nat, LBrace \in c.next, NEW o,
         Deeper(o, c.open, "object")
  PROVE  Feed(View(c, n), LBrace) = Reader("key", o, n + 1)
BY OpensObject DEF LBrace

\* An object: the properties within braces.
LEMMA CarryObject ==
  ASSUME NEW a \in Spots, Opens(a), Within(a), a.next = {LBrace}
  PROVE  Carries(<<Expect(LBrace), Until(RBrace, "property"), Expect(RBrace)>>, a,
                 Spot("operator", a.open, Alphabet, a.depth))
<1>1. PICK b \in Bracketing : b = "object"
  BY DEF Bracketing
<1>2. PICK d \in Spots : /\ Deeper(d.open, a.open, b) /\ d.at = "key" /\ d.next = Alphabet
                        /\ d.depth = a.depth
  BY <1>1, SpotNumbers, SpotInside
<1>3. PICK i : i = Expect(LBrace)
  OBVIOUS
<1>4. i \in Items /\ i.do = "expect" /\ i.any = {LBrace}
  BY <1>3, BraceFacts, ExpressionItems
<1>5. Last(d.open) = b
  BY <1>2, SpotFacts, DeeperFacts
<1>6. \A n \in Nat : Feed(View(a, n), LBrace) = View(d, n)
  <2> SUFFICES ASSUME NEW n \in Nat
               PROVE  Feed(View(a, n), LBrace) = View(d, n)
    OBVIOUS
  <2>1. Feed(View(a, n), LBrace) = Reader("key", d.open, n + 1)
    <3>1. LBrace \in a.next /\ Deeper(d.open, a.open, "object")
      BY <1>1, <1>2
    <3> QED
      BY <3>1, OpensBrace
  <2>2. View(d, n) = Reader("key", d.open, n + 1)
    BY <1>1, <1>2, <1>5, ViewWithin
  <2> QED
    BY <2>1, <2>2
<1>7. Carries(<<i>>, a, d)
  BY <1>2, <1>4, <1>6, BraceFacts, CarryOpening
<1>8. "property" \in Repeated /\ Lists(Closer(b), "property", d) /\ Within(d) /\ Closer(b) = RBrace
  <2>1. "property" \in Repeated /\ Within(d)
    BY <1>2 DEF Repeated, Within
  <2> QED
    BY <1>1, <1>2, <1>5, <2>1, BraceFacts DEF Lists
<1>9. Carries(<<Until(RBrace, "property"), Expect(RBrace)>>, d,
              Spot("operator", a.open, Alphabet, d.depth))
  BY <1>2, <1>8, CarryList
<1> QED
  BY <1>2, <1>3, <1>7, <1>9, Carry3

\* Whatever begins no operand is refused by the parser and by the reader.
LEMMA CarryUnknown ==
  ASSUME NEW c \in Spots, Opens(c), NEW t, c.next = {t}, t \notin {"id", "-", "!", "(", "[", "{"},
         NEW d \in Spots
  PROVE  Carries(<<Unknown>>, c, d)
<1>1. \A n \in Nat, u \in c.next : Feed(View(c, n), u).at = "dead"
  BY OpensFeeds
<1>2. Unknown \in Items /\ Brings(Unknown, c, d)
  BY <1>1, ExpressionItems, BringsByKind2
<1> QED
  BY <1>2, CarryOne

\* An operand, by the token that begins it.
LEMMA OperandKinds ==
  ASSUME NEW t \in Alphabet
  PROVE  /\ t = "id" => nud_lu(t) = parse_primary_expr
         /\ t \in {"-", "!"} => nud_lu(t) = parse_prefix_expr
         /\ t = "(" => nud_lu(t) = grouping_expr
         /\ t = "[" => nud_lu(t) = parse_literal_array_expr
         /\ t = "{" => nud_lu(t) = parse_obj_assignment_expr
         /\ t \notin {"id", "-", "!", "(", "[", "{"} => nud_lu(t) = <<Unknown>>
<1>1. "id" \in {"number", "hex"} \cup Identifiers \cup Texts
  BY TokenFacts2
<1>2. t # "id" => t \notin {"number", "hex"} \cup Identifiers \cup Texts
  <2>1. Alphabet \ {"id"} \subseteq Led \cup Brackets \cup {"EOF", "!", ",", ":"}
    BY AlphabetFacts DEF Brackets, Opening, Closing
  <2>2. (Led \cup Brackets \cup {"EOF"}) \cap (Identifiers \cup Texts) = {}
    BY TokenFacts2, TokenFacts4, TokenFacts5
  <2>3. {"!", ",", ":"} \cap (Identifiers \cup Texts) = {}
    BY DEF Identifiers, FieldNames, Texts, ActionKinds
  <2>4. t # "number" /\ t # "hex"
    BY AlphabetFacts
  <2> QED
    BY <2>1, <2>2, <2>3, <2>4
<1>3. t \notin {"null", "this", "true", "false", "getEnv", "nonce", "hash", "Error"}
  BY AlphabetFacts
<1>4. CASE t = "id"
  BY <1>1, <1>4 DEF nud_lu
<1>5. CASE t \in {"-", "!", "(", "[", "{"}
  BY <1>2, <1>3, <1>5 DEF nud_lu
<1>6. CASE t \notin {"id", "-", "!", "(", "[", "{"}
  <2>1. t \notin {"-", "!"} /\ t # "(" /\ t # "[" /\ t # "{" /\ t # "id"
    BY <1>6
  <2>2. /\ t \notin {"null", "this", "true", "false"}
        /\ t # "getEnv" /\ t # "nonce" /\ t # "hash" /\ t # "Error"
    BY <1>3
  <2>3. nud_lu(t) = <<Unknown>>
    BY <1>2, <2>1, <2>2 DEF nud_lu
  <2> QED
    BY <1>6, <2>3
<1> QED
  BY <1>4, <1>5, <1>6

\* A node whose parts lead past an operand, before any token or before what does
\* not continue an expression.
LEMMA CarryNodeOf ==
  ASSUME NEW op \in NodeOps, NEW c \in Spots, Opens(c), Within(c), NEW q, NEW next,
         next = Alphabet \/ next = UpTo(0),
         Carries(q, Spot(c.at, c.open, c.next, c.depth + 1), Spot("operator", c.open, next, c.depth + 1))
  PROVE  Carries(<<Node(op)>> \o q \o <<Done>>, c, Spot("operator", c.open, Alphabet, c.depth))
<1>1. PICK k : k \in Nat /\ k = c.depth + 1
  BY SpotNumbers
<1>2. PICK e : e = Spot("operator", c.open, next, k)
  OBVIOUS
<1>3. e \in Spots /\ e.at = "operator" /\ e.open = c.open /\ e.depth = k
  BY <1>1, <1>2, AfterOperand, AfterExpression
<1>4. Carries(q, Spot(c.at, c.open, c.next, c.depth + 1), e)
  BY <1>1, <1>2
<1> QED
  BY <1>1, <1>3, <1>4, CarryWithin

\* The bracketed operands, as nodes around their parts.
LEMMA GroupShape ==
  grouping_expr = <<Node("group")>> \o <<Expect("("), Expr(defalt_bp), Expect(")")>> \o <<Done>>
BY Ends5 DEF grouping_expr

\* The handler of an array, around the items it reads.
LEMMA ArrayShape ==
  parse_literal_array_expr =
    <<Node("array")>> \o <<Expect("["), Until("]", "argument"), Expect("]")>> \o <<Done>>
BY Ends5 DEF parse_literal_array_expr

\* The handler of an object, around the properties.
LEMMA ObjectShape ==
  parse_obj_assignment_expr =
    <<Node("object")>> \o <<Expect(LBrace), Until(RBrace, "property"), Expect(RBrace)>> \o <<Done>>
<1>1. parse_obj_assignment_expr =
        <<Node("object"), Expect(LBrace), Until(RBrace, "property"), Expect(RBrace), Done>>
  BY Zenon DEF parse_obj_assignment_expr, LBrace, RBrace
<1>2. <<Node("object"), Expect(LBrace), Until(RBrace, "property"), Expect(RBrace), Done>>
        = <<Node("object")>> \o <<Expect(LBrace), Until(RBrace, "property"), Expect(RBrace)>> \o <<Done>>
  BY Ends5
<1> QED
  BY <1>1, <1>2, Zenon

\* Whatever the token, the handler of operands and the reader go the same way.
LEMMA OperandCarried ==
  ASSUME NEW c \in Spots, Opens(c), Within(c), NEW t \in Alphabet, c.next = {t}
  PROVE  Carries(nud_lu(t), c, Spot("operator", c.open, Alphabet, c.depth))
<1>1. PICK a : a = Spot(c.at, c.open, c.next, c.depth + 1)
  OBVIOUS
<1>2. /\ a \in Spots /\ Opens(a) /\ Within(a) /\ a.depth = c.depth + 1 /\ a.open = c.open
      /\ a.next = {t}
  BY <1>1, WithinFacts
<1>3. PICK z : z = Spot("operator", c.open, Alphabet, c.depth)
  OBVIOUS
<1>4. z \in Spots
  BY <1>3, SpotNumbers, AfterOperand
<1>6. CASE t = "id"
  BY <1>6, CarryId, OperandKinds
<1>7. CASE t \in {"-", "!"}
  <2>1. PICK q : q = <<Accept({"-", "!"}), Expr(defalt_bp)>>
    OBVIOUS
  <2>2. Carries(q, a, Spot("operator", a.open, UpTo(0), a.depth))
    BY <1>2, <1>7, <2>1, CarryPrefix
  <2>3. "prefix" \in NodeOps
    BY DEF NodeOps
  <2>4. Carries(<<Node("prefix")>> \o q \o <<Done>>, c, z)
    BY <1>1, <1>2, <1>3, <2>2, <2>3, CarryNodeOf
  <2>5. parse_prefix_expr = <<Node("prefix")>> \o q \o <<Done>>
    BY <2>1, Ends4 DEF parse_prefix_expr
  <2>6. nud_lu(t) = parse_prefix_expr
    BY <1>7, OperandKinds
  <2> QED
    BY <1>3, <2>4, <2>5, <2>6, Zenon
<1>8. CASE t = "("
  <2>1. PICK q : q = <<Expect("("), Expr(defalt_bp), Expect(")")>>
    OBVIOUS
  <2>2. Carries(q, a, Spot("operator", a.open, Alphabet, a.depth))
    BY <1>2, <1>8, <2>1, CarryGroup
  <2>3. "group" \in NodeOps
    BY DEF NodeOps
  <2>4. Carries(<<Node("group")>> \o q \o <<Done>>, c, z)
    BY <1>1, <1>2, <1>3, <2>2, <2>3, CarryNodeOf
  <2>5. grouping_expr = <<Node("group")>> \o q \o <<Done>>
    BY <2>1, GroupShape, Zenon
  <2>6. nud_lu(t) = grouping_expr
    BY <1>8, OperandKinds
  <2> QED
    BY <1>3, <2>4, <2>5, <2>6, Zenon
<1>9. CASE t = "["
  <2>1. PICK q : q = <<Expect("["), Until("]", "argument"), Expect("]")>>
    OBVIOUS
  <2>2. Carries(q, a, Spot("operator", a.open, Alphabet, a.depth))
    BY <1>2, <1>9, <2>1, CarryArray
  <2>3. "array" \in NodeOps
    BY DEF NodeOps
  <2>4. Carries(<<Node("array")>> \o q \o <<Done>>, c, z)
    BY <1>1, <1>2, <1>3, <2>2, <2>3, CarryNodeOf
  <2>5. parse_literal_array_expr = <<Node("array")>> \o q \o <<Done>>
    BY <2>1, ArrayShape, Zenon
  <2>6. nud_lu(t) = parse_literal_array_expr
    BY <1>9, OperandKinds
  <2> QED
    BY <1>3, <2>4, <2>5, <2>6, Zenon
<1>10. CASE t = LBrace
  <2>1. PICK q : q = <<Expect(LBrace), Until(RBrace, "property"), Expect(RBrace)>>
    OBVIOUS
  <2>2. Carries(q, a, Spot("operator", a.open, Alphabet, a.depth))
    BY <1>2, <1>10, <2>1, CarryObject
  <2>3. "object" \in NodeOps
    BY DEF NodeOps
  <2>4. Carries(<<Node("object")>> \o q \o <<Done>>, c, z)
    BY <1>1, <1>2, <1>3, <2>2, <2>3, CarryNodeOf
  <2>5. parse_obj_assignment_expr = <<Node("object")>> \o q \o <<Done>>
    BY <2>1, ObjectShape, Zenon
  <2>6. nud_lu(t) = parse_obj_assignment_expr
    BY <1>10, OperandKinds DEF LBrace
  <2> QED
    BY <1>3, <2>4, <2>5, <2>6, Zenon
<1>11. CASE t \notin {"id", "-", "!", "(", "[", "{"}
  BY <1>3, <1>4, <1>11, CarryUnknown, OperandKinds
<1>12. t = LBrace <=> t = "{"
  BY DEF LBrace
<1> QED
  BY <1>6, <1>7, <1>8, <1>9, <1>10, <1>11, <1>12

-----------------------------------------------------------------------------
(* What begins with an operator carries it past the operator and its operand.*)

\* What the reader makes of an operator.
LEMMA OperatorFeeds ==
  ASSUME NEW c \in Spots, c.at = "operator", NEW n \in Nat
  PROVE  /\ \A t \in TwoOperands : Feed(View(c, n), t) = Reader("operand", c.open, n + 1)
         /\ Feed(View(c, n), "++") = Reader("operator", c.open, n + 1)
         /\ Feed(View(c, n), ".") = Reader("name", c.open, n + 1)
         /\ Feed(View(c, n), "(") = Reader("start", Append(c.open, "call"), n + 1)
         /\ Feed(View(c, n), "[") = Reader("operand", Append(c.open, "index"), n + 1)
<1>1. PICK v : v = View(c, n)
  OBVIOUS
<1>2. v.at = "operator" /\ v.open = c.open /\ v.statements = n + 1
  BY <1>1, ViewFacts
<1>3. Last(v.open) \in Bracketing \cup {"program"}
  BY <1>2, SpotFacts DEF Opened
<1> QED
  BY <1>1, <1>2, <1>3, FeedOperator

\* A parenthesis after an operand opens a call,
LEMMA FeedsCall ==
  ASSUME NEW c \in Spots, c.at = "operator", NEW n \in Nat, NEW o, Deeper(o, c.open, "call")
  PROVE  Feed(View(c, n), "(") = Reader("start", o, n + 1)
BY OperatorFeeds DEF Deeper

\* and a bracket an index.
LEMMA FeedsIndex ==
  ASSUME NEW c \in Spots, c.at = "operator", NEW n \in Nat, NEW o, Deeper(o, c.open, "index")
  PROVE  Feed(View(c, n), "[") = Reader("operand", o, n + 1)
BY OperatorFeeds DEF Deeper

\* An operator between two operands, and the operator after its only one.
LEMMA CarryBinary ==
  ASSUME NEW c \in Spots, c.at = "operator", Within(c), NEW t \in TwoOperands, c.next = {t},
         NEW b \in Nat
  PROVE  Carries(<<Expect(t), Expr(b)>>, c, Spot("operator", c.open, UpTo(b), c.depth))
<1>1. PICK d : d = Spot("operand", c.open, Alphabet, c.depth)
  OBVIOUS
<1>2. d \in Spots /\ d.at = "operand" /\ d.open = c.open /\ d.next = Alphabet /\ d.depth = c.depth
  BY <1>1, SpotNumbers, SpotFacts, SpotMade
<1>3. PICK i : i = Expect(t)
  OBVIOUS
<1>4. i \in Items /\ i.do = "expect" /\ i.any = {t} /\ t # "EOF"
  <2>1. t \in Tokens /\ t # "EOF"
    BY AlphabetFacts
  <2> QED
    BY <1>3, <2>1, ExpressionItems
<1>5. \A n \in Nat : Feed(View(c, n), t) = View(d, n)
  BY <1>2, OperatorFeeds, ViewWithin
<1>6. Carries(<<i>>, c, d)
  BY <1>2, <1>4, <1>5, CarryOpening
<1>7. Carries(<<Expr(b)>>, d, Spot("operator", d.open, UpTo(b), d.depth))
  BY <1>2, CarryExpr DEF Opens, Within
<1> QED
  BY <1>2, <1>3, <1>6, <1>7, Carry2

\* The increment.
LEMMA CarryIncrement ==
  ASSUME NEW c \in Spots, c.at = "operator", Within(c), c.next = {"++"}
  PROVE  Carries(<<Expect("++")>>, c, Spot("operator", c.open, Alphabet, c.depth))
<1>1. PICK d : d = Spot("operator", c.open, Alphabet, c.depth)
  OBVIOUS
<1>2. d \in Spots /\ d.at = "operator" /\ d.open = c.open /\ d.next = Alphabet /\ d.depth = c.depth
  BY <1>1, SpotNumbers, AfterOperand
<1>3. PICK i : i = Expect("++")
  OBVIOUS
<1>4. i \in Items /\ i.do = "expect" /\ i.any = {"++"}
  BY <1>3, AlphabetFacts, ExpressionItems
<1>5. \A n \in Nat : Feed(View(c, n), "++") = View(d, n)
  BY <1>2, OperatorFeeds, ViewWithin
<1> QED
  BY <1>1, <1>2, <1>3, <1>4, <1>5, CarryOpening

\* A member.
LEMMA MemberNames ==
  /\ Names \in SUBSET Tokens /\ "EOF" \notin Names
  /\ \A t \in Alphabet : t \in Names <=> t = "id"
<1>1. Names \in SUBSET Tokens /\ "EOF" \notin Names /\ "id" \in Names
  BY TokenFacts2, TokenFacts4
<1>2. PICK M : M = {"!", ",", ":"}
  OBVIOUS
<1>3. M \cap Names = {}
  BY <1>2 DEF Names, Identifiers, FieldNames, Keywords
<1>4. PICK B : B = Brackets
  OBVIOUS
<1>5. \A t \in Alphabet : t = "id" \/ t = "EOF" \/ t \in M \/ t \in B \/ t \in Led
  BY <1>2, <1>4, AlphabetFacts DEF Brackets, Opening, Closing
<1>6. B \cap Names = {} /\ Led \cap Names = {}
  BY <1>4, TokenFacts4
<1> QED
  BY <1>1, <1>3, <1>5, <1>6

\* A dot and the name of a member.
LEMMA CarryMember ==
  ASSUME NEW c \in Spots, c.at = "operator", Within(c), c.next = {"."}
  PROVE  Carries(<<Expect("."), Name>>, c, Spot("operator", c.open, Alphabet, c.depth))
<1>1. PICK d : d = Spot("name", c.open, Alphabet, c.depth)
  OBVIOUS
<1>2. d \in Spots /\ d.at = "name" /\ d.open = c.open /\ d.next = Alphabet /\ d.depth = c.depth
  BY <1>1, SpotNumbers, SpotFacts, SpotMade
<1>3. PICK i : i = Expect(".")
  OBVIOUS
<1>4. i \in Items /\ i.do = "expect" /\ i.any = {"."}
  BY <1>3, AlphabetFacts, ExpressionItems
<1>5. \A n \in Nat : Feed(View(c, n), ".") = View(d, n)
  BY <1>2, OperatorFeeds, ViewWithin
<1>6. Carries(<<i>>, c, d)
  BY <1>2, <1>4, <1>5, CarryOpening
<1>7. PICK e : e = Spot("operator", c.open, Alphabet, c.depth)
  OBVIOUS
<1>8. e \in Spots /\ e.at = "operator" /\ e.open = c.open /\ e.next = Alphabet /\ e.depth = c.depth
  BY <1>7, SpotNumbers, AfterOperand
<1>9. Name \in Items /\ Name.do = "expect" /\ Name.any = Names /\ "EOF" \notin Names
  BY MemberNames, ExpressionItems DEF Name
<1>10. ASSUME NEW n \in Nat, NEW t \in d.next
       PROVE  /\ t \in Name.any => Feed(View(d, n), t) = View(e, n)
              /\ t \notin Name.any => Feed(View(d, n), t).at = "dead"
  <2>1. PICK v : v = View(d, n)
    OBVIOUS
  <2>2. v.at = "name" /\ v.open = c.open /\ v.statements = n + 1
    BY <1>2, <2>1, ViewFacts
  <2>3. View(e, n) = Reader("operator", c.open, n + 1)
    BY <1>8, ViewWithin
  <2>4. t \in Names <=> t = "id"
    BY <1>2, MemberNames
  <2>5. Feed(v, t) = Reader(IF t = "id" THEN "operator" ELSE "dead", v.open, v.statements)
    BY <2>2, FeedRest
  <2> QED
    BY <1>9, <2>1, <2>2, <2>3, <2>4, <2>5, ReaderFacts
<1>11. Within(d) /\ e.depth = d.depth
  BY <1>2, <1>8 DEF Within
<1>12. Carries(<<Name>>, d, e)
  BY <1>2, <1>8, <1>9, <1>10, <1>11, CarryExpect
<1> QED
  BY <1>3, <1>6, <1>7, <1>12, Carry2

\* An index: the expression within brackets.
LEMMA CarryIndex ==
  ASSUME NEW a \in Spots, a.at = "operator", Within(a), a.next = {"["}
  PROVE  Carries(<<Expect("["), Expr(defalt_bp), Expect("]")>>, a,
                 Spot("operator", a.open, Alphabet, a.depth))
<1>1. PICK b \in Bracketing : b = "index"
  BY DEF Bracketing
<1>2. PICK d \in Spots : /\ Deeper(d.open, a.open, b) /\ d.at = "operand" /\ d.next = Alphabet
                        /\ d.depth = a.depth
  BY SpotNumbers, SpotInside
<1>3. PICK i : i = Expect("[")
  OBVIOUS
<1>4. i \in Items /\ i.do = "expect" /\ i.any = {"["}
  BY <1>3, AlphabetFacts, ExpressionItems
<1>5. \A n \in Nat : Feed(View(a, n), "[") = View(d, n)
  <2> SUFFICES ASSUME NEW n \in Nat
               PROVE  Feed(View(a, n), "[") = View(d, n)
    OBVIOUS
  <2>1. Feed(View(a, n), "[") = Reader("operand", d.open, n + 1)
    <3>1. Deeper(d.open, a.open, "index")
      BY <1>1, <1>2
    <3> QED
      BY <3>1, FeedsIndex
  <2>2. View(d, n) = Reader("operand", d.open, n + 1)
    BY <1>2, ViewWithin
  <2> QED
    BY <2>1, <2>2
<1>6. Carries(<<i>>, a, d)
  BY <1>2, <1>4, <1>5, CarryOpening
<1>7. PICK e : e = Spot("operator", d.open, UpTo(0), d.depth)
  OBVIOUS
<1>8. Carries(<<Expr(defalt_bp)>>, d, e)
  BY <1>2, <1>7, CarryExpr DEF Opens, Within, defalt_bp
<1>9. /\ e \in Spots /\ e.at = "operator" /\ e.open = d.open /\ e.next = UpTo(0)
      /\ e.depth = d.depth
  BY <1>7, SpotNumbers, AfterExpression
<1>10. Carries(<<Expect("]")>>, e, Spot("operator", a.open, Alphabet, e.depth))
  <2>1. Deeper(e.open, a.open, b) /\ e.at \in {"item", "key", "operator"} /\ Within(e)
    BY <1>2, <1>9 DEF Within
  <2>2. e.next \cap Led = {} /\ b \in {"group", "index"}
    BY <1>1, <1>9, LowestFacts
  <2>3. Carries(<<Expect(Closer(b))>>, e, Spot("operator", a.open, Alphabet, e.depth))
    BY <1>9, <2>1, <2>2, CarryClose
  <2> QED
    BY <1>1, <2>3, CloserFacts
<1>11. Carries(<<Expr(defalt_bp), Expect("]")>>, d, Spot("operator", a.open, Alphabet, a.depth))
  BY <1>2, <1>8, <1>9, <1>10, Carry2
<1> QED
  BY <1>3, <1>6, <1>11, Carry3

\* A call: the arguments within parentheses.
LEMMA CarryCall ==
  ASSUME NEW a \in Spots, a.at = "operator", Within(a), a.next = {"("}
  PROVE  Carries(<<Expect("("), Until(")", "argument"), Expect(")")>>, a,
                 Spot("operator", a.open, Alphabet, a.depth))
<1>1. PICK b \in Bracketing : b = "call"
  BY DEF Bracketing
<1>2. PICK d \in Spots : /\ Deeper(d.open, a.open, b) /\ d.at = "item" /\ d.next = Alphabet
                        /\ d.depth = a.depth
  BY <1>1, SpotNumbers, SpotInside
<1>3. PICK i : i = Expect("(")
  OBVIOUS
<1>4. i \in Items /\ i.do = "expect" /\ i.any = {"("}
  BY <1>3, AlphabetFacts, ExpressionItems
<1>5. Last(d.open) = b
  BY <1>2, SpotFacts, DeeperFacts
<1>6. \A n \in Nat : Feed(View(a, n), "(") = View(d, n)
  <2> SUFFICES ASSUME NEW n \in Nat
               PROVE  Feed(View(a, n), "(") = View(d, n)
    OBVIOUS
  <2>1. Feed(View(a, n), "(") = Reader("start", d.open, n + 1)
    <3>1. Deeper(d.open, a.open, "call")
      BY <1>1, <1>2
    <3> QED
      BY <3>1, FeedsCall
  <2>2. View(d, n) = Reader("start", d.open, n + 1)
    BY <1>1, <1>2, <1>5, ViewWithin
  <2> QED
    BY <2>1, <2>2
<1>7. Carries(<<i>>, a, d)
  BY <1>2, <1>4, <1>6, CarryOpening
<1>8. "argument" \in Repeated /\ Lists(Closer(b), "argument", d) /\ Within(d) /\ Closer(b) = ")"
  BY <1>1, <1>2, <1>5, CloserFacts DEF Repeated, Lists, Within
<1>9. Carries(<<Until(")", "argument"), Expect(")")>>, d, Spot("operator", a.open, Alphabet, d.depth))
  BY <1>2, <1>8, CarryList
<1> QED
  BY <1>2, <1>3, <1>7, <1>9, Carry3

\* Whatever the operator, its handler and the reader go the same way.
LEMMA OperatorKinds ==
  ASSUME NEW t \in Led
  PROVE  /\ t = "++" => led_lu(t) = <<Expect("++")>>
         /\ t = "[" => led_lu(t) = <<Expect("["), Expr(defalt_bp), Expect("]")>>
         /\ t = "(" => led_lu(t) = <<Expect("("), Until(")", "argument"), Expect(")")>>
         /\ t = "." => led_lu(t) = <<Expect("."), Name>>
         /\ t \in TwoOperands \cup {"++", "[", "(", "."}
<1>1. t \in TwoOperands \cup {"++", "[", "(", "."}
  BY AlphabetFacts
<1>2. CASE t \in {"++", "[", "(", "."}
  <2>1. t \notin {"=", "+=", "-="}
    BY <1>2
  <2> QED
    BY <1>1, <1>2, <2>1 DEF led_lu, parse_incdec_expr, parse_array_access_item_expr, parse_call_expr,
                            parse_member_expr
<1>3. CASE t \notin {"++", "[", "(", "."}
  BY <1>1, <1>3
<1> QED
  BY <1>2, <1>3

\* An operator of two operands, and its right operand.
LEMMA BinaryKinds ==
  ASSUME NEW t \in TwoOperands
  PROVE  \E b \in Nat : led_lu(t) = <<Expect(t), Expr(b)>>
<1>1. CASE t \in {"=", "+=", "-="}
  <2>1. led_lu(t) = <<Expect(t), Expr(assignment)>>
    BY <1>1, Zenon DEF led_lu, parse_assignment
  <2>2. assignment \in Nat
    BY DEF assignment
  <2> QED
    BY <2>1, <2>2
<1>2. CASE t \notin {"=", "+=", "-="}
  <2>1. t # "++" /\ t # "[" /\ t # "(" /\ t # "."
    BY AlphabetFacts
  <2>2. led_lu(t) = <<Expect(t), Expr(bp_lu(t))>>
    BY <1>2, <2>1 DEF led_lu, parse_binary_expr
  <2>3. bp_lu(t) \in Nat
    BY PowerOf
  <2> QED
    BY <2>2, <2>3
<1> QED
  BY <1>1, <1>2

\* Whatever operator follows, its handler carries the parse past it.
LEMMA OperatorCarried ==
  ASSUME NEW c \in Spots, c.at = "operator", Within(c), NEW t \in Led, c.next = {t}
  PROVE  \E d \in Spots : /\ d.at = "operator" /\ d.open = c.open /\ d.depth = c.depth
                          /\ Carries(led_lu(t), c, d)
<1>1. PICK d : d = Spot("operator", c.open, Alphabet, c.depth)
  OBVIOUS
<1>2. d \in Spots /\ d.at = "operator" /\ d.open = c.open /\ d.depth = c.depth
  BY <1>1, SpotNumbers, AfterOperand
<1>3. CASE t \in TwoOperands
  <2>1. PICK b \in Nat : led_lu(t) = <<Expect(t), Expr(b)>>
    BY <1>3, BinaryKinds
  <2>2. PICK e : e = Spot("operator", c.open, UpTo(b), c.depth)
    OBVIOUS
  <2>3. e \in Spots /\ e.at = "operator" /\ e.open = c.open /\ e.depth = c.depth
    BY <2>2, SpotNumbers, AfterExpression
  <2>4. Carries(<<Expect(t), Expr(b)>>, c, e)
    BY <1>3, <2>2, CarryBinary
  <2> QED
    BY <2>1, <2>3, <2>4
<1>4. CASE t = "++"
  BY <1>1, <1>2, <1>4, CarryIncrement, OperatorKinds
<1>5. CASE t = "["
  BY <1>1, <1>2, <1>5, CarryIndex, OperatorKinds
<1>6. CASE t = "("
  BY <1>1, <1>2, <1>6, CarryCall, OperatorKinds
<1>7. CASE t = "."
  BY <1>1, <1>2, <1>7, CarryMember, OperatorKinds
<1> QED
  BY <1>3, <1>4, <1>5, <1>6, <1>7, OperatorKinds

-----------------------------------------------------------------------------
(* The items of lists and of objects.                                      *)

\* The comma between items may be left out.
LEMMA CommaFacts ==
  /\ OptionalComma \in Items /\ OptionalComma.do = "if" /\ OptionalComma.next = ","
  /\ OptionalComma.body = "comma" /\ "," \in Tokens /\ "," \in Alphabet /\ "," # "EOF"
<1>1. "," \in Tokens /\ "," \in Alphabet
  BY AlphabetFacts
<1>2. "comma" \in Optionals
  BY DEF Optionals
<1> QED
  BY <1>1, <1>2 DEF OptionalComma, IfNext, Items

\* The comma that may follow, before what does not continue an expression.
LEMMA CarryOptional ==
  ASSUME NEW c \in Spots, c.at = "operator", Within(c), c.next = UpTo(0), NEW b,
         b = Last(c.open), b \in {"call", "array", "object"},
         NEW d \in Spots, d.open = c.open, d.next = Alphabet, d.depth = c.depth,
         d.at = IF b = "object" THEN "key" ELSE "item"
  PROVE  Carries(<<OptionalComma>>, c, d)
<1>1. d = Spot(IF Last(c.open) = "object" THEN "key" ELSE "item", c.open, Alphabet, c.depth)
  BY SpotFacts
<1>2. c.next \cap Led = {}
  BY LowestFacts
<1>3. Brings(OptionalComma, c, d)
  BY <1>1, <1>2, CommaFacts, BringsByKind2
<1> QED
  BY <1>3, CommaFacts, CarryOne

\* An argument of a call, or an item of an array.
LEMMA CarryArgument ==
  ASSUME NEW c \in Spots, Opens(c), Within(c), c.at = "item", NEW b, b = Last(c.open),
         b \in {"call", "array"},
         NEW d \in Spots, d.at = "item", d.open = c.open, d.next = Alphabet, d.depth = c.depth
  PROVE  Carries(argument, c, d)
<1>1. PICK e : e = Spot("operator", c.open, UpTo(0), c.depth)
  OBVIOUS
<1>2. /\ e \in Spots /\ e.at = "operator" /\ e.open = c.open /\ e.next = UpTo(0)
      /\ e.depth = c.depth
  BY <1>1, SpotNumbers, AfterExpression
<1>3. Carries(<<Expr(defalt_bp)>>, c, e)
  BY <1>1, CarryExpr DEF defalt_bp
<1>4. Within(e)
  BY <1>2 DEF Within
<1>5. Carries(<<OptionalComma>>, e, d)
  BY <1>2, <1>4, CarryOptional
<1> QED
  BY <1>3, <1>5, Carry2 DEF argument

\* The tokens that a key may be, of those of expressions.
LEMMA KeyNames ==
  /\ Texts \cup Names \in SUBSET Tokens /\ "EOF" \notin Texts \cup Names
  /\ \A t \in Alphabet : t \in Texts \cup Names <=> t = "id"
<1>1. Texts \subseteq Tokens /\ "EOF" \notin Texts
  BY TokenFacts2, TokenFacts5
<1>2. PICK M : M = {"id", "!", ",", ":"}
  OBVIOUS
<1>3. M \cap Texts = {}
  BY <1>2 DEF Texts, ActionKinds
<1>4. PICK B : B = Brackets
  OBVIOUS
<1>5. \A t \in Alphabet : t = "EOF" \/ t \in M \/ t \in B \/ t \in Led
  BY <1>2, <1>4, AlphabetFacts DEF Brackets, Opening, Closing
<1>6. B \cap Texts = {} /\ Led \cap Texts = {}
  BY <1>4, TokenFacts5
<1>7. \A t \in Alphabet : t \notin Texts
  BY <1>1, <1>3, <1>5, <1>6
<1> QED
  BY <1>1, <1>7, MemberNames

\* A property of an object.
LEMMA CarryProperty ==
  ASSUME NEW c \in Spots, c.at = "key", Within(c), Closer(Last(c.open)) \notin c.next,
         NEW d \in Spots, d.at = "key", d.open = c.open, d.next = Alphabet, d.depth = c.depth
  PROVE  Carries(parse_obj_item_assignment_expr, c, d)
<1>1. Last(c.open) = "object"
  BY SpotFacts
<1>2. PICK x : x = Spot("colon", c.open, Alphabet, c.depth)
  OBVIOUS
<1>3. x \in Spots /\ x.at = "colon" /\ x.open = c.open /\ x.next = Alphabet /\ x.depth = c.depth
  BY <1>2, SpotNumbers, SpotFacts, SpotMade
<1>4. PICK y : y = Spot("operand", c.open, Alphabet, c.depth)
  OBVIOUS
<1>5. y \in Spots /\ y.at = "operand" /\ y.open = c.open /\ y.next = Alphabet /\ y.depth = c.depth
  BY <1>4, SpotNumbers, SpotFacts, SpotMade
<1>6. PICK z : z = Spot("operator", c.open, UpTo(0), c.depth)
  OBVIOUS
<1>7. /\ z \in Spots /\ z.at = "operator" /\ z.open = c.open /\ z.next = UpTo(0)
      /\ z.depth = c.depth
  BY <1>6, SpotNumbers, AfterExpression
<1>8. Within(x) /\ Within(y) /\ Within(z)
  BY <1>3, <1>5, <1>7 DEF Within
<1>9. PICK i : i = Accept(Texts \cup Names)
  OBVIOUS
<1>10. i \in Items /\ i.do = "expect" /\ i.any = Texts \cup Names
  BY <1>9, KeyNames, ExpressionItems
<1>11. ASSUME NEW n \in Nat, NEW t \in c.next
       PROVE  /\ t \in i.any => Feed(View(c, n), t) = View(x, n)
              /\ t \notin i.any => Feed(View(c, n), t).at = "dead"
  <2>1. PICK v : v = View(c, n)
    OBVIOUS
  <2>2. v.at = "key" /\ v.open = c.open /\ v.statements = n + 1
    BY <2>1, ViewFacts
  <2>3. View(x, n) = Reader("colon", c.open, n + 1)
    BY <1>3, ViewWithin
  <2>4. t \in i.any <=> t = "id"
    BY <1>10, SpotFacts, KeyNames
  <2>5. t # Closer(Last(v.open))
    BY <2>2
  <2>6. Feed(v, t) = Reader(IF t = "id" THEN "colon" ELSE "dead", v.open, v.statements)
    BY <2>2, <2>5, FeedKey
  <2> QED
    BY <2>1, <2>2, <2>3, <2>4, <2>6, ReaderFacts
<1>12. Carries(<<i>>, c, x)
  BY <1>3, <1>10, <1>11, KeyNames, CarryExpect
<1>13. PICK j : j = Expect(":")
  OBVIOUS
<1>14. j \in Items /\ j.do = "expect" /\ j.any = {":"} /\ ":" # "EOF"
  <2>1. ":" \in Tokens
    BY AlphabetFacts
  <2> QED
    BY <1>13, <2>1, ExpressionItems
<1>15. ASSUME NEW n \in Nat, NEW t \in x.next
       PROVE  /\ t \in j.any => Feed(View(x, n), t) = View(y, n)
              /\ t \notin j.any => Feed(View(x, n), t).at = "dead"
  <2>1. PICK v : v = View(x, n)
    OBVIOUS
  <2>2. v.at = "colon" /\ v.open = c.open /\ v.statements = n + 1
    BY <1>3, <2>1, ViewFacts
  <2>3. View(y, n) = Reader("operand", c.open, n + 1)
    BY <1>5, ViewWithin
  <2>4. Feed(v, t) = Reader(IF t = ":" THEN "operand" ELSE "dead", v.open, v.statements)
    BY <2>2, FeedRest
  <2> QED
    BY <1>14, <2>1, <2>2, <2>3, <2>4, ReaderFacts
<1>16. Carries(<<j>>, x, y)
  BY <1>3, <1>5, <1>8, <1>14, <1>15, CarryExpect
<1>17. Carries(<<Expr(defalt_bp)>>, y, z)
  BY <1>5, <1>6, <1>8, CarryExpr DEF Opens, defalt_bp
<1>18. Carries(<<OptionalComma>>, z, d)
  BY <1>1, <1>7, <1>8, CarryOptional
<1>19. Carries(<<Expr(defalt_bp), OptionalComma>>, y, d)
  BY <1>17, <1>18, Carry2
<1>20. Carries(<<j, Expr(defalt_bp), OptionalComma>>, x, d)
  BY <1>16, <1>19, Carry3
<1>21. Carries(<<i, j, Expr(defalt_bp), OptionalComma>>, c, d)
  BY <1>12, <1>20, Carry4
<1>22. parse_obj_item_assignment_expr = <<i, j, Expr(defalt_bp), OptionalComma>>
  BY <1>9, <1>13, Zenon DEF parse_obj_item_assignment_expr
<1> QED
  BY <1>21, <1>22, Zenon

-----------------------------------------------------------------------------
(* The reader agrees with a spot, and goes on agreeing.                    *)

\* The reader r, before the token t, is as if it were at the spot, with n statements.
Agrees(r, t, c, n) == r.at # "dead" /\ t \in c.next /\ Feed(r, t) = Feed(View(c, n), t)

\* It is so at the same place before the token alone.
LEMMA AgreesMoved ==
  ASSUME NEW r, NEW t, NEW c, NEW d, NEW n, Agrees(r, t, c, n), d.at = c.at, d.open = c.open,
         t \in d.next
  PROVE  Agrees(r, t, d, n)
<1>1. View(d, n) = View(c, n)
  BY DEF View
<1> QED
  BY <1>1 DEF Agrees

\* The spot before t alone.
Facing(d, t, c, k) == d.at = c.at /\ d.open = c.open /\ d.next = {t} /\ d.depth = k

\* There is such a spot.
LEMMA FacingFound ==
  ASSUME NEW r, NEW t, NEW c \in Spots, NEW n, Agrees(r, t, c, n), NEW k, k \in Nat
  PROVE  \E d \in Spots : Agrees(r, t, d, n) /\ Facing(d, t, c, k)
<1>1. PICK S : S = {t} /\ S \subseteq Alphabet
  BY SpotNumbers DEF Agrees
<1>2. PICK d : d = Spot(c.at, c.open, S, k)
  OBVIOUS
<1>3. d \in Spots /\ d.at = c.at /\ d.open = c.open /\ d.next = S /\ d.depth = k
  BY <1>1, <1>2, SpotFacts, SpotMade
<1>4. Agrees(r, t, d, n)
  BY <1>1, <1>3, AgreesMoved
<1> QED
  BY <1>1, <1>3, <1>4 DEF Facing

\* The power of an item that has one.
LEMMA PowerHeld ==
  ASSUME NEW i \in Items, i.do = "expr" \/ i.do = "operators"
  PROVE  i.bp \in Nat
<1>1. CASE i.do = "expr"
  BY <1>1 DEF Items
<1>2. CASE i.do = "operators"
  BY <1>2 DEF Items
<1> QED
  BY <1>1, <1>2

\* An expression: its first token chooses the handler of its operand.
LEMMA ExprCarried ==
  ASSUME NEW r, NEW t, NEW c \in Spots, NEW b \in Spots, NEW n, Agrees(r, t, c, n),
         NEW i \in Items, i.do = "expr", Brings(i, c, b)
  PROVE  \E d \in Spots : /\ Carries(nud_lu(t) \o <<Operators(i.bp)>>, d, b)
                          /\ Agrees(r, t, d, n) /\ d.depth = c.depth
<1>1. Opens(c) /\ Within(c) /\ b = Spot("operator", c.open, UpTo(i.bp), c.depth)
  BY BringsByKind
<1>2. PICK d \in Spots : /\ Agrees(r, t, d, n) /\ d.at = c.at /\ d.open = c.open
                         /\ d.next = {t} /\ d.depth = c.depth
  <2>1. c.depth \in Nat
    BY SpotNumbers
  <2>2. PICK d \in Spots : Agrees(r, t, d, n) /\ Facing(d, t, c, c.depth)
    BY <2>1, FacingFound
  <2> QED
    BY <2>2 DEF Facing
<1>3. t \in Alphabet /\ t \in c.next
  BY SpotNumbers DEF Agrees
<1>4. Opens(d) /\ Within(d)
  BY <1>1, <1>2, <1>3 DEF Opens, Within
<1>5. PICK e : e = Spot("operator", d.open, Alphabet, d.depth)
  OBVIOUS
<1>6. e \in Spots /\ e.at = "operator" /\ e.open = d.open /\ e.depth = d.depth
  BY <1>5, SpotNumbers, AfterOperand
<1>7. Carries(nud_lu(t), d, e)
  BY <1>2, <1>3, <1>4, <1>5, OperandCarried
<1>8. i.bp \in Nat
  BY PowerHeld
<1>9. Operators(i.bp) \in Items /\ Operators(i.bp).do = "operators" /\ Operators(i.bp).bp = i.bp
  BY <1>8, ExpressionItems
<1>10. Within(e) /\ b = Spot("operator", e.open, UpTo(i.bp), e.depth)
  BY <1>1, <1>2, <1>6 DEF Within
<1>11. Brings(Operators(i.bp), e, b)
  BY <1>6, <1>9, <1>10, BringsByKind
<1>12. Carries(<<Operators(i.bp)>>, e, b)
  BY <1>6, <1>9, <1>11, CarryOne
<1> QED
  BY <1>2, <1>7, <1>12, CarryJoin

\* The operators of an expression: one that binds tighter, and what ends them.
LEMMA OperatorsCarried ==
  ASSUME NEW r, NEW t, NEW c \in Spots, NEW b \in Spots, NEW n, Agrees(r, t, c, n),
         NEW i \in Items, i.do = "operators", Brings(i, c, b), bp_lu(t) > i.bp
  PROVE  \E d \in Spots : /\ Carries(led_lu(t) \o <<Done, i>>, d, b)
                          /\ Agrees(r, t, d, n) /\ d.depth = c.depth + 1 /\ Within(c)
<1>1. c.at = "operator" /\ Within(c) /\ b = Spot("operator", c.open, UpTo(i.bp), c.depth)
  BY BringsByKind
<1>2. PICK k \in Nat : k = c.depth + 1 /\ k > 2 /\ k - 1 = c.depth
  BY <1>1, SpotNumbers DEF Within
<1>3. PICK d \in Spots : /\ Agrees(r, t, d, n) /\ d.at = c.at /\ d.open = c.open
                         /\ d.next = {t} /\ d.depth = k
  <2>1. PICK d \in Spots : Agrees(r, t, d, n) /\ Facing(d, t, c, k)
    BY FacingFound
  <2> QED
    BY <2>1 DEF Facing
<1>4. t \in Led
  <2>1. i.bp \in Nat
    BY PowerHeld
  <2>2. bp_lu(t) \in Nat /\ (bp_lu(t) > 0 <=> t \in Led)
    BY PowerOf
  <2> QED
    BY <2>1, <2>2
<1>5. Within(d)
  BY <1>2, <1>3 DEF Within
<1>6. PICK e \in Spots : /\ e.at = "operator" /\ e.open = d.open /\ e.depth = d.depth
                         /\ Carries(led_lu(t), d, e)
  BY <1>1, <1>3, <1>4, <1>5, OperatorCarried
<1>7. PICK f : f = Spot("operator", c.open, Alphabet, c.depth)
  OBVIOUS
<1>8. f \in Spots /\ f.at = "operator" /\ f.open = c.open /\ f.depth = c.depth
  BY <1>7, SpotNumbers, AfterOperand
<1>9. Carries(<<Done>>, e, f)
  BY <1>2, <1>3, <1>6, <1>7, CarryDone
<1>10. Within(f) /\ b = Spot("operator", f.open, UpTo(i.bp), f.depth)
  BY <1>1, <1>8 DEF Within
<1>11. Brings(i, f, b)
  BY <1>8, <1>10, BringsByKind
<1>12. Carries(<<i>>, f, b)
  BY <1>8, <1>11, CarryOne
<1>13. Carries(<<Done, i>>, e, b)
  BY <1>9, <1>12, Carry2
<1>14. Carries(led_lu(t) \o <<Done, i>>, d, b)
  BY <1>6, <1>13, CarryJoin
<1> QED
  BY <1>1, <1>2, <1>3, <1>14

\* The loop of parse_expr ends at a token that binds no tighter.
LEMMA OperatorsEnded ==
  ASSUME NEW r, NEW t, NEW c \in Spots, NEW b \in Spots, NEW n, Agrees(r, t, c, n),
         NEW i \in Items, i.do = "operators", Brings(i, c, b), bp_lu(t) <= i.bp
  PROVE  Agrees(r, t, b, n) /\ b.depth = c.depth
<1>1. c.at = "operator" /\ b = Spot("operator", c.open, UpTo(i.bp), c.depth)
  BY BringsByKind
<1>2. b.at = c.at /\ b.open = c.open /\ b.next = UpTo(i.bp) /\ b.depth = c.depth
  BY <1>1 DEF Spot
<1>3. t \in UpTo(i.bp)
  BY SpotNumbers DEF Agrees, UpTo
<1> QED
  BY <1>2, <1>3, AgreesMoved

\* A node begun.
LEMMA NodeCarried ==
  ASSUME NEW r, NEW t, NEW c \in Spots, NEW b \in Spots, NEW n, Agrees(r, t, c, n),
         NEW i \in Items, i.do = "node", Brings(i, c, b)
  PROVE  Agrees(r, t, b, n) /\ b.depth = c.depth + 1
<1>1. b = Spot(c.at, c.open, c.next, c.depth + 1)
  BY BringsByKind2
<1>2. b.at = c.at /\ b.open = c.open /\ b.next = c.next /\ b.depth = c.depth + 1
  BY <1>1 DEF Spot
<1> QED
  BY <1>2, AgreesMoved DEF Agrees

\* The comma by name, for the same reason as the braces.
Comma == ","

\* The first token of an operand is read the same way wherever one may begin.
LEMMA BeginsSame ==
  ASSUME NEW s, NEW u, NEW t, s.open = u.open, s.statements = u.statements
  PROVE  Begins(s, t) = Begins(u, t)
BY Zenon DEF Begins

\* After an operand, what no operator joins begins another item,
LEMMA FeedNextItem ==
  ASSUME NEW s, s.at = "operator", NEW t, t \notin Led, t # Closer(Last(s.open)),
         Last(s.open) \in {"program", "call", "array"}, Last(s.open) = "program" \/ t # Comma
  PROVE  Feed(s, t) = BeginsItem(s, t)
<1>1. Last(s.open) = "program" \/ (Last(s.open) \in {"call", "array"} /\ t # ",")
  BY Zenon DEF Comma
<1> QED
  BY <1>1, FeedNext, Zenon

\* or another property.
LEMMA FeedNextKey ==
  ASSUME NEW s, s.at = "operator", NEW t, t \notin Led, t # Closer(Last(s.open)),
         Last(s.open) = "object", t # Comma
  PROVE  Feed(s, t) = Reader(IF t = "id" THEN "colon" ELSE "dead", s.open, s.statements)
BY FeedNext, Zenon DEF Comma

\* What is no operator is read after an operand as at the beginning of an item.
LEMMA NextItemSame ==
  ASSUME NEW o, NEW k, NEW t, t \notin Led, Last(o) \in {"program", "call", "array"},
         Last(o) = "program" \/ t # Comma
  PROVE  Feed(Reader("operator", o, k), t) = Feed(Reader("start", o, k), t)
<1>1. PICK s : s = Reader("operator", o, k)
  OBVIOUS
<1>2. s.at = "operator" /\ s.open = o /\ s.statements = k
  BY <1>1, ReaderFacts
<1>3. PICK u : u = Reader("start", o, k)
  OBVIOUS
<1>4. u.at = "start" /\ u.open = o /\ u.statements = k
  BY <1>3, ReaderFacts
<1>5. CASE t = Closer(Last(o))
  BY <1>1, <1>2, <1>3, <1>4, <1>5, FeedCloses
<1>6. CASE t # Closer(Last(o))
  <2>1. Feed(s, t) = BeginsItem(s, t)
    BY <1>2, <1>6, FeedNextItem
  <2>2. PICK x : x = IF Last(o) = "program" THEN Reader("operator", o, k + 1) ELSE s
    OBVIOUS
  <2>3. PICK y : y = IF Last(o) = "program" THEN Reader("start", o, k + 1) ELSE u
    OBVIOUS
  <2>4. Feed(s, t) = Begins(x, t)
    BY <1>2, <2>1, <2>2 DEF BeginsItem
  <2>5. Feed(u, t) = Begins(y, t)
    BY <1>4, <1>6, <2>3, FeedItem
  <2>6. x.open = y.open /\ x.statements = y.statements
    BY <1>2, <1>4, <2>2, <2>3, ReaderFacts
  <2> QED
    BY <1>1, <1>3, <2>4, <2>5, <2>6, BeginsSame
<1> QED
  BY <1>5, <1>6

\* In an object it is as if the comma had been there.
LEMMA NextKeySame ==
  ASSUME NEW o, NEW k, NEW t, t \notin Led, Last(o) = "object", t # Comma
  PROVE  Feed(Reader("operator", o, k), t) = Feed(Reader("key", o, k), t)
<1>1. PICK s : s = Reader("operator", o, k)
  OBVIOUS
<1>2. s.at = "operator" /\ s.open = o /\ s.statements = k
  BY <1>1, ReaderFacts
<1>3. PICK u : u = Reader("key", o, k)
  OBVIOUS
<1>4. u.at = "key" /\ u.open = o /\ u.statements = k
  BY <1>3, ReaderFacts
<1>5. CASE t = Closer(Last(o))
  BY <1>1, <1>2, <1>3, <1>4, <1>5, FeedCloses
<1>6. CASE t # Closer(Last(o))
  BY <1>1, <1>2, <1>3, <1>4, <1>6, FeedNextKey, FeedKey
<1> QED
  BY <1>5, <1>6

\* The next statement: it begins with what does not continue the one before.
LEMMA StatementEnded ==
  ASSUME NEW r, NEW t, NEW c \in Spots, NEW n \in Nat, Agrees(r, t, c, n), c.at = "operator",
         c.open = <<"program">>, c.next \cap Led = {}
  PROVE  Agrees(r, t, Outset, n + 1)
<1>1. PICK k \in Nat : k = n + 1
  OBVIOUS
<1>2. PICK o : o = <<"program">> /\ Last(o) = "program"
  BY OutsetFacts
<1>3. View(c, n) = Reader("operator", o, k)
  BY <1>1, <1>2, ViewWithin
<1>4. View(Outset, k) = Reader("start", o, k)
  BY <1>2, OutsetFacts DEF View
<1>5. t \notin Led /\ t \in Alphabet
  BY SpotNumbers DEF Agrees
<1>6. Feed(View(c, n), t) = Feed(View(Outset, k), t)
  BY <1>2, <1>3, <1>4, <1>5, NextItemSame
<1> QED
  BY <1>1, <1>5, <1>6, OutsetFacts DEF Agrees

\* The end of a node.
LEMMA DoneCarried ==
  ASSUME NEW r, NEW t, NEW c \in Spots, NEW b \in Spots, NEW n \in Nat, Agrees(r, t, c, n),
         NEW i \in Items, i.do = "done", Brings(i, c, b)
  PROVE  \/ Within(b) /\ b.depth = c.depth - 1 /\ Agrees(r, t, b, n)
         \/ b.depth = 1 /\ c.depth = 2 /\ Agrees(r, t, b, n + 1)
<1>1. /\ c.at = "operator"
      /\ \/ /\ c.depth = 2 /\ c.open = <<"program">> /\ c.next \cap Led = {}
            /\ b = Outset
         \/ c.depth > 2 /\ b = Spot("operator", c.open, Alphabet, c.depth - 1)
  BY BringsByKind2
<1>2. CASE c.depth = 2 /\ c.open = <<"program">> /\ c.next \cap Led = {} /\ b = Outset
  BY <1>1, <1>2, StatementEnded, OutsetFacts
<1>3. CASE c.depth > 2 /\ b = Spot("operator", c.open, Alphabet, c.depth - 1)
  <2>1. b.at = c.at /\ b.open = c.open /\ b.next = Alphabet /\ b.depth = c.depth - 1
    BY <1>1, <1>3 DEF Spot
  <2>2. t \in Alphabet
    BY SpotNumbers DEF Agrees
  <2>3. Agrees(r, t, b, n)
    BY <2>1, <2>2, AgreesMoved
  <2>4. Within(b)
    BY <1>3, <2>1, SpotNumbers DEF Within
  <2> QED
    BY <2>1, <2>3, <2>4
<1> QED
  BY <1>1, <1>2, <1>3

\* A token consumed, or refused.
LEMMA ExpectCarried ==
  ASSUME NEW r, NEW t, NEW c, NEW b, NEW n, NEW i, c \in Spots, b \in Spots, n \in Nat, i \in Items,
         Agrees(r, t, c, n), i.do = "expect", Brings(i, c, b), t \in i.any
  PROVE  /\ "EOF" \notin i.any /\ Within(c) /\ b.depth = c.depth /\ b.next = Alphabet
         /\ Feed(r, t) = View(b, n) /\ t # "EOF" /\ View(b, n).at # "dead"
<1>1. BringsToken(i, c, b)
  BY BringsByKind
<1>2. View(b, n).at # "dead"
  BY SpotFacts, ViewFacts
<1> QED
  BY <1>1, <1>2 DEF BringsToken, Agrees

\* A token that is not the one expected stops the reader too.
LEMMA ExpectRefused ==
  ASSUME NEW r, NEW t, NEW c, NEW b, NEW n, NEW i, c \in Spots, b \in Spots, n \in Nat, i \in Items,
         Agrees(r, t, c, n), i.do = "expect", Brings(i, c, b), t \notin i.any
  PROVE  Feed(r, t).at = "dead"
<1>1. BringsToken(i, c, b)
  BY BringsByKind
<1> QED
  BY <1>1 DEF BringsToken, Agrees

\* So does one that no handler takes.
LEMMA PanicCarried ==
  ASSUME NEW r, NEW t, NEW c \in Spots, NEW b \in Spots, NEW n \in Nat, Agrees(r, t, c, n),
         NEW i \in Items, i.do = "panic", Brings(i, c, b)
  PROVE  Feed(r, t).at = "dead"
BY BringsByKind2 DEF Agrees

\* A loop that goes round once more, and one that ends.
LEMMA RepeatCarried ==
  ASSUME NEW r, NEW t, NEW c \in Spots, NEW b \in Spots, NEW n, Agrees(r, t, c, n),
         NEW i \in Items, i.do = "until", Brings(i, c, b), t # i.close
  PROVE  \E d \in Spots : /\ Carries(Production(i.body) \o <<i>>, d, b)
                          /\ Agrees(r, t, d, n) /\ d.depth = c.depth
<1>1. Lists(i.close, i.body, c) /\ Within(c) /\ b = Spot(c.at, c.open, {i.close}, c.depth)
  BY BringsByKind
<1>2. PICK d \in Spots : /\ Agrees(r, t, d, n) /\ d.at = c.at /\ d.open = c.open
                         /\ d.next = {t} /\ d.depth = c.depth
  <2>1. c.depth \in Nat
    BY SpotNumbers
  <2>2. PICK d \in Spots : Agrees(r, t, d, n) /\ Facing(d, t, c, c.depth)
    BY <2>1, FacingFound
  <2> QED
    BY <2>2 DEF Facing
<1>3. PICK e : e = Spot(c.at, c.open, Alphabet, c.depth)
  OBVIOUS
<1>4. e \in Spots /\ e.at = c.at /\ e.open = c.open /\ e.next = Alphabet /\ e.depth = c.depth
  BY <1>3, SpotNumbers, SpotFacts, SpotMade
<1>5. Within(d) /\ Within(e)
  BY <1>1, <1>2, <1>4 DEF Within
<1>6. Closer(Last(d.open)) \notin d.next
  BY <1>1, <1>2 DEF Lists
<1>7. Carries(Production(i.body), d, e)
  <2>1. CASE c.at = "key"
    <3>1. i.body = "property"
      BY <1>1, <2>1 DEF Lists
    <3>2. Carries(parse_obj_item_assignment_expr, d, e)
      BY <1>2, <1>4, <1>5, <1>6, <2>1, CarryProperty
    <3> QED
      BY <3>1, <3>2 DEF Production
  <2>2. CASE c.at # "key"
    <3>1. i.body = "argument" /\ c.at = "item" /\ Last(c.open) # "program"
      BY <1>1, <2>2 DEF Lists
    <3>2. Last(d.open) \in {"call", "array"} /\ Opens(d)
      BY <1>2, <1>6, <3>1, SpotFacts DEF Opens
    <3>3. Carries(argument, d, e)
      BY <1>2, <1>4, <1>5, <3>1, <3>2, CarryArgument
    <3> QED
      BY <3>1, <3>3 DEF Production
  <2> QED
    BY <2>1, <2>2
<1>8. Brings(i, e, b)
  <2>1. Lists(i.close, i.body, e)
    BY <1>1, <1>4 DEF Lists
  <2>2. b = Spot(e.at, e.open, {i.close}, e.depth)
    BY <1>1, <1>4
  <2> QED
    BY <1>5, <2>1, <2>2, BringsByKind
<1>9. Carries(<<i>>, e, b)
  BY <1>4, <1>8, CarryOne
<1> QED
  BY <1>2, <1>7, <1>9, CarryJoin

\* A list ends at its closing token.
LEMMA RepeatEnded ==
  ASSUME NEW r, NEW t, NEW c \in Spots, NEW b \in Spots, NEW n, Agrees(r, t, c, n),
         NEW i \in Items, i.do = "until", Brings(i, c, b), t = i.close
  PROVE  Agrees(r, t, b, n) /\ b.depth = c.depth
<1>1. b = Spot(c.at, c.open, {i.close}, c.depth)
  BY BringsByKind
<1>2. b.at = c.at /\ b.open = c.open /\ b.next = {i.close} /\ b.depth = c.depth
  BY <1>1 DEF Spot
<1> QED
  BY <1>2, AgreesMoved

\* A comma in a list.
LEMMA FeedsComma ==
  ASSUME NEW s, s.at = "operator", NEW t, t = Comma, NEW at,
         Last(s.open) \in {"call", "array", "object"},
         at = IF Last(s.open) = "object" THEN "key" ELSE "start"
  PROVE  Feed(s, t) = Reader(at, s.open, s.statements)
<1>1. CASE Last(s.open) = "object"
  <2>1. Last(s.open) \in Bracketing \cup {"program"} /\ at = "key"
    BY <1>1 DEF Bracketing
  <2> QED
    BY <1>1, <2>1, FeedOperator, Zenon DEF Comma
<1>2. CASE Last(s.open) # "object"
  <2>1. Last(s.open) \in Bracketing \cup {"program"} /\ at = "start" /\ Last(s.open) \in {"call", "array"}
    BY <1>2 DEF Bracketing
  <2> QED
    BY <2>1, FeedOperator, Zenon DEF Comma
<1> QED
  BY <1>1, <1>2

\* The comma that may follow, when it is not there, and when it is.
LEMMA CommaOnly ==
  ASSUME NEW c, NEW b, NEW i, i.do = "if", Brings(i, c, b)
  PROVE  i.next = Comma /\ i.body = "comma"
<1>1. i = OptionalComma
  BY BringsByKind2
<1> QED
  BY <1>1, CommaFacts, Zenon DEF Comma

\* A comma left out.
LEMMA CommaPassed ==
  ASSUME NEW r, NEW t, NEW c \in Spots, NEW b \in Spots, NEW n \in Nat, Agrees(r, t, c, n),
         NEW i \in Items, i.do = "if", Brings(i, c, b), t # Comma
  PROVE  Agrees(r, t, b, n) /\ b.depth = c.depth
<1>1. /\ c.at = "operator" /\ c.next \cap Led = {} /\ Last(c.open) \in {"call", "array", "object"}
      /\ b = Spot(IF Last(c.open) = "object" THEN "key" ELSE "item", c.open, Alphabet, c.depth)
  BY BringsByKind2
<1>2. /\ b.at = (IF Last(c.open) = "object" THEN "key" ELSE "item") /\ b.open = c.open
      /\ b.next = Alphabet /\ b.depth = c.depth
  BY <1>1 DEF Spot
<1>3. PICK k \in Nat : k = n + 1
  OBVIOUS
<1>4. PICK at : at = IF Last(c.open) = "object" THEN "key" ELSE "start"
  OBVIOUS
<1>5. View(c, n) = Reader("operator", c.open, k)
  BY <1>1, <1>3, ViewWithin
<1>6. View(b, n) = Reader(at, c.open, k)
  <2>1. b.at # "item" \/ Last(b.open) # "program"
    BY <1>1, <1>2
  <2> QED
    BY <1>2, <1>3, <1>4, <2>1, ViewWithin
<1>7. t \in Alphabet /\ t \notin Led
  BY <1>1, SpotNumbers DEF Agrees
<1>8. Feed(View(c, n), t) = Feed(View(b, n), t)
  BY <1>1, <1>4, <1>5, <1>6, <1>7, NextItemSame, NextKeySame
<1> QED
  BY <1>2, <1>7, <1>8 DEF Agrees

\* A comma taken.
LEMMA CommaTaken ==
  ASSUME NEW r, NEW t, NEW c \in Spots, NEW b \in Spots, NEW n, Agrees(r, t, c, n),
         NEW i \in Items, i.do = "if", Brings(i, c, b), t = Comma
  PROVE  \E d \in Spots : /\ Carries(Production("comma"), d, b)
                          /\ Agrees(r, t, d, n) /\ d.depth = c.depth
<1>1. /\ c.at = "operator" /\ Within(c) /\ Last(c.open) \in {"call", "array", "object"}
      /\ b = Spot(IF Last(c.open) = "object" THEN "key" ELSE "item", c.open, Alphabet, c.depth)
  BY BringsByKind2
<1>2. /\ b.at = (IF Last(c.open) = "object" THEN "key" ELSE "item") /\ b.open = c.open
      /\ b.next = Alphabet /\ b.depth = c.depth
  BY <1>1 DEF Spot
<1>3. PICK at : at = IF Last(c.open) = "object" THEN "key" ELSE "start"
  OBVIOUS
<1>4. PICK d \in Spots : /\ Agrees(r, t, d, n) /\ d.at = c.at /\ d.open = c.open
                         /\ d.next = {t} /\ d.depth = c.depth
  <2>1. c.depth \in Nat
    BY SpotNumbers
  <2>2. PICK d \in Spots : Agrees(r, t, d, n) /\ Facing(d, t, c, c.depth)
    BY <2>1, FacingFound
  <2> QED
    BY <2>2 DEF Facing
<1>5. Within(d)
  BY <1>1, <1>4 DEF Within
<1>6. PICK j : j = Expect(Comma)
  OBVIOUS
<1>7. j \in Items /\ j.do = "expect" /\ j.any = {Comma} /\ Comma # "EOF"
  <2>1. Comma \in Tokens /\ Comma # "EOF"
    BY CommaFacts DEF Comma
  <2> QED
    BY <1>6, <2>1, ExpressionItems
<1>8. \A m \in Nat : Feed(View(d, m), t) = View(b, m)
  <2> SUFFICES ASSUME NEW m \in Nat
               PROVE  Feed(View(d, m), t) = View(b, m)
    OBVIOUS
  <2>1. PICK v : v = View(d, m)
    OBVIOUS
  <2>2. v.at = "operator" /\ v.open = c.open /\ v.statements = m + 1
    BY <1>1, <1>4, <2>1, ViewFacts
  <2>3. b.at # "item" \/ Last(b.open) # "program"
    BY <1>1, <1>2
  <2>4. View(b, m) = Reader(at, c.open, m + 1)
    BY <1>2, <1>3, <2>3, ViewWithin
  <2>5. Feed(v, t) = Reader(at, v.open, v.statements)
    BY <1>1, <1>3, <2>2, FeedsComma
  <2> QED
    BY <2>1, <2>2, <2>4, <2>5
<1>9. Carries(<<j>>, d, b)
  BY <1>2, <1>4, <1>5, <1>7, <1>8, CarryOpening
<1>10. Production("comma") = <<j>>
  BY <1>6, Zenon DEF Production, Comma
<1> QED
  BY <1>4, <1>9, <1>10

\* A statement more, while there are tokens.
LEMMA StatementsCarried ==
  ASSUME NEW r, NEW t, NEW c \in Spots, NEW b \in Spots, NEW n, Agrees(r, t, c, n),
         NEW i \in Items, i.do = "statements", Brings(i, c, b)
  PROVE  /\ i.close = "EOF" /\ c = Outset /\ b = Outset
         /\ t # "EOF" => \E d \in Spots : /\ Carries(<<Stmt, i>>, d, b)
                                          /\ Agrees(r, t, d, n) /\ d.depth = c.depth
<1>1. i.close = "EOF" /\ c = Outset /\ b = Outset
  BY BringsByKind
<1>2. ASSUME t # "EOF"
      PROVE  \E d \in Spots : /\ Carries(<<Stmt, i>>, d, b)
                              /\ Agrees(r, t, d, n) /\ d.depth = c.depth
  <2>1. PICK d \in Spots : /\ Agrees(r, t, d, n) /\ d.at = c.at /\ d.open = c.open
                           /\ d.next = {t} /\ d.depth = c.depth
    <3>1. c.depth \in Nat
      BY SpotNumbers
    <3>2. PICK d \in Spots : Agrees(r, t, d, n) /\ Facing(d, t, c, c.depth)
      BY <3>1, FacingFound
    <3> QED
      BY <3>2 DEF Facing
  <2>2. d.at = "item" /\ d.open = <<"program">> /\ d.depth = 1 /\ "EOF" \notin d.next
    BY <1>1, <1>2, <2>1, OutsetFacts
  <2>3. Stmt \in Items /\ Stmt.do = "stmt"
    BY DEF Stmt, Items
  <2>4. Brings(Stmt, d, Outset)
    BY <2>2, <2>3, BringsByKind
  <2>5. Carries(<<Stmt>>, d, Outset)
    BY <2>3, <2>4, OutsetFacts, CarryOne
  <2>6. Carries(<<i>>, Outset, b)
    BY <1>1, CarryOne
  <2> QED
    BY <2>1, <2>5, <2>6, Carry2
<1> QED
  BY <1>1, <1>2

\* No token of an expression begins another statement than one.
LEMMA StatementKind ==
  ASSUME NEW t \in Alphabet
  PROVE  stmt_lu(t) = <<Expr(defalt_bp)>>
<1>1. PICK K : K = {"import", "library", "contract", "let", "const", "if", "while", "for", "fn",
                    "return", "require", "agent", "policy", "type", "emit", "try", "tool",
                    "model", "behavior", "skills"}
  OBVIOUS
<1>2. K \ {"import", "library"} \subseteq Names /\ "id" \notin K
  BY <1>1 DEF Names, Keywords
<1>3. t \notin K
  <2>1. t \notin {"import", "library"}
    <3>1. {"import", "library"} \subseteq Keywords
      BY DEF Keywords
    <3>2. t \in {"id", "EOF", "!", ",", ":"} \/ t \in Brackets \/ t \in Led
      BY AlphabetFacts DEF Brackets, Opening, Closing
    <3> QED
      BY <3>1, <3>2, KeywordFacts
  <2> QED
    BY <1>2, <2>1, MemberNames
<1> QED
  BY <1>1, <1>3 DEF stmt_lu

\* A statement: its expression, read within a node of its own.
LEMMA StmtCarried ==
  ASSUME NEW r, NEW t, NEW c \in Spots, NEW b \in Spots, NEW n, Agrees(r, t, c, n),
         NEW i \in Items, i.do = "stmt", Brings(i, c, b)
  PROVE  \E d \in Spots : /\ Carries(stmt_lu(t) \o <<Done>>, d, b)
                          /\ Agrees(r, t, d, n) /\ d.depth = 2 /\ c.depth = 1
<1>1. /\ c.at = "item" /\ c.open = <<"program">> /\ "EOF" \notin c.next /\ c.depth = 1
      /\ b = Outset
  BY BringsByKind
<1>2. PICK d \in Spots : /\ Agrees(r, t, d, n) /\ d.at = c.at /\ d.open = c.open
                         /\ d.next = {t} /\ d.depth = 2
  <2>1. 2 \in Nat
    OBVIOUS
  <2>2. PICK d \in Spots : Agrees(r, t, d, n) /\ Facing(d, t, c, 2)
    BY <2>1, FacingFound
  <2> QED
    BY <2>2 DEF Facing
<1>3. t \in Alphabet /\ t # "EOF"
  BY <1>1, SpotNumbers DEF Agrees
<1>4. Opens(d) /\ Within(d)
  <2>1. Closer(Last(d.open)) = "EOF"
    <3>1. Closer("program") = "EOF"
      BY CloserFacts
    <3> QED
      BY <1>1, <1>2, <3>1, OutsetFacts
  <2> QED
    BY <1>1, <1>2, <1>3, <2>1 DEF Opens, Within
<1>5. PICK e : e = Spot("operator", d.open, UpTo(0), d.depth)
  OBVIOUS
<1>6. /\ e \in Spots /\ e.at = "operator" /\ e.open = d.open /\ e.next = UpTo(0)
      /\ e.depth = d.depth
  BY <1>5, SpotNumbers, AfterExpression
<1>7. Carries(<<Expr(defalt_bp)>>, d, e)
  BY <1>4, <1>5, CarryExpr DEF defalt_bp
<1>8. Done \in Items /\ Done.do = "done"
  BY ExpressionItems
<1>9. Brings(Done, e, b)
  BY <1>1, <1>2, <1>6, <1>8, LowestFacts, BringsByKind2
<1>10. Carries(<<Done>>, e, b)
  BY <1>6, <1>8, <1>9, CarryOne
<1>11. Carries(stmt_lu(t) \o <<Done>>, d, b)
  BY <1>3, <1>7, <1>10, StatementKind, CarryJoin
<1> QED
  BY <1>1, <1>2, <1>11

\* Nothing else is done while reading an expression.
LEMMA OtherCarried ==
  ASSUME NEW c, NEW b, NEW i, Brings(i, c, b)
  PROVE  i.do \in {"expect", "expr", "operators", "stmt", "statements", "until", "if", "node",
                   "done", "panic"}
BY BringsByKind2

-----------------------------------------------------------------------------
(* The nodes of the tree.                                                  *)

\* What a step on the last node leaves of the first one.
LEMMA TreePushed ==
  ASSUME NEW G, NEW nodes \in Seq(G), nodes # <<>>, NEW x
  PROVE  Len(Append(nodes, x)) = Len(nodes) + 1 /\ Append(nodes, x)[1] = nodes[1]
<1>1. PICK H : H = G \cup {x}
  OBVIOUS
<1>2. nodes \in Seq(H) /\ x \in H
  BY <1>1, SeqGrows
<1>3. 1 \in 1..Len(nodes)
  BY EmptySeq
<1> QED
  BY <1>2, <1>3, AppendedProperties

\* The innermost node changed: the number of nodes and the outermost stay.
LEMMA TreeRewritten ==
  ASSUME NEW G, NEW nodes \in Seq(G), Len(nodes) > 1, NEW e
  PROVE  LET kept == [nodes EXCEPT ![Len(nodes)] = e] IN
         /\ Len(kept) = Len(nodes) /\ kept[1] = nodes[1] /\ \E H : kept \in Seq(H)
         /\ kept # <<>>
<1>1. PICK H : H = G \cup {e}
  OBVIOUS
<1>2. nodes \in Seq(H) /\ e \in H /\ nodes # <<>>
  BY <1>1, SeqGrows, EmptySeq
<1>3. 1 \in 1..(Len(nodes) - 1)
  OBVIOUS
<1>4. PICK k : k = [nodes EXCEPT ![Len(nodes)] = e]
  OBVIOUS
<1>5. k \in Seq(H) /\ Len(k) = Len(nodes) /\ k[1] = nodes[1]
  BY <1>2, <1>3, <1>4, LastRewritten
<1>6. k # <<>>
  BY <1>5, EmptySeq
<1> QED
  BY <1>4, <1>5, <1>6

\* A child for the innermost node.
LEMMA TreeGiven ==
  ASSUME NEW G, NEW nodes \in Seq(G), Len(nodes) > 1, NEW x
  PROVE  Len(WithChild(nodes, x)) = Len(nodes) /\ WithChild(nodes, x)[1] = nodes[1]
<1>1. PICK e : e = [nodes[Len(nodes)] EXCEPT !.of = Append(@, x)]
  OBVIOUS
<1>2. WithChild(nodes, x) = [nodes EXCEPT ![Len(nodes)] = e]
  BY <1>1 DEF WithChild
<1> QED
  BY <1>2, TreeRewritten

\* The last child of the innermost node becomes the first of a new one.
LEMMA TreeWrapped ==
  ASSUME NEW G, NEW nodes \in Seq(G), Len(nodes) > 1, NEW x, NEW made,
         made = Append([nodes EXCEPT ![Len(nodes)].of = Front(@)], x)
  PROVE  Len(made) = Len(nodes) + 1 /\ made[1] = nodes[1]
<1>1. PICK e : e = [nodes[Len(nodes)] EXCEPT !.of = Front(@)]
  OBVIOUS
<1>2. PICK k : k = [nodes EXCEPT ![Len(nodes)] = e]
  OBVIOUS
<1>3. Len(k) = Len(nodes) /\ k[1] = nodes[1] /\ k # <<>>
  BY <1>2, TreeRewritten
<1>4. PICK H : k \in Seq(H)
  BY <1>2, TreeRewritten
<1>5. made = Append(k, x)
  BY <1>1, <1>2
<1> QED
  BY <1>3, <1>4, <1>5, TreePushed

\* The innermost node becomes a child: within a statement the program stays, and
\* at its end the program has one statement more.
LEMMA TreeClosed ==
  ASSUME NEW G, Forest(G), NEW nodes \in Seq(G), Len(nodes) > 1, NEW made,
         made = WithChild(Front(nodes), Last(nodes))
  PROVE  /\ Len(made) = Len(nodes) - 1
         /\ Len(nodes) > 2 => made[1] = nodes[1]
         /\ Len(nodes) = 2 => Len(made[1].of) = Len(nodes[1].of) + 1
<1>1. PICK f, n : f = Front(nodes) /\ n = Last(nodes)
  OBVIOUS
<1>2. nodes # <<>>
  BY EmptySeq
<1>3. f \in Seq(G) /\ Len(f) = Len(nodes) - 1 /\ \A i \in 1..(Len(nodes) - 1) : f[i] = nodes[i]
  BY <1>1, <1>2, FrontProperties
<1>4. f[1] = nodes[1]
  <2>1. 1 \in 1..(Len(nodes) - 1)
    OBVIOUS
  <2> QED
    BY <1>3, <2>1
<1>5. CASE Len(nodes) > 2
  <2>1. Len(f) > 1
    BY <1>3, <1>5
  <2>2. Len(WithChild(f, n)) = Len(f) /\ WithChild(f, n)[1] = f[1]
    BY <1>3, <2>1, TreeGiven
  <2> QED
    BY <1>1, <1>3, <1>4, <1>5, <2>2
<1>6. CASE Len(nodes) = 2
  <2>1. Len(f) = 1 /\ f # <<>>
    BY <1>3, <1>6, EmptySeq
  <2>2. PICK o : o = Open(f[1].op, Append(f[1].of, n))
    OBVIOUS
  <2>3. made = [f EXCEPT ![1] = o]
    BY <1>1, <1>3, <2>1, <2>2, ChildAdded
  <2>4. Len(made) = 1 /\ made[1] = o
    BY <1>3, <2>1, <2>3
  <2>5. o.of = Append(f[1].of, n)
    BY <2>2, OpenFacts
  <2>6. f[1].of \in Seq(G)
    <3>1. f[1] \in G
      BY <1>3, <2>1
    <3> QED
      BY <3>1 DEF Forest
  <2>7. Len(Append(f[1].of, n)) = Len(f[1].of) + 1
    BY <2>6
  <2> QED
    BY <1>3, <1>4, <1>6, <2>4, <2>5, <2>7
<1>7. Len(nodes) > 2 \/ Len(nodes) = 2
  <2>1. \A l \in Nat : l > 1 => l > 2 \/ l = 2
    OBVIOUS
  <2>2. Len(nodes) \in Nat
    OBVIOUS
  <2> QED
    BY <2>1, <2>2
<1> QED
  BY <1>5, <1>6, <1>7

\* The tree of the invariant.
LEMMA TreeHeld ==
  ASSUME ParserInv
  PROVE  \E G : Forest(G) /\ tree \in Seq(G) /\ tree # <<>>
<1>1. PICK x \in Places : Stands(x)
  BY DEF ParserInv
<1> QED
  BY <1>1 DEF Stands, Standing, Rooted

-----------------------------------------------------------------------------
(* Every step keeps the reader and the parser in agreement.                *)

\* Where the reader of expressions is.
SoFar == FoldLeft(Feed, AtStart, read)

\* The reader r before t, and the stack of nodes, are as at the spot c with n
\* statements complete.
Sits(r, t, nodes, c, n) ==
  Agrees(r, t, c, n) /\ Len(nodes) = c.depth /\ Len(nodes[1].of) = n

\* On expressions: what is left to do leads from the current spot to the outset, and
\* a parse that panicked did so where the reader stops.
Agreeing ==
  OnlyExpressions =>
    /\ rest = <<>>
    /\ \E c \in Spots, n \in Nat : Carries(todo, c, Outset) /\ Sits(SoFar, token, tree, c, n)
    /\ status = "panicked" => Feed(SoFar, token).at = "dead"

\* The next item, and where it brings the parse.
LEMMA HeadCarried ==
  ASSUME ParserInv, Agreeing, OnlyExpressions
  PROVE  /\ Head(todo) \in Items
         /\ \E c \in Spots, b \in Spots, n \in Nat :
              /\ Brings(Head(todo), c, b) /\ Carries(Tail(todo), b, Outset)
              /\ Agrees(SoFar, token, c, n) /\ Len(tree) = c.depth /\ Len(tree[1].of) = n
<1>1. PICK c \in Spots, n \in Nat : Carries(todo, c, Outset) /\ Sits(SoFar, token, tree, c, n)
  BY DEF Agreeing
<1>2. todo # <<>>
  BY DEF ParserInv, Bottom
<1>3. PICK b \in Spots : Brings(Head(todo), c, b) /\ Carries(Tail(todo), b, Outset)
  BY <1>1, <1>2, CarryCut
<1> QED
  BY <1>1, <1>3, HeadOf DEF Sits

\* A step that consumes nothing, from the spot it leads to.
LEMMA LookingCarried ==
  ASSUME Agreeing, OnlyExpressions, Looking, status = "parsing",
         NEW d \in Spots, NEW n \in Nat, Carries(todo', d, Outset), Agrees(SoFar, token, d, n),
         Len(tree') = d.depth, Len(tree'[1].of) = n
  PROVE  Agreeing'
<1>1. rest' = <<>> /\ SoFar' = SoFar /\ token' = token /\ status' = "parsing"
  BY DEF Looking, Agreeing, SoFar
<1>2. Sits(SoFar, token, tree', d, n)
  BY DEF Sits
<1>3. (\E c \in Spots, m \in Nat : Carries(todo, c, Outset) /\ Sits(SoFar, token, tree, c, m))'
  BY <1>1, <1>2
<1> QED
  BY <1>1, <1>3 DEF Agreeing

\* An item done leaves the rest.
LEMMA CarryDropped ==
  ASSUME NEW b \in Spots, NEW q, Carries(q, b, Outset)
  PROVE  Carries(<<>> \o q, b, Outset)
BY CarryNone, CarryJoin

\* parse_expr: the handler of the operand.
LEMMA ParseExprAgrees ==
  ASSUME ParserInv, Agreeing, OnlyExpressions, parse_expr
  PROVE  Agreeing'
<1>1. PICK i \in Items : i = Head(todo)
  BY HeadCarried
<1>2. PICK c \in Spots, b \in Spots, n \in Nat :
        /\ Brings(i, c, b) /\ Carries(Tail(todo), b, Outset)
        /\ Agrees(SoFar, token, c, n) /\ Len(tree) = c.depth /\ Len(tree[1].of) = n
  BY <1>1, HeadCarried
<1>3. /\ i.do = "expr" /\ status = "parsing" /\ Looking /\ tree' = tree
      /\ todo' = (nud_lu(token) \o <<Operators(i.bp)>>) \o Tail(todo)
  BY <1>1 DEF parse_expr, Does, Do
<1>4. PICK d \in Spots : /\ Carries(nud_lu(token) \o <<Operators(i.bp)>>, d, b)
                         /\ Agrees(SoFar, token, d, n) /\ d.depth = c.depth
  BY <1>2, <1>3, ExprCarried
<1>5. Carries(todo', d, Outset)
  BY <1>2, <1>3, <1>4, CarryJoin
<1> QED
  BY <1>2, <1>3, <1>4, <1>5, LookingCarried

\* parse_expr: the end of its loop.
LEMMA EndExpressionAgrees ==
  ASSUME ParserInv, Agreeing, OnlyExpressions, EndExpression
  PROVE  Agreeing'
<1>1. PICK i \in Items : i = Head(todo)
  BY HeadCarried
<1>2. PICK c \in Spots, b \in Spots, n \in Nat :
        /\ Brings(i, c, b) /\ Carries(Tail(todo), b, Outset)
        /\ Agrees(SoFar, token, c, n) /\ Len(tree) = c.depth /\ Len(tree[1].of) = n
  BY <1>1, HeadCarried
<1>3. /\ i.do = "operators" /\ status = "parsing" /\ Looking /\ tree' = tree
      /\ todo' = <<>> \o Tail(todo) /\ bp_lu(token) <= i.bp
  BY <1>1 DEF EndExpression, Does, Do
<1>4. Agrees(SoFar, token, b, n) /\ b.depth = c.depth
  BY <1>2, <1>3, OperatorsEnded
<1>5. Carries(todo', b, Outset)
  BY <1>2, <1>3, CarryDropped
<1> QED
  BY <1>2, <1>3, <1>4, <1>5, LookingCarried

\* parse_expr: a turn of its loop.
LEMMA ApplyOperatorAgrees ==
  ASSUME ParserInv, Agreeing, OnlyExpressions, ApplyOperator
  PROVE  Agreeing'
<1>1. PICK i \in Items : i = Head(todo)
  BY HeadCarried
<1>2. PICK c \in Spots, b \in Spots, n \in Nat :
        /\ Brings(i, c, b) /\ Carries(Tail(todo), b, Outset)
        /\ Agrees(SoFar, token, c, n) /\ Len(tree) = c.depth /\ Len(tree[1].of) = n
  BY <1>1, HeadCarried
<1>3. /\ i.do = "operators" /\ status = "parsing" /\ Looking /\ tree' = Wrapped(token)
      /\ todo' = (led_lu(token) \o <<Done, i>>) \o Tail(todo) /\ bp_lu(token) > i.bp
  BY <1>1 DEF ApplyOperator, Does, Do
<1>4. PICK d \in Spots : /\ Carries(led_lu(token) \o <<Done, i>>, d, b)
                         /\ Agrees(SoFar, token, d, n) /\ d.depth = c.depth + 1 /\ Within(c)
  BY <1>2, <1>3, OperatorsCarried
<1>5. Carries(todo', d, Outset)
  BY <1>2, <1>3, <1>4, CarryJoin
<1>6. Len(tree') = Len(tree) + 1 /\ tree'[1] = tree[1]
  <2>1. PICK G : Forest(G) /\ tree \in Seq(G) /\ tree # <<>>
    BY TreeHeld
  <2>2. Len(tree) > 1
    BY <1>2, <1>4 DEF Within
  <2>3. PICK made : made = Append([tree EXCEPT ![Len(tree)].of = Front(@)],
                                  Open(token, <<Last(Last(tree).of)>>))
    OBVIOUS
  <2>4. tree' = made
    BY <1>3, <2>3 DEF Wrapped
  <2> QED
    BY <2>1, <2>2, <2>3, <2>4, TreeWrapped
<1> QED
  BY <1>2, <1>3, <1>4, <1>5, <1>6, LookingCarried

\* A node begun.
LEMMA BeginNodeAgrees ==
  ASSUME ParserInv, Agreeing, OnlyExpressions, BeginNode
  PROVE  Agreeing'
<1>1. PICK i \in Items : i = Head(todo)
  BY HeadCarried
<1>2. PICK c \in Spots, b \in Spots, n \in Nat :
        /\ Brings(i, c, b) /\ Carries(Tail(todo), b, Outset)
        /\ Agrees(SoFar, token, c, n) /\ Len(tree) = c.depth /\ Len(tree[1].of) = n
  BY <1>1, HeadCarried
<1>3. /\ i.do = "node" /\ status = "parsing" /\ Looking /\ todo' = <<>> \o Tail(todo)
      /\ tree' = Append(tree, Open(i.op, <<>>))
  BY <1>1 DEF BeginNode, Does, Do
<1>4. Agrees(SoFar, token, b, n) /\ b.depth = c.depth + 1
  BY <1>2, <1>3, NodeCarried
<1>5. Carries(todo', b, Outset)
  BY <1>2, <1>3, CarryDropped
<1>6. Len(tree') = Len(tree) + 1 /\ tree'[1] = tree[1]
  BY <1>3, TreeHeld, TreePushed
<1> QED
  BY <1>2, <1>3, <1>4, <1>5, <1>6, LookingCarried

\* A node ended; when it is a statement, the reader has counted it.
LEMMA EndNodeAgrees ==
  ASSUME ParserInv, Agreeing, OnlyExpressions, EndNode
  PROVE  Agreeing'
<1>1. PICK i \in Items : i = Head(todo)
  BY HeadCarried
<1>2. PICK c \in Spots, b \in Spots, n \in Nat :
        /\ Brings(i, c, b) /\ Carries(Tail(todo), b, Outset)
        /\ Agrees(SoFar, token, c, n) /\ Len(tree) = c.depth /\ Len(tree[1].of) = n
  BY <1>1, HeadCarried
<1>3. /\ i.do = "done" /\ status = "parsing" /\ Looking /\ todo' = <<>> \o Tail(todo)
      /\ tree' = WithChild(Front(tree), Last(tree))
  BY <1>1 DEF EndNode, Does, Do, Closed
<1>4. \/ Within(b) /\ b.depth = c.depth - 1 /\ Agrees(SoFar, token, b, n)
      \/ b.depth = 1 /\ c.depth = 2 /\ Agrees(SoFar, token, b, n + 1)
  BY <1>2, <1>3, DoneCarried
<1>5. Carries(todo', b, Outset)
  BY <1>2, <1>3, CarryDropped
<1>6. PICK k \in Nat : k = Len(tree) /\ k = c.depth
  BY <1>2, SpotNumbers
<1>7. k > 1
  BY <1>4, <1>6, SpotNumbers DEF Within
<1>8. /\ Len(tree') = k - 1
      /\ k > 2 => tree'[1] = tree[1]
      /\ k = 2 => Len(tree'[1].of) = Len(tree[1].of) + 1
  <2>1. PICK made : made = WithChild(Front(tree), Last(tree))
    OBVIOUS
  <2>2. PICK G : Forest(G) /\ tree \in Seq(G)
    BY TreeHeld
  <2>3. /\ Len(made) = Len(tree) - 1
        /\ Len(tree) > 2 => made[1] = tree[1]
        /\ Len(tree) = 2 => Len(made[1].of) = Len(tree[1].of) + 1
    BY <1>6, <1>7, <2>1, <2>2, TreeClosed
  <2> QED
    BY <1>3, <1>6, <2>1, <2>3
<1>9. CASE Within(b) /\ b.depth = c.depth - 1 /\ Agrees(SoFar, token, b, n)
  <2>1. k > 2 /\ Len(tree') = b.depth
    BY <1>6, <1>8, <1>9 DEF Within
  <2>2. Len(tree'[1].of) = n
    BY <1>2, <1>8, <2>1
  <2> QED
    BY <1>3, <1>5, <1>9, <2>1, <2>2, LookingCarried
<1>10. CASE b.depth = 1 /\ c.depth = 2 /\ Agrees(SoFar, token, b, n + 1)
  <2>1. PICK m \in Nat : m = n + 1
    OBVIOUS
  <2>2. Len(tree') = b.depth /\ Len(tree'[1].of) = m
    BY <1>2, <1>6, <1>8, <1>10, <2>1
  <2>3. Agrees(SoFar, token, b, m)
    BY <1>10, <2>1
  <2> QED
    BY <1>3, <1>5, <2>2, <2>3, LookingCarried
<1> QED
  BY <1>4, <1>9, <1>10

\* parse_stmt: no keyword, hence an expression.
LEMMA ParseStmtAgrees ==
  ASSUME ParserInv, Agreeing, OnlyExpressions, parse_stmt
  PROVE  Agreeing'
<1>1. PICK i \in Items : i = Head(todo)
  BY HeadCarried
<1>2. PICK c \in Spots, b \in Spots, n \in Nat :
        /\ Brings(i, c, b) /\ Carries(Tail(todo), b, Outset)
        /\ Agrees(SoFar, token, c, n) /\ Len(tree) = c.depth /\ Len(tree[1].of) = n
  BY <1>1, HeadCarried
<1>3. /\ i.do = "stmt" /\ status = "parsing" /\ Looking
      /\ todo' = (stmt_lu(token) \o <<Done>>) \o Tail(todo)
      /\ tree' = Append(tree, Open("statement", <<>>))
  BY <1>1 DEF parse_stmt, Does, Do
<1>4. PICK d \in Spots : /\ Carries(stmt_lu(token) \o <<Done>>, d, b)
                         /\ Agrees(SoFar, token, d, n) /\ d.depth = 2 /\ c.depth = 1
  BY <1>2, <1>3, StmtCarried
<1>5. Carries(todo', d, Outset)
  BY <1>2, <1>3, <1>4, CarryJoin
<1>6. Len(tree') = Len(tree) + 1 /\ tree'[1] = tree[1]
  BY <1>3, TreeHeld, TreePushed
<1> QED
  BY <1>2, <1>3, <1>4, <1>5, <1>6, LookingCarried

\* The loop of Parse over the statements.
LEMMA StatementsAgree ==
  ASSUME ParserInv, Agreeing, OnlyExpressions, NextStatement \/ EndStatements
  PROVE  Agreeing'
<1>1. PICK i \in Items : i = Head(todo)
  BY HeadCarried
<1>2. PICK c \in Spots, b \in Spots, n \in Nat :
        /\ Brings(i, c, b) /\ Carries(Tail(todo), b, Outset)
        /\ Agrees(SoFar, token, c, n) /\ Len(tree) = c.depth /\ Len(tree[1].of) = n
  BY <1>1, HeadCarried
<1>3. /\ i.do = "statements" /\ status = "parsing" /\ Looking /\ tree' = tree
      /\ \/ token \notin {"EOF", i.close} /\ todo' = <<Stmt, i>> \o Tail(todo)
         \/ todo' = <<>> \o Tail(todo)
  BY <1>1 DEF NextStatement, EndStatements, Does, Do
<1>4. c = Outset /\ b = Outset
  BY <1>2, <1>3, StatementsCarried
<1>5. CASE token \notin {"EOF", i.close} /\ todo' = <<Stmt, i>> \o Tail(todo)
  <2>1. PICK d \in Spots : /\ Carries(<<Stmt, i>>, d, b)
                           /\ Agrees(SoFar, token, d, n) /\ d.depth = c.depth
    BY <1>2, <1>3, <1>5, StatementsCarried
  <2>2. Carries(todo', d, Outset)
    BY <1>2, <1>5, <2>1, CarryJoin
  <2> QED
    BY <1>2, <1>3, <2>1, <2>2, LookingCarried
<1>6. CASE todo' = <<>> \o Tail(todo)
  <2>1. Carries(todo', b, Outset)
    BY <1>2, <1>6, CarryDropped
  <2> QED
    BY <1>2, <1>3, <1>4, <2>1, LookingCarried
<1> QED
  BY <1>3, <1>5, <1>6

\* The loops over arguments, array items and properties.
LEMMA LoopsAgree ==
  ASSUME ParserInv, Agreeing, OnlyExpressions, Repeat \/ EndRepeat
  PROVE  Agreeing'
<1>1. PICK i \in Items : i = Head(todo)
  BY HeadCarried
<1>2. PICK c \in Spots, b \in Spots, n \in Nat :
        /\ Brings(i, c, b) /\ Carries(Tail(todo), b, Outset)
        /\ Agrees(SoFar, token, c, n) /\ Len(tree) = c.depth /\ Len(tree[1].of) = n
  BY <1>1, HeadCarried
<1>3. /\ i.do = "until" /\ status = "parsing" /\ Looking /\ tree' = tree
      /\ \/ token # i.close /\ todo' = (Production(i.body) \o <<i>>) \o Tail(todo)
         \/ token = i.close /\ todo' = <<>> \o Tail(todo)
  BY <1>1 DEF Repeat, EndRepeat, Does, Do
<1>4. CASE token # i.close /\ todo' = (Production(i.body) \o <<i>>) \o Tail(todo)
  <2>1. PICK d \in Spots : /\ Carries(Production(i.body) \o <<i>>, d, b)
                           /\ Agrees(SoFar, token, d, n) /\ d.depth = c.depth
    BY <1>2, <1>3, <1>4, RepeatCarried
  <2>2. Carries(todo', d, Outset)
    BY <1>2, <1>4, <2>1, CarryJoin
  <2> QED
    BY <1>2, <1>3, <2>1, <2>2, LookingCarried
<1>5. CASE token = i.close /\ todo' = <<>> \o Tail(todo)
  <2>1. Agrees(SoFar, token, b, n) /\ b.depth = c.depth
    BY <1>2, <1>3, <1>5, RepeatEnded
  <2>2. Carries(todo', b, Outset)
    BY <1>2, <1>5, CarryDropped
  <2> QED
    BY <1>2, <1>3, <2>1, <2>2, LookingCarried
<1> QED
  BY <1>3, <1>4, <1>5

\* A comma, taken or passed over.
LEMMA OptionalAgrees ==
  ASSUME ParserInv, Agreeing, OnlyExpressions, Optional
  PROVE  Agreeing'
<1>1. PICK i \in Items : i = Head(todo)
  BY HeadCarried
<1>2. PICK c \in Spots, b \in Spots, n \in Nat :
        /\ Brings(i, c, b) /\ Carries(Tail(todo), b, Outset)
        /\ Agrees(SoFar, token, c, n) /\ Len(tree) = c.depth /\ Len(tree[1].of) = n
  BY <1>1, HeadCarried
<1>3. /\ i.do = "if" /\ status = "parsing" /\ Looking /\ tree' = tree
      /\ todo' = (IF token = i.next THEN Production(i.body) ELSE <<>>) \o Tail(todo)
  BY <1>1 DEF Optional, Does, Do
<1>5. i.next = Comma /\ i.body = "comma"
  BY <1>2, <1>3, CommaOnly
<1>6. CASE token = Comma
  <2>1. PICK d \in Spots : /\ Carries(Production("comma"), d, b)
                           /\ Agrees(SoFar, token, d, n) /\ d.depth = c.depth
    BY <1>2, <1>3, <1>6, CommaTaken
  <2>2. Carries(todo', d, Outset)
    BY <1>2, <1>3, <1>5, <1>6, <2>1, CarryJoin
  <2> QED
    BY <1>2, <1>3, <2>1, <2>2, LookingCarried
<1>7. CASE token # Comma
  <2>1. Agrees(SoFar, token, b, n) /\ b.depth = c.depth
    BY <1>2, <1>3, <1>7, CommaPassed
  <2>2. Carries(todo', b, Outset)
    BY <1>2, <1>3, <1>5, <1>7, CarryDropped
  <2> QED
    BY <1>2, <1>3, <2>1, <2>2, LookingCarried
<1> QED
  BY <1>6, <1>7

\* After the tokens of an expression comes the end.
LEMMA EndingFacts ==
  ASSUME OnlyExpressions
  PROVE  /\ Head(Ending(input)) = "EOF" /\ Tail(Ending(input)) = <<>>
         /\ "EOF" \in Alphabet /\ input.tokens \subseteq Alphabet
<1>1. PICK e : e = "EOF"
  OBVIOUS
<1>2. Append(<<>>, e) = <<e>> /\ Head(<<e>>) = e /\ Tail(<<e>>) = <<>>
  OBVIOUS
<1>3. Ending(input) = <<e>>
  BY <1>1, <1>2 DEF Ending, OnlyExpressions
<1> QED
  BY <1>1, <1>2, <1>3 DEF OnlyExpressions, Alphabet

\* A token consumed brings the reader, and the parser, to the next one.
LEMMA AdvanceAgrees ==
  ASSUME ParserInv, OnlyExpressions, rest = <<>>, token \in Tokens, token # "EOF", advance(token)
  PROVE  SoFar' = Feed(SoFar, token) /\ token' \in Alphabet /\ rest' = <<>>
<1>1. read \in Seq(Tokens)
  BY DEF ParserInv, Types
<1>2. read' = Append(read, token) /\ NextToken
  BY DEF advance
<1>3. SoFar' = Feed(SoFar, token)
  BY <1>1, <1>2, FeedAfter DEF SoFar
<1>4. token' \in Alphabet /\ rest' = <<>>
  BY <1>2, EndingFacts DEF NextToken
<1> QED
  BY <1>3, <1>4

\* A token taken: the reader takes it too.
LEMMA ExpectAgrees ==
  ASSUME ParserInv, Agreeing, OnlyExpressions, expect
  PROVE  Agreeing'
<1>1. PICK i \in Items : i = Head(todo)
  BY HeadCarried
<1>2. PICK c \in Spots, b \in Spots, n \in Nat :
        /\ Brings(i, c, b) /\ Carries(Tail(todo), b, Outset)
        /\ Agrees(SoFar, token, c, n) /\ Len(tree) = c.depth /\ Len(tree[1].of) = n
  BY <1>1, HeadCarried
<1>3. /\ i.do = "expect" /\ status = "parsing" /\ Parsing /\ token \in i.any
      /\ todo' = <<>> \o Tail(todo)
      /\ advance(IF i.any = Tokens THEN "id" ELSE token)
      /\ tree' = IF i.keep THEN WithChild(tree, Leaf(token)) ELSE tree
  BY <1>1 DEF expect, Does, Do
<1>4. /\ "EOF" \notin i.any /\ Within(c) /\ b.depth = c.depth /\ b.next = Alphabet
      /\ Feed(SoFar, token) = View(b, n) /\ token # "EOF" /\ View(b, n).at # "dead"
  <2>1. PICK r, t : r = SoFar /\ t = token
    OBVIOUS
  <2>2. i.do = "expect" /\ t \in i.any /\ Agrees(r, t, c, n) /\ Brings(i, c, b)
    BY <1>2, <1>3, <2>1
  <2>3. /\ "EOF" \notin i.any /\ Within(c) /\ b.depth = c.depth /\ b.next = Alphabet
        /\ Feed(r, t) = View(b, n) /\ t # "EOF" /\ View(b, n).at # "dead"
    BY <2>2, ExpectCarried
  <2> QED
    BY <2>1, <2>3
<1>5. advance(token) /\ token \in Tokens
  <2>1. i.any # Tokens
    BY <1>4, TokenFacts1
  <2>2. token \in Alphabet /\ Alphabet \subseteq Tokens
    BY <1>2, SpotNumbers, AlphabetFacts DEF Agrees
  <2> QED
    BY <1>3, <2>1, <2>2
<1>6. SoFar' = Feed(SoFar, token) /\ token' \in Alphabet /\ rest' = <<>>
  BY <1>4, <1>5, AdvanceAgrees DEF Agreeing
<1>7. Len(tree') = b.depth /\ Len(tree'[1].of) = n
  <2>1. Len(tree) > 1
    BY <1>2, <1>4 DEF Within
  <2>2. PICK G : tree \in Seq(G)
    BY TreeHeld
  <2>3. PICK made : made = WithChild(tree, Leaf(token))
    OBVIOUS
  <2>4. Len(made) = Len(tree) /\ made[1] = tree[1]
    BY <2>1, <2>2, <2>3, TreeGiven
  <2> QED
    BY <1>2, <1>3, <1>4, <2>3, <2>4
<1>8. Agrees(SoFar, token, b, n)'
  <2>1. SoFar' = View(b, n) /\ token' \in b.next
    BY <1>4, <1>6
  <2> QED
    BY <1>4, <2>1 DEF Agrees
<1>9. Carries(todo', b, Outset)
  BY <1>2, <1>3, CarryDropped
<1>10. (\E d \in Spots, m \in Nat : Carries(todo, d, Outset) /\ Sits(SoFar, token, tree, d, m))'
  BY <1>7, <1>8, <1>9 DEF Sits
<1>11. status' = "parsing"
  BY <1>3 DEF Parsing
<1> QED
  BY <1>6, <1>10, <1>11 DEF Agreeing

\* A parse that panics does so where the reader stops.
LEMMA PanicAgrees ==
  ASSUME ParserInv, Agreeing, OnlyExpressions, Panic
  PROVE  Agreeing'
<1>1. PICK i \in Items : i = Head(todo)
  BY HeadCarried
<1>2. PICK c \in Spots, b \in Spots, n \in Nat :
        /\ Brings(i, c, b) /\ Carries(Tail(todo), b, Outset)
        /\ Agrees(SoFar, token, c, n) /\ Len(tree) = c.depth /\ Len(tree[1].of) = n
  BY <1>1, HeadCarried
<1>3. PICK t : t = token
  OBVIOUS
<1>4. t \in Alphabet /\ t # "none"
  <2>1. t \in Alphabet
    BY <1>2, <1>3, SpotNumbers DEF Agrees
  <2> QED
    BY <2>1, AlphabetFacts, TokenFacts6
<1>5. \/ i.do = "expect" /\ token \notin i.any
      \/ i.do \in {"field", "action_field", "build_tool_action", "panic"}
  BY <1>1, <1>3, <1>4 DEF Panic, Refused
<1>6. i.do \notin {"field", "action_field", "build_tool_action"}
  BY <1>2, OtherCarried
<1>7. Feed(SoFar, token).at = "dead"
  <2>1. CASE i.do = "expect" /\ token \notin i.any
    BY <1>2, <2>1, ExpectRefused
  <2>2. CASE i.do = "panic"
    BY <1>2, <2>2, PanicCarried
  <2> QED
    BY <1>5, <1>6, <2>1, <2>2
<1>8. /\ rest' = rest /\ SoFar' = SoFar /\ todo' = todo /\ token' = token /\ tree' = tree
      /\ input' = input
  BY DEF Panic, SoFar
<1>9. (\E d \in Spots, m \in Nat : Carries(todo, d, Outset) /\ Sits(SoFar, token, tree, d, m))'
  BY <1>8 DEF Agreeing
<1> QED
  BY <1>7, <1>8, <1>9 DEF Agreeing

\* A step that changes at most the status, and does not panic.
LEMMA StillAgrees ==
  ASSUME Agreeing, OnlyExpressions, UNCHANGED <<rest, token, read, todo, tree>>,
         status' = status \/ status' # "panicked"
  PROVE  Agreeing'
<1>1. rest' = rest /\ SoFar' = SoFar /\ todo' = todo /\ token' = token /\ tree' = tree
  BY DEF SoFar
<1>2. (\E d \in Spots, m \in Nat : Carries(todo, d, Outset) /\ Sits(SoFar, token, tree, d, m))'
  BY <1>1 DEF Agreeing
<1>3. (status = "panicked" => Feed(SoFar, token).at = "dead")'
  BY <1>1 DEF Agreeing
<1> QED
  BY <1>1, <1>2, <1>3 DEF Agreeing

\* No other handler is ever under way.
LEMMA OthersNever ==
  ASSUME ParserInv, Agreeing, OnlyExpressions
  PROVE  ~(\/ parse_type \/ ParseElse \/ ParseElseBody \/ ParseReturnValue
           \/ ParseAgentItem \/ ParseField \/ ParseActionField \/ ParseActionValue
           \/ BuildToolAction)
<1>1. Head(todo).do \in {"expect", "expr", "operators", "stmt", "statements", "until", "if", "node",
                         "done", "panic"}
  BY HeadCarried, OtherCarried
<1> QED
  BY <1>1 DEF parse_type, ParseElse, ParseElseBody, ParseReturnValue, ParseAgentItem, ParseField,
              ParseActionField, ParseActionValue, BuildToolAction, Does

\* Every step keeps the agreement.
LEMMA AgreeingKept ==
  ASSUME ParserInv, Agreeing, [Next]_vars
  PROVE  Agreeing'
<1>1. input' = input
  BY DEF Next, vars, expect, BeginNode, EndNode, parse_expr, ApplyOperator, EndExpression,
         parse_stmt, parse_type, NextStatement, EndStatements, Repeat, EndRepeat, Optional,
         ParseElse, ParseElseBody, ParseReturnValue, ParseAgentItem, ParseField, ParseActionField,
         ParseActionValue, BuildToolAction, Panic, Finish, Looking, Parsing
<1>2. CASE ~OnlyExpressions
  <2>1. ~OnlyExpressions'
    BY <1>1, <1>2 DEF OnlyExpressions
  <2> QED
    BY <2>1 DEF Agreeing
<1>3. CASE OnlyExpressions
  <2>1. CASE Finish
    <3>1. UNCHANGED <<rest, token, read, todo, tree>> /\ status' # "panicked"
      BY <2>1 DEF Finish
    <3> QED
      BY <1>3, <3>1, StillAgrees
  <2>2. CASE UNCHANGED vars
    <3>1. UNCHANGED <<rest, token, read, todo, tree>> /\ status' = status
      BY <2>2 DEF vars
    <3> QED
      BY <1>3, <3>1, StillAgrees
  <2>3. CASE Next /\ ~Finish
    BY <1>3, <2>3, ExpectAgrees, BeginNodeAgrees, EndNodeAgrees, ParseExprAgrees,
       ApplyOperatorAgrees, EndExpressionAgrees, ParseStmtAgrees, StatementsAgree, LoopsAgree,
       OptionalAgrees, PanicAgrees, OthersNever DEF Next
  <2> QED
    BY <2>1, <2>2, <2>3
<1> QED
  BY <1>2, <1>3

\* On expressions the first token is one of them, or the end, and nothing follows it yet.
LEMMA FirstToken ==
  ASSUME Init, OnlyExpressions
  PROVE  token \in Alphabet /\ rest = <<>>
<1>1. PICK e : e = Ending(input)
  OBVIOUS
<1>2. Head(e) \in Alphabet /\ Tail(e) = <<>> /\ e # <<>>
  <2>1. Head(e) = "EOF" /\ Tail(e) = <<>> /\ "EOF" \in Alphabet
    BY <1>1, EndingFacts
  <2>2. e # <<>>
    <3>1. input.after = <<>>
      BY DEF OnlyExpressions
    <3> QED
      BY <1>1, <3>1 DEF Ending
  <2> QED
    BY <2>1, <2>2
<1>3. CASE input.most = 0
  <2>1. PICK first : first = input.given \o (IF input.most = 0 THEN Ending(input) ELSE <<>>)
    OBVIOUS
  <2>2. first = e
    <3>1. e \in Seq(Alphabet)
      <4>1. PICK x \in Alphabet : x = "EOF"
        BY EndingFacts
      <4>2. e = Append(<<>>, x)
        BY <1>1, <4>1 DEF Ending, OnlyExpressions
      <4> QED
        BY <4>2
    <3>2. first = <<>> \o e
      BY <1>1, <1>3, <2>1 DEF OnlyExpressions
    <3> QED
      BY <3>1, <3>2
  <2>3. token = Head(first) /\ rest = Tail(first)
    BY <1>2, <2>1, <2>2 DEF Init
  <2> QED
    BY <1>2, <2>2, <2>3
<1>4. CASE input.most # 0
  <2>1. PICK first : first = input.given \o (IF input.most = 0 THEN Ending(input) ELSE <<>>)
    OBVIOUS
  <2>2. first = <<>>
    <3>1. first = <<>> \o <<>>
      BY <1>4, <2>1 DEF OnlyExpressions
    <3> QED
      BY <3>1
  <2>3. \/ token \in input.tokens /\ rest = <<>>
        \/ token = Head(e) /\ rest = Tail(e)
    BY <1>1, <2>1, <2>2 DEF Init
  <2> QED
    BY <1>2, <2>3, EndingFacts
<1> QED
  BY <1>3, <1>4

\* Both are at their start.
LEMMA AgreeingInitially ==
  ASSUME Init
  PROVE  Agreeing
<1> SUFFICES ASSUME OnlyExpressions
             PROVE  /\ rest = <<>>
                    /\ \E c \in Spots, n \in Nat :
                         Carries(todo, c, Outset) /\ Sits(SoFar, token, tree, c, n)
                    /\ status = "panicked" => Feed(SoFar, token).at = "dead"
  BY DEF Agreeing
<1>1. token \in Alphabet /\ rest = <<>>
  BY FirstToken
<1>2. /\ read = <<>> /\ todo = <<Statements("EOF")>> /\ tree = <<Open("program", <<>>)>>
      /\ status = "parsing"
  BY DEF Init
<1>3. PICK i : i = Statements("EOF")
  OBVIOUS
<1>4. i \in Items /\ i.do = "statements" /\ i.close = "EOF"
  BY <1>3, TokenFacts1 DEF Statements, Items
<1>5. Carries(todo, Outset, Outset)
  <2>1. Brings(i, Outset, Outset)
    BY <1>4, BringsByKind
  <2> QED
    BY <1>2, <1>3, <1>4, <2>1, OutsetFacts, CarryOne
<1>6. SoFar = AtStart
  <2>1. <<>> \in Seq(Tokens) /\ "EOF" \in Tokens
    BY TokenFacts1
  <2>2. FoldLeft(Feed, AtStart, <<>>) = AtStart
    BY <2>1, FeedAfter
  <2> QED
    BY <1>2, <2>2 DEF SoFar
<1>7. View(Outset, 0) = AtStart
  <2>1. PICK c : c = Outset
    OBVIOUS
  <2>2. c.at = "item" /\ c.open = <<"program">> /\ Last(c.open) = "program"
    BY <2>1, OutsetFacts
  <2>3. View(c, 0) = Reader("start", c.open, 0)
    BY <2>2 DEF View
  <2> QED
    BY <2>1, <2>2, <2>3 DEF AtStart
<1>8. Agrees(SoFar, token, Outset, 0)
  <2>1. AtStart.at # "dead"
    BY ReaderFacts DEF AtStart
  <2> QED
    BY <1>1, <1>6, <1>7, <2>1, OutsetFacts DEF Agrees
<1>9. Len(tree) = 1 /\ Len(tree[1].of) = 0
  <2>1. PICK n : n = Open("program", <<>>)
    OBVIOUS
  <2>2. n.of = <<>>
    BY <2>1, OpenFacts
  <2>3. tree = <<n>>
    BY <1>2, <2>1
  <2>4. Len(tree) = 1 /\ tree[1] = n
    BY <2>3
  <2> QED
    BY <2>2, <2>4
<1>10. Sits(SoFar, token, tree, Outset, 0)
  BY <1>8, <1>9, OutsetFacts DEF Sits
<1>11. 0 \in Nat
  OBVIOUS
<1> QED
  BY <1>1, <1>2, <1>5, <1>10, <1>11, OutsetFacts

\* In agreement, the parser accepts what the reader accepts.
LEMMA AgreeingAccepts ==
  ASSUME ParserInv, Agreeing
  PROVE  AcceptsExpressions
<1> SUFFICES ASSUME OnlyExpressions
             PROVE  /\ status = "parsing" => SoFar.at # "dead"
                    /\ status = "panicked" => Feed(SoFar, token).at = "dead"
                    /\ status = "parsed" => /\ Feed(SoFar, token).at = "end"
                                            /\ Feed(SoFar, token).statements = Len(tree[1].of)
  BY DEF AcceptsExpressions, SoFar
<1>1. PICK i \in Items : i = Head(todo)
  BY HeadCarried
<1>2. PICK c \in Spots, b \in Spots, n \in Nat :
        /\ Brings(i, c, b) /\ Carries(Tail(todo), b, Outset)
        /\ Agrees(SoFar, token, c, n) /\ Len(tree) = c.depth /\ Len(tree[1].of) = n
  BY <1>1, HeadCarried
<1>3. SoFar.at # "dead"
  BY <1>2 DEF Agrees
<1>4. status = "panicked" => Feed(SoFar, token).at = "dead"
  BY DEF Agreeing
<1>5. ASSUME status = "parsed"
      PROVE  Feed(SoFar, token).at = "end" /\ Feed(SoFar, token).statements = n
  <2>1. Len(todo) = 1 /\ token = "EOF" /\ todo \in Seq(Items) /\ todo[1] = Statements("EOF")
    BY <1>5 DEF ParserInv, Bottom
  <2>2. i.do = "statements"
    <3>1. i = Statements("EOF")
      BY <1>1, <2>1
    <3> QED
      BY <3>1 DEF Statements
  <2>3. c = Outset
    <3>1. Brings(i, c, b)
      BY <1>2
    <3>2. Brings(i, c, b) <=> i.close = "EOF" /\ c = Outset /\ b = Outset
      BY <2>2, BringsByKind
    <3> QED
      BY <3>1, <3>2
  <2>4. PICK s : s = View(c, n)
    OBVIOUS
  <2>5. s.at = "start" /\ s.statements = n /\ Last(s.open) = "program"
    <3>1. c.at = "item" /\ Last(c.open) = "program"
      BY <2>3, OutsetFacts
    <3> QED
      BY <2>4, <3>1, ViewFacts
  <2>6. token = Closer(Last(s.open))
    <3>1. Closer("program") = "EOF"
      BY CloserFacts
    <3> QED
      BY <2>1, <2>5, <3>1
  <2>7. Feed(s, token) = Reader("end", s.open, s.statements)
    BY <2>5, <2>6, FeedCloses
  <2>8. Feed(SoFar, token) = Feed(s, token)
    BY <1>2, <2>4 DEF Agrees
  <2> QED
    BY <2>5, <2>7, <2>8, ReaderFacts
<1> QED
  BY <1>2, <1>3, <1>4, <1>5

\* Whatever expressions are written, however long and however deep, the parser
\* accepts exactly what the reader accepts, with as many statements, and panics at
\* the token where the reader stops: the handlers of operands and operators.
THEOREM ExpressionsAccepted == Spec => []AcceptsExpressions
<1>1. Init => ParserInv /\ Agreeing
  BY ParserInvInitially, AgreeingInitially
<1>2. (ParserInv /\ Agreeing) /\ [Next]_vars => (ParserInv /\ Agreeing)'
  BY ParserInvKept, AgreeingKept
<1>3. ParserInv /\ Agreeing => AcceptsExpressions
  BY AgreeingAccepts
<1> QED
  BY <1>1, <1>2, <1>3, PTL DEF Spec
=============================================================================
