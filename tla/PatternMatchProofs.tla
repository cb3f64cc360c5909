------------------------- MODULE PatternMatchProofs -------------------------
(***************************************************************************)
(* Proofs about PatternMatch: the matcher stays within its strings, its    *)
(* scan ends, the scan decides exactly what the elements accept, and the   *)
(* whole implements Decision: a call is answered by what its pattern       *)
(* means, in a plain pattern and in an ARN, in documents of every version. *)
(***************************************************************************)
EXTENDS PatternMatch, SequenceTheorems, FiniteSetTheorems, NaturalsInduction,
        FunctionTheorems, WellFoundedInduction, TLAPS

(* The bytes of a string: the provers do not know that a literal is one.   *)
Special == {"*", "?", "$", "{", "}", ":", "\\"}
Byte == STRING \cup Special
Text == Seq(Byte)
Elements == [char : Byte, meta : BOOLEAN]
Pairs == [pattern : Text, value : Text]

----------------------------------------------------------------------------
(* Recursion over the positions of a string.  A set of naturals that is    *)
(* not empty has a least element.                                          *)
LEMMA Least ==
    ASSUME NEW T \in SUBSET Nat, T # {}
    PROVE  \E n \in T : \A m \in T : n <= m
<1>1. \E n \in T : \A m \in T : ~(<< m, n >> \in OpToRel(<, Nat))
  BY NatLessThanWellFounded, WFMin
<1>2. \A m, n \in Nat : m < n => << m, n >> \in OpToRel(<, Nat)
  BY DEF OpToRel
<1>3. PICK n \in T : \A m \in T : ~(<< m, n >> \in OpToRel(<, Nat))
  BY <1>1
<1>4. ASSUME NEW m \in T
      PROVE  n <= m
  <2>1. m \in Nat /\ n \in Nat /\ ~(m < n)
    BY <1>2, <1>3
  <2>. QED  BY <2>1
<1>. QED  BY <1>4

(* Induction from the end of a string to its beginning.                    *)
LEMMA Downward ==
    ASSUME NEW L \in Nat, NEW P,
           \A i \in 1 .. L : (\A j \in i + 1 .. L : j \in P) => i \in P
    PROVE  \A i \in 1 .. L : i \in P
<1>. DEFINE Bad == { n \in 0 .. L : L - n \in 1 .. L /\ L - n \notin P }
<1>1. ASSUME Bad # {}
      PROVE  FALSE
  <2>1. PICK n \in Bad : \A m \in Bad : n <= m
    <3>1. \A m \in Bad : m \in Nat
      OBVIOUS
    <3>. HIDE DEF Bad
    <3>. QED  BY <1>1, <3>1, Least
  <2>2. n \in 0 .. L /\ L - n \in 1 .. L /\ L - n \notin P
    OBVIOUS
  <2>3. ASSUME NEW j \in (L - n) + 1 .. L
        PROVE  j \in P
    <3>1. L - j \in 0 .. L /\ L - (L - j) = j /\ ~(n <= L - j) /\ j \in 1 .. L
      BY <2>2
    <3>2. L - j \notin Bad
      <4>. HIDE DEF Bad
      <4>. QED  BY <2>1, <3>1
    <3>. QED  BY <3>1, <3>2
  <2>. QED  BY <2>2, <2>3
<1>2. ASSUME NEW i \in 1 .. L
      PROVE  i \in P
  <2>1. L - i \in 0 .. L /\ L - (L - i) = i
    OBVIOUS
  <2>. QED  BY <1>1, <2>1
<1>. QED  BY <1>2

(* A recursion that looks ahead of where it stands, over L positions.      *)
Ahead(next, L) ==
    /\ L \in Nat /\ next \in [1 .. L -> 1 .. (L + 1)]
    /\ \A i \in 1 .. L : next[i] > i

Recurses(f, L, V, base, next, step) ==
    /\ f \in [1 .. (L + 1) -> V] /\ f[L + 1] = base
    /\ \A i \in 1 .. L : f[i] = step[i][f[next[i]]]

Joins(f, L, next, piece) ==
    /\ f[L + 1] = << >>
    /\ \A i \in 1 .. L : f[i] = piece[i] \o f[next[i]]

(* A definition by recursion towards the end of a string defines a         *)
(* function: the case of every scanner of variables.go and match.go.       *)
LEMMA Recursion ==
    ASSUME NEW L, NEW V, NEW base \in V, NEW next, Ahead(next, L),
           NEW step \in [1 .. L -> [V -> V]]
    PROVE  \E f : Recurses(f, L, V, base, next, step)
<1>0. /\ L \in Nat /\ next \in [1 .. L -> 1 .. (L + 1)]
      /\ \A i \in 1 .. L : next[i] > i
  BY DEF Ahead
<1>. DEFINE Good(n) == \E f \in [1 .. (L + 1) -> V] :
                          /\ f[L + 1] = base
                          /\ \A i \in 1 .. L : i > n => f[i] = step[i][f[next[i]]]
            G == { n \in 0 .. L : Good(n) }
<1>1. L \in G
  <2>0. L \in Nat
    BY <1>0
  <2>1. [i \in 1 .. (L + 1) |-> base] \in [1 .. (L + 1) -> V]
    OBVIOUS
  <2>2. \A i \in 1 .. L : ~(i > L)
    BY <2>0
  <2>3. [i \in 1 .. (L + 1) |-> base][L + 1] = base
    BY <2>0
  <2>4. Good(L)
    BY <2>1, <2>2, <2>3
  <2>5. L \in 0 .. L
    BY <2>0
  <2>. HIDE DEF Good
  <2>. QED  BY <2>4, <2>5
<1>2. PICK n \in G : \A m \in G : n <= m
  <2>1. G \in SUBSET Nat /\ G # {}
    <3>. HIDE DEF Good
    <3>. QED  BY <1>0, <1>1
  <2>. HIDE DEF G
  <2>. QED  BY <2>1, Least
<1>3. n \in 0 .. L /\ Good(n)
  <2>. HIDE DEF Good
  <2>. QED  OBVIOUS
<1>4. ASSUME n # 0
      PROVE  FALSE
  <2>1. PICK f \in [1 .. (L + 1) -> V] :
           /\ f[L + 1] = base
           /\ \A i \in 1 .. L : i > n => f[i] = step[i][f[next[i]]]
    BY <1>3
  <2>2. n \in 1 .. L /\ n - 1 \in 0 .. L /\ n # L + 1
    BY <1>0, <1>3, <1>4
  <2>. DEFINE g == [f EXCEPT ![n] = step[n][f[next[n]]]]
  <2>3. next[n] \in 1 .. (L + 1) /\ next[n] # n
    BY <1>0, <2>2
  <2>4. step[n][f[next[n]]] \in V
    BY <2>2, <2>3
  <2>5. g \in [1 .. (L + 1) -> V] /\ g[n] = step[n][f[next[n]]]
    BY <1>0, <2>2, <2>4
  <2>6. \A i \in 1 .. (L + 1) : i # n => g[i] = f[i]
    OBVIOUS
  <2>. HIDE DEF g
  <2>7. g[L + 1] = base
    BY <1>0, <2>1, <2>2, <2>6
  <2>8. ASSUME NEW i \in 1 .. L, i > n - 1
        PROVE  g[i] = step[i][g[next[i]]]
    <3>1. next[i] \in 1 .. (L + 1) /\ next[i] > i /\ i >= n
      BY <1>0, <2>2, <2>8
    <3>2. g[next[i]] = f[next[i]]
      BY <1>0, <2>2, <2>6, <3>1
    <3>3. CASE i = n
      BY <2>5, <3>2, <3>3
    <3>4. CASE i # n
      BY <1>0, <2>1, <2>2, <2>6, <3>1, <3>2, <3>4
    <3>. QED  BY <3>3, <3>4
  <2>9. Good(n - 1)
    BY <2>5, <2>7, <2>8
  <2>. HIDE DEF Good
  <2>10. n - 1 \in G
    BY <2>2, <2>9
  <2>. HIDE DEF G
  <2>11. n <= n - 1
    BY <1>2, <2>10
  <2>. QED  BY <2>2, <2>11
<1>5. Good(0)
  BY <1>3, <1>4
<1>6. PICK f \in [1 .. (L + 1) -> V] :
         /\ f[L + 1] = base
         /\ \A i \in 1 .. L : i > 0 => f[i] = step[i][f[next[i]]]
  BY <1>5
<1>7. \A i \in 1 .. L : i > 0
  BY <1>0
<1>8. Recurses(f, L, V, base, next, step)
  BY <1>6, <1>7 DEF Recurses
<1>. QED  BY <1>8

(* The functions that put a string together piece by piece exist,          *)
(* whatever the pieces are.                                                *)
LEMMA Pieces ==
    ASSUME NEW L, NEW next, Ahead(next, L), NEW piece
    PROVE  \E f : f = [i \in 1 .. (L + 1) |-> f[i]] /\ Joins(f, L, next, piece)
<1>0. /\ L \in Nat /\ next \in [1 .. L -> 1 .. (L + 1)]
      /\ \A i \in 1 .. L : next[i] > i
  BY DEF Ahead
<1>. DEFINE From(f, n) == /\ f = [i \in 1 .. (L + 1) |-> f[i]] /\ f[L + 1] = << >>
                          /\ \A i \in 1 .. L : i > n => f[i] = piece[i] \o f[next[i]]
            Good(n) == \E f : From(f, n)
            G == { n \in 0 .. L : Good(n) }
<1>1. L \in G
  <2>. DEFINE f == [i \in 1 .. (L + 1) |-> << >>]
  <2>1. f[L + 1] = << >> /\ f = [i \in 1 .. (L + 1) |-> f[i]]
    BY <1>0
  <2>2. \A i \in 1 .. L : ~(i > L)
    BY <1>0
  <2>. HIDE DEF f
  <2>3. Good(L)
    BY <2>1, <2>2
  <2>4. L \in 0 .. L
    BY <1>0
  <2>. HIDE DEF Good
  <2>. QED  BY <2>3, <2>4
<1>2. PICK n \in G : \A m \in G : n <= m
  <2>1. \A m \in G : m \in Nat
    <3>. HIDE DEF Good
    <3>. QED  BY <1>0
  <2>. HIDE DEF G
  <2>. QED  BY <1>1, <2>1, Least
<1>3. n \in 0 .. L /\ Good(n)
  <2>. HIDE DEF Good
  <2>. QED  OBVIOUS
<1>4. ASSUME n # 0
      PROVE  FALSE
  <2>1. PICK f : From(f, n)
    BY <1>3
  <2>2. n \in 1 .. L /\ n - 1 \in 0 .. L /\ n # L + 1
    BY <1>0, <1>3, <1>4
  <2>. DEFINE g == [i \in 1 .. (L + 1) |-> IF i = n THEN piece[n] \o f[next[n]] ELSE f[i]]
  <2>3. g = [i \in 1 .. (L + 1) |-> g[i]]
    OBVIOUS
  <2>4. n \in 1 .. (L + 1) /\ L + 1 \in 1 .. (L + 1)
    BY <1>0, <2>2
  <2>5. g[n] = piece[n] \o f[next[n]] /\ \A i \in 1 .. (L + 1) : i # n => g[i] = f[i]
    BY <2>4
  <2>. HIDE DEF g
  <2>6. g[L + 1] = << >>
    BY <2>1, <2>2, <2>4, <2>5
  <2>7. ASSUME NEW i \in 1 .. L, i > n - 1
        PROVE  g[i] = piece[i] \o g[next[i]]
    <3>1. next[i] \in 1 .. (L + 1) /\ next[i] > i /\ i >= n /\ i \in 1 .. (L + 1)
      BY <1>0, <2>2, <2>7
    <3>2. g[next[i]] = f[next[i]]
      BY <1>0, <2>2, <2>5, <3>1
    <3>3. CASE i = n
      BY <2>5, <3>2, <3>3
    <3>4. CASE i # n
      <4>1. i > n
        BY <1>0, <2>2, <3>1, <3>4
      <4>. QED  BY <2>1, <2>5, <3>1, <3>2, <3>4, <4>1
    <3>. QED  BY <3>3, <3>4
  <2>8. Good(n - 1)
    BY <2>3, <2>6, <2>7
  <2>. HIDE DEF Good
  <2>9. n - 1 \in G
    BY <2>2, <2>8
  <2>. HIDE DEF G
  <2>10. n <= n - 1
    BY <1>2, <2>9
  <2>. QED  BY <2>2, <2>10
<1>5. PICK f : From(f, 0)
  BY <1>3, <1>4
<1>6. \A i \in 1 .. L : i > 0
  BY <1>0
<1>7. Joins(f, L, next, piece)
  BY <1>5, <1>6 DEF Joins
<1>. QED  BY <1>5, <1>7

(* They put together sequences of S where the pieces are some, and depend  *)
(* only on what lies ahead.                                                *)
LEMMA PiecesType ==
    ASSUME NEW L, NEW S, NEW next, Ahead(next, L), NEW piece \in [1 .. L -> Seq(S)],
           NEW f, Joins(f, L, next, piece)
    PROVE  \A i \in 1 .. (L + 1) : f[i] \in Seq(S)
<1>. DEFINE V == Seq(S)
            P == { i \in 1 .. (L + 1) : f[i] \in V }
<1>0. /\ L \in Nat /\ next \in [1 .. L -> 1 .. (L + 1)]
      /\ \A i \in 1 .. L : next[i] > i
  BY DEF Ahead
<1>1. f[L + 1] = << >> /\ \A i \in 1 .. L : f[i] = piece[i] \o f[next[i]]
  BY DEF Joins
<1>2. << >> \in V /\ \A x, y \in V : x \o y \in V
  BY EmptySeq, ConcatProperties
<1>3. piece \in [1 .. L -> V]
  OBVIOUS
<1>. HIDE DEF V
<1>4. ASSUME NEW i \in 1 .. (L + 1), \A j \in i + 1 .. (L + 1) : j \in P
      PROVE  i \in P
  <2>1. CASE i = L + 1
    BY <1>1, <1>2, <2>1
  <2>2. CASE i # L + 1
    <3>1. i \in 1 .. L
      BY <1>0, <2>2
    <3>2. next[i] \in i + 1 .. (L + 1)
      BY <1>0, <3>1
    <3>3. f[next[i]] \in V
      BY <1>4, <3>2
    <3>. QED  BY <1>1, <1>2, <1>3, <3>1, <3>3
  <2>. QED  BY <2>1, <2>2
<1>5. \A i \in 1 .. (L + 1) : i \in P
  <2>. DEFINE M == L + 1
  <2>1. M \in Nat
    BY <1>0
  <2>2. \A i \in 1 .. M : (\A j \in i + 1 .. M : j \in P) => i \in P
    BY <1>4
  <2>. HIDE DEF M, P
  <2>3. \A i \in 1 .. M : i \in P
    BY <2>1, <2>2, Downward
  <2>. QED  BY <2>3 DEF M
<1>. QED  BY <1>5 DEF V
Shifted(L, n, next, piece, next1, piece1) ==
    \A i \in 1 .. L : next1[i + n] = next[i] + n /\ piece1[i + n] = piece[i]

LEMMA Shift ==
    ASSUME NEW L \in Nat, NEW n \in Nat, NEW next, NEW piece, Ahead(next, L),
           NEW g, Joins(g, L, next, piece),
           NEW next1, NEW piece1, NEW f, Joins(f, L + n, next1, piece1),
           Shifted(L, n, next, piece, next1, piece1)
    PROVE  \A i \in 1 .. (L + 1) : f[i + n] = g[i]
<1>. DEFINE M == L + 1
            P == { i \in 1 .. M : f[i + n] = g[i] }
<1>0. /\ L \in Nat /\ next \in [1 .. L -> 1 .. (L + 1)]
      /\ \A i \in 1 .. L : next[i] > i
  BY DEF Ahead
<1>1. ASSUME NEW i \in 1 .. M, \A j \in i + 1 .. M : j \in P
      PROVE  i \in P
  <2>1. CASE i = M
    <3>1. i + n = (L + n) + 1
      BY <1>0, <2>1
    <3>. QED  BY <2>1, <3>1 DEF Joins
  <2>2. CASE i # M
    <3>1. i \in 1 .. L /\ i + n \in 1 .. (L + n)
      BY <1>0, <2>2
    <3>2. next[i] \in i + 1 .. M
      BY <1>0, <3>1
    <3>3. f[next[i] + n] = g[next[i]]
      BY <1>1, <3>2
    <3>4. f[i + n] = piece1[i + n] \o f[next1[i + n]] /\ g[i] = piece[i] \o g[next[i]]
      BY <3>1 DEF Joins
    <3>. QED  BY <3>1, <3>3, <3>4 DEF Shifted
  <2>. QED  BY <2>1, <2>2
<1>2. \A i \in 1 .. M : i \in P
  <2>1. \A i \in 1 .. M : (\A j \in i + 1 .. M : j \in P) => i \in P
    BY <1>1
  <2>2. M \in Nat
    BY <1>0
  <2>. HIDE DEF M, P
  <2>. QED  BY <2>1, <2>2, Downward
<1>. QED  BY <1>2

----------------------------------------------------------------------------
(* The brace that closes a reference lies behind it, and is the first.     *)
LEMMA ClosingFacts ==
    ASSUME NEW S, NEW s \in Seq(S), NEW i \in Nat
    PROVE  \/ Closing(s, i) = 0 /\ \A j \in i + 2 .. Len(s) : s[j] # "}"
           \/ /\ Closing(s, i) \in i + 2 .. Len(s) /\ s[Closing(s, i)] = "}"
              /\ \A j \in i + 2 .. Closing(s, i) - 1 : s[j] # "}"
<1>. DEFINE L == Len(s)
            c == Closing(s, i)
            at == { j \in i + 2 .. L : s[j] = "}" }
<1>0. L \in Nat
  OBVIOUS
<1>1. c = IF at = {} THEN 0 ELSE CHOOSE j \in at : \A k \in at : j <= k
  BY DEF Closing
<1>. HIDE DEF L, c
<1>2. CASE at = {}
  BY <1>1, <1>2 DEF L, c
<1>3. CASE at # {}
  <2>1. \E j \in at : \A k \in at : j <= k
    <3>1. \A j \in i + 2 .. L : j \in Nat
      BY <1>0
    <3>2. \A j \in at : j \in Nat
      BY <3>1
    <3>. HIDE DEF at
    <3>. QED  BY <1>3, <3>2, Least
  <2>2. c \in at /\ \A k \in at : c <= k
    <3>. HIDE DEF at
    <3>. QED  BY <1>1, <1>3, <2>1
  <2>3. c \in i + 2 .. L /\ s[c] = "}"
    BY <2>2
  <2>4. c \in Int /\ c <= L
    <3>1. c \in i + 2 .. L
      BY <2>3
    <3>. HIDE DEF at
    <3>. QED  BY <1>0, <3>1
  <2>5. ASSUME NEW j \in i + 2 .. c - 1
        PROVE  s[j] # "}"
    <3>2. j \in Int /\ i + 2 <= j /\ j <= c - 1
      BY <2>4
    <3>3. j \in i + 2 .. L /\ ~(c <= j)
      BY <1>0, <2>4, <3>2
    <3>. QED  BY <2>2, <3>3
  <2>. QED  BY <2>3, <2>5 DEF L, c
<1>. QED  BY <1>2, <1>3

(* token, element by element.                                              *)
Escaped(s, escapes, i) == escapes /\ s[i] = "\\" /\ i < Len(s)
Element(a) == [char |-> a, meta |-> a \in Metacharacters]
Kept(a) == [char |-> a, meta |-> FALSE]

TokenNext(s, escapes) ==
    [i \in 1 .. Len(s) |-> IF Escaped(s, escapes, i) THEN i + 2 ELSE i + 1]
TokenPiece(s, escapes) ==
    [i \in 1 .. Len(s) |->
        IF Escaped(s, escapes, i) THEN << Kept(s[i + 1]) >> ELSE << Element(s[i]) >>]

LEMMA TokenJoins ==
    ASSUME NEW s \in Text, NEW escapes
    PROVE  /\ Ahead(TokenNext(s, escapes), Len(s))
           /\ \E T : /\ Token(s, escapes) = T[1]
                     /\ Joins(T, Len(s), TokenNext(s, escapes), TokenPiece(s, escapes))
<1>. DEFINE L == Len(s)
            Two(i) == Escaped(s, escapes, i)
            A(i) == << Kept(s[i + 1]) >>
            B(i) == << Element(s[i]) >>
            next == TokenNext(s, escapes)
            piece == TokenPiece(s, escapes)
            T[i \in 1 .. L + 1] ==
              IF i > L THEN << >> ELSE IF Two(i) THEN A(i) \o T[i + 2] ELSE B(i) \o T[i + 1]
<1>0. L \in Nat
  BY DEF Text
<1>1. Token(s, escapes) = T[1]
  BY DEF Token, Escaped, Kept, Element
<1>2. \A i \in 1 .. L : /\ next[i] = IF Two(i) THEN i + 2 ELSE i + 1
                       /\ piece[i] = IF Two(i) THEN A(i) ELSE B(i)
  BY DEF TokenNext, TokenPiece
<1>3. Ahead(next, L)
  <2>1. \A i \in 1 .. L : Two(i) => i < L
    BY DEF Escaped
  <2>2. next = [i \in 1 .. L |-> IF Two(i) THEN i + 2 ELSE i + 1]
    BY DEF TokenNext
  <2>. HIDE DEF L, Two, next
  <2>. QED  BY <1>0, <2>1, <2>2 DEF Ahead
<1>. HIDE DEF next, piece, L, Two, A, B
<1>4. PICK f : f = [i \in 1 .. (L + 1) |-> f[i]] /\ Joins(f, L, next, piece)
  BY <1>3, Pieces
<1>5. /\ \A i \in 1 .. L + 1 : i > L \/ i \in 1 .. L
      /\ \A i \in 1 .. L + 1 : i > L => i = L + 1
      /\ L + 1 > L /\ L + 1 \in 1 .. L + 1 /\ \A i \in 1 .. L : i \in 1 .. L + 1 /\ ~(i > L)
  BY <1>0
<1>6. f = [i \in 1 .. L + 1 |->
              IF i > L THEN << >> ELSE IF Two(i) THEN A(i) \o f[i + 2] ELSE B(i) \o f[i + 1]]
  <2>1. \A i \in 1 .. L + 1 : f[i] =
           IF i > L THEN << >> ELSE IF Two(i) THEN A(i) \o f[i + 2] ELSE B(i) \o f[i + 1]
    BY <1>2, <1>4, <1>5 DEF Joins
  <2>. QED  BY <1>4, <2>1
<1>7. T = [i \in 1 .. L + 1 |->
              IF i > L THEN << >> ELSE IF Two(i) THEN A(i) \o T[i + 2] ELSE B(i) \o T[i + 1]]
  BY <1>6
<1>. HIDE DEF T
<1>8. Joins(T, L, next, piece)
  <2>1. T[L + 1] = << >>
    BY <1>5, <1>7
  <2>2. ASSUME NEW i \in 1 .. L
        PROVE  T[i] = piece[i] \o T[next[i]]
    <3>1. T[i] = IF Two(i) THEN A(i) \o T[i + 2] ELSE B(i) \o T[i + 1]
      BY <1>5, <1>7
    <3>. QED  BY <1>2, <3>1
  <2>. QED  BY <2>1, <2>2 DEF Joins
<1>. QED  BY <1>1, <1>3, <1>8 DEF L, next, piece

LEMMA TokenType ==
    ASSUME NEW s \in Text, NEW escapes
    PROVE  Token(s, escapes) \in Seq(Elements)
<1>. DEFINE L == Len(s)
<1>0. L \in Nat /\ \A i \in 1 .. L : s[i] \in Byte
  BY DEF Text
<1>1. TokenPiece(s, escapes) \in [1 .. L -> Seq(Elements)]
  <2>1. \A a \in Byte : Kept(a) \in Elements /\ Element(a) \in Elements
    BY DEF Kept, Element, Elements
  <2>2. \A x \in Elements : << x >> \in Seq(Elements)
    OBVIOUS
  <2>3. \A i \in 1 .. L : Escaped(s, escapes, i) => i + 1 \in 1 .. L
    BY <1>0 DEF Escaped
  <2>. HIDE DEF L
  <2>. QED  BY <1>0, <2>1, <2>2, <2>3 DEF TokenPiece, L
<1>2. 1 \in 1 .. (L + 1)
  BY <1>0
<1>. QED  BY <1>1, <1>2, TokenJoins, PiecesType

(* writeEscaped, byte by byte.                                             *)
Byted(a, chars) == IF a \in chars THEN << "\\", a >> ELSE << a >>
OneByOne(s) == [i \in 1 .. Len(s) |-> i + 1]
EscapePiece(s, chars) == [i \in 1 .. Len(s) |-> Byted(s[i], chars)]

LEMMA OneByOneAhead ==
    ASSUME NEW s \in Text
    PROVE  Ahead(OneByOne(s), Len(s))
<1>. DEFINE L == Len(s)
<1>1. L \in Nat
  BY DEF Text
<1>2. OneByOne(s) = [i \in 1 .. L |-> i + 1]
  BY DEF OneByOne
<1>. HIDE DEF L
<1>3. Ahead(OneByOne(s), L)
  BY <1>1, <1>2 DEF Ahead
<1>. QED  BY <1>3 DEF L

LEMMA EscapeJoins ==
    ASSUME NEW s \in Text, NEW chars
    PROVE  \E W : /\ WriteEscaped(s, chars) = W[1]
                  /\ Joins(W, Len(s), OneByOne(s), EscapePiece(s, chars))
<1>. DEFINE L == Len(s)
            A(i) == Byted(s[i], chars)
            next == OneByOne(s)
            piece == EscapePiece(s, chars)
            W[i \in 1 .. L + 1] == IF i > L THEN << >> ELSE A(i) \o W[i + 1]
<1>0. L \in Nat
  BY DEF Text
<1>1. WriteEscaped(s, chars) = W[1]
  BY DEF WriteEscaped, Byted
<1>2. \A i \in 1 .. L : next[i] = i + 1 /\ piece[i] = A(i)
  BY DEF OneByOne, EscapePiece
<1>3. Ahead(next, L)
  BY OneByOneAhead
<1>. HIDE DEF next, piece, L, A
<1>4. PICK f : f = [i \in 1 .. (L + 1) |-> f[i]] /\ Joins(f, L, next, piece)
  BY <1>3, Pieces
<1>5. /\ \A i \in 1 .. L + 1 : i > L \/ i \in 1 .. L
      /\ \A i \in 1 .. L + 1 : i > L => i = L + 1
      /\ L + 1 > L /\ L + 1 \in 1 .. L + 1 /\ \A i \in 1 .. L : i \in 1 .. L + 1 /\ ~(i > L)
  BY <1>0
<1>6. f = [i \in 1 .. L + 1 |-> IF i > L THEN << >> ELSE A(i) \o f[i + 1]]
  <2>1. \A i \in 1 .. L + 1 : f[i] = IF i > L THEN << >> ELSE A(i) \o f[i + 1]
    BY <1>2, <1>4, <1>5 DEF Joins
  <2>. QED  BY <1>4, <2>1
<1>7. W = [i \in 1 .. L + 1 |-> IF i > L THEN << >> ELSE A(i) \o W[i + 1]]
  BY <1>6
<1>. HIDE DEF W
<1>8. Joins(W, L, next, piece)
  <2>1. W[L + 1] = << >>
    BY <1>5, <1>7
  <2>2. ASSUME NEW i \in 1 .. L
        PROVE  W[i] = piece[i] \o W[next[i]]
    <3>1. W[i] = A(i) \o W[i + 1]
      BY <1>5, <1>7
    <3>. QED  BY <1>2, <3>1
  <2>. QED  BY <2>1, <2>2 DEF Joins
<1>. QED  BY <1>1, <1>8 DEF L, next, piece

LEMMA EscapePieceType ==
    ASSUME NEW s \in Text, NEW chars
    PROVE  EscapePiece(s, chars) \in [1 .. Len(s) -> Seq(Byte)]
<1>1. "\\" \in Byte
  BY DEF Byte, Special
<1>2. \A a \in Byte : Byted(a, chars) \in Seq(Byte)
  BY <1>1 DEF Byted
<1>3. \A i \in 1 .. Len(s) : s[i] \in Byte
  BY DEF Text
<1>. QED  BY <1>2, <1>3 DEF EscapePiece

LEMMA WriteEscapedType ==
    ASSUME NEW s \in Text, NEW chars
    PROVE  WriteEscaped(s, chars) \in Text
<1>1. Len(s) \in Nat
  BY DEF Text
<1>2. 1 \in 1 .. (Len(s) + 1)
  BY <1>1
<1>. QED  BY <1>2, OneByOneAhead, EscapeJoins, EscapePieceType, PiecesType DEF Text

(* literalReference, byte by byte.                                         *)
Dollar == << "$", "{", "$", "}", "{" >>
LiteralNext(s) == [i \in 1 .. Len(s) |-> IF Opens(s, i) THEN i + 2 ELSE i + 1]
LiteralPiece(s) == [i \in 1 .. Len(s) |-> IF Opens(s, i) THEN Dollar ELSE << s[i] >>]

LEMMA DollarType == Dollar \in Text /\ Len(Dollar) = 5
<1>1. "$" \in Byte /\ "{" \in Byte /\ "}" \in Byte
  BY DEF Byte, Special
<1>2. \A a, b, c \in Byte : << a, b, a, c, b >> \in Seq(Byte)
  OBVIOUS
<1>. QED  BY <1>1, <1>2 DEF Dollar, Text

LEMMA LiteralJoins ==
    ASSUME NEW s \in Text
    PROVE  /\ Ahead(LiteralNext(s), Len(s))
           /\ \E R : /\ LiteralReference(s) = R[1]
                     /\ Joins(R, Len(s), LiteralNext(s), LiteralPiece(s))
<1>. DEFINE L == Len(s)
            Two(i) == Opens(s, i)
            A == Dollar
            B(i) == << s[i] >>
            next == LiteralNext(s)
            piece == LiteralPiece(s)
            R[i \in 1 .. L + 1] ==
              IF i > L THEN << >> ELSE IF Two(i) THEN A \o R[i + 2] ELSE B(i) \o R[i + 1]
<1>0. L \in Nat
  BY DEF Text
<1>1. LiteralReference(s) = R[1]
  BY DEF LiteralReference, Dollar
<1>2. \A i \in 1 .. L : /\ next[i] = IF Two(i) THEN i + 2 ELSE i + 1
                       /\ piece[i] = IF Two(i) THEN A ELSE B(i)
  BY DEF LiteralNext, LiteralPiece
<1>3. Ahead(next, L)
  <2>1. \A i \in 1 .. L : Two(i) => i < L
    BY DEF Opens
  <2>2. next = [i \in 1 .. L |-> IF Two(i) THEN i + 2 ELSE i + 1]
    BY DEF LiteralNext
  <2>. HIDE DEF L, Two, next
  <2>. QED  BY <1>0, <2>1, <2>2 DEF Ahead
<1>. HIDE DEF next, piece, L, Two, A, B
<1>4. PICK f : f = [i \in 1 .. (L + 1) |-> f[i]] /\ Joins(f, L, next, piece)
  BY <1>3, Pieces
<1>5. /\ \A i \in 1 .. L + 1 : i > L \/ i \in 1 .. L
      /\ \A i \in 1 .. L + 1 : i > L => i = L + 1
      /\ L + 1 > L /\ L + 1 \in 1 .. L + 1 /\ \A i \in 1 .. L : i \in 1 .. L + 1 /\ ~(i > L)
  BY <1>0
<1>6. f = [i \in 1 .. L + 1 |->
              IF i > L THEN << >> ELSE IF Two(i) THEN A \o f[i + 2] ELSE B(i) \o f[i + 1]]
  <2>1. \A i \in 1 .. L + 1 : f[i] =
           IF i > L THEN << >> ELSE IF Two(i) THEN A \o f[i + 2] ELSE B(i) \o f[i + 1]
    BY <1>2, <1>4, <1>5 DEF Joins
  <2>. QED  BY <1>4, <2>1
<1>7. R = [i \in 1 .. L + 1 |->
              IF i > L THEN << >> ELSE IF Two(i) THEN A \o R[i + 2] ELSE B(i) \o R[i + 1]]
  BY <1>6
<1>. HIDE DEF R
<1>8. Joins(R, L, next, piece)
  <2>1. R[L + 1] = << >>
    BY <1>5, <1>7
  <2>2. ASSUME NEW i \in 1 .. L
        PROVE  R[i] = piece[i] \o R[next[i]]
    <3>1. R[i] = IF Two(i) THEN A \o R[i + 2] ELSE B(i) \o R[i + 1]
      BY <1>5, <1>7
    <3>. QED  BY <1>2, <3>1
  <2>. QED  BY <2>1, <2>2 DEF Joins
<1>. QED  BY <1>1, <1>3, <1>8 DEF L, next, piece

LEMMA LiteralPieceType ==
    ASSUME NEW s \in Text
    PROVE  LiteralPiece(s) \in [1 .. Len(s) -> Seq(Byte)]
<1>1. \A i \in 1 .. Len(s) : s[i] \in Byte
  BY DEF Text
<1>2. \A a \in Byte : << a >> \in Seq(Byte)
  OBVIOUS
<1>. QED  BY <1>1, <1>2, DollarType DEF LiteralPiece, Text

LEMMA LiteralReferenceType ==
    ASSUME NEW s \in Text
    PROVE  LiteralReference(s) \in Text
<1>1. Len(s) \in Nat
  BY DEF Text
<1>2. 1 \in 1 .. (Len(s) + 1)
  BY <1>1
<1>. QED  BY <1>2, LiteralJoins, LiteralPieceType, PiecesType DEF Text

(* expandVariables, position by position.                                  *)
Expanded == [ok : BOOLEAN, text : Text]
Failed == [ok |-> FALSE, text |-> << >>]
Empty == [ok |-> TRUE, text |-> << >>]

FailsAt(s, keys, i) ==
    Opens(s, i) /\ (Closing(s, i) = 0 \/ ~Resolvable(NameAt(s, i), keys))
AfterThis(s, i) == IF Opens(s, i) THEN Closing(s, i) + 1 ELSE i + 1
TextAt(s, keys, i) ==
    IF Opens(s, i) THEN WriteEscaped(ValueOf(NameAt(s, i), keys), EscapesInValue)
    ELSE WriteEscaped(<< s[i] >>, EscapesInText)

Expands(s, keys, E) ==
    /\ E[Len(s) + 1] = Empty
    /\ \A i \in 1 .. Len(s) :
          E[i] = IF FailsAt(s, keys, i) THEN Failed
                 ELSE [ok |-> E[AfterThis(s, i)].ok,
                       text |-> TextAt(s, keys, i) \o E[AfterThis(s, i)].text]

LEMMA ExpandRecursion ==
    ASSUME NEW s \in Text, NEW keys, \A name \in DOMAIN keys : keys[name] \in Text
    PROVE  \E E : /\ ExpandVariables(s, keys) = E[1] /\ Expands(s, keys, E)
                  /\ \A i \in 1 .. Len(s) + 1 : E[i] \in Expanded
<1>. DEFINE L == Len(s)
            V == Expanded
            Start(i) == Opens(s, i)
            Fails(i) == FailsAt(s, keys, i)
            Failure == Failed
            Success == Empty
            Piece(i) == TextAt(s, keys, i)
            After(i) == AfterThis(s, i)
            next == [i \in 1 .. L |-> IF Fails(i) THEN i + 1 ELSE After(i)]
            step == [i \in 1 .. L |-> [x \in V |->
                       IF Fails(i) THEN Failure ELSE [ok |-> x.ok, text |-> Piece(i) \o x.text]]]
            E[i \in 1 .. L + 1] ==
              IF i > L THEN Success
              ELSE IF Fails(i) THEN Failure
              ELSE [ok |-> E[After(i)].ok, text |-> Piece(i) \o E[After(i)].text]
<1>0. L \in Nat /\ \A i \in 1 .. L : s[i] \in Byte
  BY DEF Text
<1>1. ExpandVariables(s, keys) = E[1]
  BY DEF ExpandVariables, FailsAt, AfterThis, TextAt, Failed, Empty
<1>2. Ahead(next, L)
  <2>1. ASSUME NEW i \in 1 .. L, ~Fails(i), Start(i)
        PROVE  Closing(s, i) \in i + 2 .. L
    <3>1. i \in Nat /\ Closing(s, i) # 0
      BY <1>0, <2>1 DEF FailsAt
    <3>. QED  BY <3>1, ClosingFacts DEF Text
  <2>a. \A i \in 1 .. L : After(i) = IF Start(i) THEN Closing(s, i) + 1 ELSE i + 1
    BY DEF AfterThis
  <2>. HIDE DEF L, Start, Fails, After
  <2>2. \A i \in 1 .. L : next[i] \in 1 .. (L + 1) /\ next[i] > i
    BY <1>0, <2>1, <2>a
  <2>. QED  BY <1>0, <2>2 DEF Ahead
<1>3. \A i \in 1 .. L : ~Fails(i) => Piece(i) \in Text
  <2>1. ASSUME NEW i \in 1 .. L, ~Fails(i)
        PROVE  Piece(i) \in Text
    <3>1. CASE Start(i)
      <4>1. Resolvable(NameAt(s, i), keys)
        BY <2>1, <3>1 DEF FailsAt
      <4>2. \A n \in LiteralVariables : n \in Text
        <5>1. "*" \in Byte /\ "?" \in Byte /\ "$" \in Byte
          BY DEF Byte, Special
        <5>2. \A a \in Byte : << a >> \in Seq(Byte)
          OBVIOUS
        <5>. QED  BY <5>1, <5>2 DEF LiteralVariables, Text
      <4>3. ValueOf(NameAt(s, i), keys) \in Text
        BY <4>1, <4>2 DEF Resolvable, ValueOf
      <4>. QED  BY <3>1, <4>3, WriteEscapedType DEF TextAt
    <3>2. CASE ~Start(i)
      <4>1. << s[i] >> \in Text
        BY <1>0 DEF Text
      <4>. QED  BY <3>2, <4>1, WriteEscapedType DEF TextAt
    <3>. QED  BY <3>1, <3>2
  <2>. QED  BY <2>1
<1>4. Failure \in V /\ Success \in V
  BY EmptySeq DEF Text, Expanded, Failed, Empty
<1>5. \A i \in 1 .. L : \A x \in V :
         ~Fails(i) => [ok |-> x.ok, text |-> Piece(i) \o x.text] \in V
  <2>1. ASSUME NEW i \in 1 .. L, NEW x \in V, ~Fails(i)
        PROVE  [ok |-> x.ok, text |-> Piece(i) \o x.text] \in V
    <3>1. x.ok \in BOOLEAN /\ x.text \in Text /\ Piece(i) \in Text
      <4>. HIDE DEF Piece, Fails
      <4>. QED  BY <1>3, <2>1 DEF Expanded
    <3>. HIDE DEF Piece
    <3>2. Piece(i) \o x.text \in Text
      BY <3>1, ConcatProperties DEF Text
    <3>. QED  BY <3>1, <3>2 DEF Expanded
  <2>. HIDE DEF Fails, V, Piece
  <2>. QED  BY <2>1
<1>6. step \in [1 .. L -> [V -> V]]
  <2>. HIDE DEF Fails, V, Piece, Failure
  <2>. QED  BY <1>4, <1>5
<1>7. \A i \in 1 .. L : /\ next[i] = IF Fails(i) THEN i + 1 ELSE After(i)
                       /\ \A x \in V : step[i][x] = IF Fails(i) THEN Failure
                             ELSE [ok |-> x.ok, text |-> Piece(i) \o x.text]
  <2>. HIDE DEF Fails, V, Piece, Failure, After
  <2>. QED  OBVIOUS
<1>. HIDE DEF next, step, L, V, Start, Fails, Piece, After, Failure, Success
<1>8. PICK f : Recurses(f, L, V, Success, next, step)
  BY <1>2, <1>4, <1>6, Recursion
<1>9. /\ f \in [1 .. (L + 1) -> V] /\ f[L + 1] = Success
      /\ \A i \in 1 .. L : f[i] = step[i][f[next[i]]]
  BY <1>8 DEF Recurses
<1>10. /\ \A i \in 1 .. L + 1 : i > L \/ i \in 1 .. L
       /\ \A i \in 1 .. L + 1 : i > L => i = L + 1
       /\ \A i \in 1 .. L : i \in 1 .. L + 1 /\ ~(i > L)
  BY <1>0
<1>11. \A i \in 1 .. L : next[i] \in 1 .. (L + 1) /\ next[i] \in i + 1 .. (L + 1)
  BY <1>0, <1>2 DEF Ahead
<1>12. f = [i \in 1 .. L + 1 |->
              IF i > L THEN Success
              ELSE IF Fails(i) THEN Failure
              ELSE [ok |-> f[After(i)].ok, text |-> Piece(i) \o f[After(i)].text]]
  <2>1. ASSUME NEW i \in 1 .. L + 1
        PROVE  f[i] = IF i > L THEN Success
                      ELSE IF Fails(i) THEN Failure
                      ELSE [ok |-> f[After(i)].ok, text |-> Piece(i) \o f[After(i)].text]
    <3>1. CASE i > L
      BY <1>9, <1>10, <3>1
    <3>2. CASE ~(i > L)
      <4>1. i \in 1 .. L /\ f[next[i]] \in V
        BY <1>9, <1>10, <1>11, <3>2
      <4>2. /\ f[i] = step[i][f[next[i]]]
            /\ next[i] = IF Fails(i) THEN i + 1 ELSE After(i)
        BY <1>7, <1>9, <4>1
      <4>3. step[i][f[next[i]]] =
               IF Fails(i) THEN Failure
               ELSE [ok |-> f[next[i]].ok, text |-> Piece(i) \o f[next[i]].text]
        BY <1>7, <4>1
      <4>. QED  BY <3>2, <4>2, <4>3
    <3>. QED  BY <3>1, <3>2
  <2>. QED  BY <1>9, <2>1
<1>13. E = [i \in 1 .. L + 1 |->
              IF i > L THEN Success
              ELSE IF Fails(i) THEN Failure
              ELSE [ok |-> E[After(i)].ok, text |-> Piece(i) \o E[After(i)].text]]
  BY <1>12
<1>. HIDE DEF E
<1>. DEFINE P == { i \in 1 .. L + 1 : E[i] \in V }
<1>14. ASSUME NEW i \in 1 .. L + 1, \A j \in i + 1 .. L + 1 : j \in P
       PROVE  i \in P
  <2>1. CASE i > L
    BY <1>4, <1>13, <2>1
  <2>2. CASE ~(i > L)
    <3>1. i \in 1 .. L
      BY <1>10, <2>2
    <3>2. CASE Fails(i)
      BY <1>4, <1>13, <2>2, <3>2
    <3>3. CASE ~Fails(i)
      <4>1. After(i) \in i + 1 .. L + 1
        BY <1>7, <1>11, <3>1, <3>3
      <4>2. E[After(i)] \in V
        BY <1>14, <4>1
      <4>3. E[i] = [ok |-> E[After(i)].ok, text |-> Piece(i) \o E[After(i)].text]
        BY <1>13, <2>2, <3>3
      <4>. QED  BY <1>5, <3>1, <3>3, <4>2, <4>3
    <3>. QED  BY <3>2, <3>3
  <2>. QED  BY <2>1, <2>2
<1>15. \A i \in 1 .. L + 1 : i \in P
  <2>. DEFINE M == L + 1
  <2>1. M \in Nat
    BY <1>0
  <2>2. \A i \in 1 .. M : (\A j \in i + 1 .. M : j \in P) => i \in P
    BY <1>14
  <2>. HIDE DEF M, P
  <2>3. \A i \in 1 .. M : i \in P
    BY <2>1, <2>2, Downward
  <2>. QED  BY <2>3 DEF M
<1>16. Expands(s, keys, E)
  <2>1. E[L + 1] = Success
    <3>1. L + 1 \in 1 .. L + 1 /\ L + 1 > L
      BY <1>0
    <3>. QED  BY <1>13, <3>1
  <2>2. ASSUME NEW i \in 1 .. L
        PROVE  E[i] = IF Fails(i) THEN Failure
                      ELSE [ok |-> E[After(i)].ok, text |-> Piece(i) \o E[After(i)].text]
    BY <1>10, <1>13
  <2>. QED  BY <2>1, <2>2 DEF Expands, L, Fails, Failure, After, Piece, Success
<1>. QED  BY <1>1, <1>15, <1>16 DEF V, L

LEMMA ExpandVariablesType ==
    ASSUME NEW s \in Text, NEW keys, \A name \in DOMAIN keys : keys[name] \in Text
    PROVE  ExpandVariables(s, keys) \in Expanded
<1>1. Len(s) \in Nat
  BY DEF Text
<1>2. 1 \in 1 .. Len(s) + 1
  BY <1>1
<1>. QED  BY <1>2, ExpandRecursion

(* The colon at which the k-th component ends exists when the string       *)
(* splits, and is the k-th.                                                *)
LEMMA CutExists ==
    ASSUME NEW L \in Nat, NEW colons \in SUBSET (1 .. L), NEW k \in Nat \ {0},
           k <= Cardinality(colons)
    PROVE  /\ Cut(colons, k) \in colons
           /\ Cardinality({ j \in colons : j <= Cut(colons, k) }) = k
<1>. DEFINE R(i) == { j \in colons : j <= i }
            C(i) == Cardinality(R(i))
            Far == { i \in 0 .. L : C(i) >= k }
<1>0. \A j \in colons : j \in Int /\ 1 <= j /\ j <= L
  OBVIOUS
<1>1. IsFiniteSet(colons) /\ \A i \in 0 .. L : IsFiniteSet(R(i)) /\ C(i) \in Nat
  <2>1. IsFiniteSet(1 .. L)
    BY FS_Interval
  <2>2. IsFiniteSet(colons) /\ \A i \in 0 .. L : IsFiniteSet(R(i))
    BY <2>1, FS_Subset
  <2>. QED  BY <2>2, FS_CardinalityType
<1>2. L \in Far
  <2>1. R(L) = colons
    BY <1>0
  <2>. QED  BY <1>1, <2>1
<1>3. PICK i \in Far : \A j \in Far : i <= j
  <2>1. \A j \in Far : j \in Nat
    OBVIOUS
  <2>. HIDE DEF Far
  <2>. QED  BY <1>2, <2>1, Least
<1>4. i \in 0 .. L /\ C(i) >= k
  <2>. HIDE DEF C
  <2>. QED  BY <1>3
<1>5. i # 0
  <2>1. R(0) = {}
    <3>1. \A j \in colons : ~(j <= 0)
      BY <1>0
    <3>. QED  BY <3>1
  <2>2. C(0) = 0
    BY <2>1, FS_EmptySet
  <2>. HIDE DEF C
  <2>. QED  BY <1>4, <2>2
<1>6. i - 1 \in 0 .. L /\ C(i - 1) < k /\ C(i - 1) \in Nat /\ C(i) \in Nat
  <2>1. i - 1 \in 0 .. L /\ ~(i <= i - 1)
    BY <1>4, <1>5
  <2>2. C(i - 1) \in Nat /\ C(i) \in Nat
    BY <1>1, <1>4, <2>1
  <2>3. i - 1 \notin Far
    <3>. HIDE DEF Far
    <3>. QED  BY <1>3, <2>1
  <2>. HIDE DEF C
  <2>. QED  BY <2>1, <2>2, <2>3
<1>7. i \in colons
  <2>1. ASSUME i \notin colons
        PROVE  R(i) = R(i - 1)
    <3>1. \A j \in colons : j <= i <=> j <= i - 1
      BY <1>0, <1>4, <2>1
    <3>. QED  BY <3>1
  <2>2. i \notin colons => C(i) = C(i - 1)
    BY <2>1
  <2>. HIDE DEF C
  <2>. QED  BY <1>4, <1>6, <2>2
<1>8. C(i) = k
  <2>1. R(i) = R(i - 1) \cup {i} /\ i \notin R(i - 1)
    <3>1. \A j \in colons : j <= i <=> j <= i - 1 \/ j = i
      BY <1>0, <1>4
    <3>2. ~(i <= i - 1)
      BY <1>4
    <3>. QED  BY <1>7, <3>1, <3>2
  <2>2. IsFiniteSet(R(i - 1))
    BY <1>1, <1>6
  <2>3. C(i) = C(i - 1) + 1
    <3>. HIDE DEF R
    <3>. QED  BY <2>1, <2>2, FS_AddElement
  <2>. HIDE DEF C
  <2>. QED  BY <1>4, <1>6, <2>3
<1>. QED  BY <1>7, <1>8 DEF Cut

LEMMA ComponentType ==
    ASSUME NEW s \in Text, NEW colons \in SUBSET (1 .. Len(s)), Splits(colons),
           NEW k \in 1 .. ArnComponents
    PROVE  Component(s, colons, k) \in Text
<1>. DEFINE L == Len(s)
            first == IF k = 1 THEN 1 ELSE Cut(colons, k - 1) + 1
            last == IF k = ArnComponents THEN L ELSE Cut(colons, k) - 1
<1>0. L \in Nat /\ \A i \in 1 .. L : s[i] \in Byte
  BY DEF Text
<1>1. ArnComponents \in Nat /\ Cardinality(colons) >= ArnComponents - 1
  BY ComponentsAssumption DEF Splits
<1>2. Cardinality(colons) \in Nat
  <2>1. IsFiniteSet(1 .. L)
    BY <1>0, FS_Interval
  <2>2. IsFiniteSet(colons)
    BY <2>1, FS_Subset
  <2>. QED  BY <2>2, FS_CardinalityType
<1>3. Component(s, colons, k) = SubSeq(s, first, last)
  BY DEF Component
<1>. HIDE DEF L
<1>4. \A c \in 1 .. ArnComponents - 1 : Cut(colons, c) \in 1 .. L
  <2>1. ASSUME NEW c \in 1 .. ArnComponents - 1
        PROVE  Cut(colons, c) \in 1 .. L
    <3>1. c \in Nat \ {0} /\ c <= Cardinality(colons)
      BY <1>1, <1>2
    <3>2. colons \in SUBSET (1 .. L)
      BY DEF L
    <3>3. Cut(colons, c) \in colons
      BY <1>0, <3>1, <3>2, CutExists
    <3>. QED  BY <3>2, <3>3
  <2>. QED  BY <2>1
<1>5. first \in Int /\ first >= 1
  <2>1. CASE k = 1
    BY <2>1
  <2>2. CASE k # 1
    <3>1. k - 1 \in 1 .. ArnComponents - 1
      BY <1>1, <2>2
    <3>2. Cut(colons, k - 1) \in 1 .. L
      BY <1>4, <3>1
    <3>. QED  BY <1>0, <2>2, <3>2
  <2>. QED  BY <2>1, <2>2
<1>6. last \in Int /\ last <= L
  <2>1. CASE k = ArnComponents
    BY <1>0, <2>1
  <2>2. CASE k # ArnComponents
    <3>1. k \in 1 .. ArnComponents - 1
      BY <1>1, <2>2
    <3>2. Cut(colons, k) \in 1 .. L
      BY <1>4, <3>1
    <3>. QED  BY <1>0, <2>2, <3>2
  <2>. QED  BY <2>1, <2>2
<1>. HIDE DEF first, last
<1>7. \A i \in first .. last : s[i] \in Byte
  <2>1. \A i \in first .. last : i \in 1 .. L
    BY <1>0, <1>5, <1>6
  <2>. QED  BY <1>0, <2>1
<1>8. SubSeq(s, first, last) \in Seq(Byte)
  BY <1>5, <1>6, <1>7, SubSeqProperties
<1>. QED  BY <1>3, <1>8 DEF Text
----------------------------------------------------------------------------
(* The matcher's state is well-typed: the strings and the elements too.    *)
Typed ==
    /\ TypeOK
    /\ todo \in Seq(Pairs) /\ tokens \in Seq(Elements)

LEMMA CallStrings ==
    ASSUME NEW c \in Calls
    PROVE  /\ c.pattern \in Text /\ AsRead(c) \in Text /\ c.value \in Text
           /\ \A name \in DOMAIN c.keys : c.keys[name] \in Text
           /\ c.failClosed \in BOOLEAN /\ c.old \in BOOLEAN
<1>1. \A s \in Seq(STRING) : s \in Text
  <2>1. STRING \subseteq Byte
    BY DEF Byte
  <2>. QED  BY <2>1, SeqMonotonic DEF Text
<1>2. /\ c.pattern \in Text /\ c.value \in Text
      /\ c.failClosed \in BOOLEAN /\ c.old \in BOOLEAN
      /\ \A name \in DOMAIN c.keys : c.keys[name] \in Text
  BY <1>1, StringsAssumption
<1>. QED  BY <1>2, LiteralReferenceType DEF AsRead

(* What is true of any answer, and of any component that matched.          *)
LEMMA AnswerTyped ==
    ASSUME NEW a \in BOOLEAN, Answer(a), UNCHANGED call, call \in Calls
    PROVE  Typed'
<1>1. << >> \in Seq(Pairs) /\ << >> \in Seq(Elements) /\ Len(<< >>) = 0
  BY EmptySeq
<1>. QED  BY <1>1 DEF Answer, Unscanned, Typed, TypeOK

LEMMA MatchedTyped ==
    ASSUME NEW yes, Matched(yes), Typed
    PROVE  Typed'
<1>1. call \in Calls
  BY DEF Matched, Typed, TypeOK
<1>2. CASE Answer(FALSE)
  BY <1>1, <1>2, AnswerTyped DEF Matched
<1>3. CASE pc' = "next" /\ todo' = Tail(todo) /\ Unscanned /\ UNCHANGED << call, answer >>
  <2>1. Tail(todo) \in Seq(Pairs)
    BY HeadTailProperties DEF Matched, Typed
  <2>2. << >> \in Seq(Elements) /\ Len(<< >>) = 0
    BY EmptySeq
  <2>3. answer = NoAnswer
    BY DEF Matched, Typed, TypeOK
  <2>. QED  BY <1>1, <1>3, <2>1, <2>2, <2>3 DEF Unscanned, Typed, TypeOK
<1>. QED  BY <1>2, <1>3 DEF Matched

LEMMA ScanTyped ==
    ASSUME NEW elements \in Seq(Elements), Scan(elements), Typed, pc = "next", todo # << >>
    PROVE  Typed'
<1>1. Len(elements) \in Nat
  OBVIOUS
<1>2. Value' = Value /\ Len(Value) \in Nat
  <2>1. Head(todo) \in Pairs
    BY HeadTailProperties DEF Typed
  <2>2. Head(todo).value \in Text
    BY <2>1 DEF Pairs
  <2>. QED  BY <2>2 DEF Value, Scan, Text
<1>3. call \in Calls /\ answer = NoAnswer
  BY DEF Typed, TypeOK
<1>4. 1 \in 1 .. Len(elements) + 1 /\ 1 \in 1 .. Len(Value) + 1
  BY <1>1, <1>2
<1>. HIDE DEF Value
<1>. QED  BY <1>2, <1>3, <1>4 DEF Scan, Typed, TypeOK

(* The numbers of a scan under way.                                        *)
LEMMA ScanFacts ==
    ASSUME Typed, pc = "scan"
    PROVE  /\ call \in Calls /\ answer = NoAnswer /\ todo # << >>
           /\ Value \in Text /\ Len(Value) \in Nat /\ Len(tokens) \in Nat
           /\ p \in 1 .. Len(tokens) + 1 /\ v \in 1 .. Len(Value) + 1
           /\ star # 0 => /\ star \in 1 .. p - 1 /\ IsStar(tokens[star])
                          /\ starV \in 1 .. v
<1>1. Head(todo) \in Pairs
  BY HeadTailProperties DEF Typed, TypeOK
<1>2. Value \in Text
  BY <1>1 DEF Pairs, Value
<1>3. Len(Value) \in Nat /\ Len(tokens) \in Nat
  BY <1>2 DEF Text, Typed
<1>. HIDE DEF Value
<1>. QED  BY <1>2, <1>3 DEF Typed, TypeOK

LEMMA TypedInit ==
    ASSUME Init
    PROVE  Typed
<1>1. << >> \in Seq(Pairs) /\ << >> \in Seq(Elements) /\ Len(<< >>) = 0
  BY EmptySeq
<1>. QED  BY <1>1 DEF Init, Typed, TypeOK

LEMMA TypedStep ==
    ASSUME Typed, [Next]_vars
    PROVE  Typed'
<1>1. CASE Call
  <2>1. PICK c \in Calls :
           /\ call' = c
           /\ \/ /\ c.kind = "pattern" /\ pc' = "next"
                 /\ todo' = << [pattern |-> AsRead(c), value |-> c.value] >>
              \/ c.kind = "arn" /\ pc' = "split" /\ UNCHANGED todo
    BY <1>1 DEF Call
  <2>2. todo' \in Seq(Pairs)
    <3>1. [pattern |-> AsRead(c), value |-> c.value] \in Pairs
      BY CallStrings DEF Pairs
    <3>2. \A a \in Pairs : << a >> \in Seq(Pairs)
      OBVIOUS
    <3>. QED  BY <2>1, <3>1, <3>2 DEF Typed
  <2>3. pc' \in {"next", "split"}
    BY <2>1
  <2>. QED  BY <1>1, <2>1, <2>2, <2>3 DEF Call, scanVars, Typed, TypeOK
<1>2. CASE RefuseARN
  <2>1. call \in Calls
    BY <1>2 DEF RefuseARN, Typed, TypeOK
  <2>2. call.failClosed \in BOOLEAN
    BY <2>1, CallStrings
  <2>. QED  BY <1>2, <2>1, <2>2, AnswerTyped DEF RefuseARN
<1>3. CASE SplitARN
  <2>. DEFINE s == AsRead(call)
              a == PatternColons(s)
              b == EveryColon(call.value)
  <2>1. call \in Calls
    BY <1>3 DEF SplitARN, Typed, TypeOK
  <2>2. s \in Text /\ call.value \in Text
    BY <2>1, CallStrings
  <2>3. a \in SUBSET (1 .. Len(s)) /\ b \in SUBSET (1 .. Len(call.value))
    BY DEF PatternColons, EveryColon
  <2>4. Splits(a) /\ Splits(b) /\ pc' = "next" /\ UNCHANGED << call, scanVars, answer >>
    BY <1>3 DEF SplitARN
  <2>5. todo' = [k \in 1 .. ArnComponents |->
                   [pattern |-> Component(s, a, k), value |-> Component(call.value, b, k)]]
    BY <1>3 DEF SplitARN
  <2>. HIDE DEF s, a, b
  <2>6. \A k \in 1 .. ArnComponents :
           [pattern |-> Component(s, a, k), value |-> Component(call.value, b, k)] \in Pairs
    <3>1. \A k \in 1 .. ArnComponents :
             Component(s, a, k) \in Text /\ Component(call.value, b, k) \in Text
      BY <2>2, <2>3, <2>4, ComponentType
    <3>. QED  BY <3>1 DEF Pairs
  <2>7. todo' \in Seq(Pairs)
    BY <2>5, <2>6, ComponentsAssumption
  <2>8. answer = NoAnswer /\ tokens = << >> /\ star = 0
    BY <1>3 DEF SplitARN, Typed, TypeOK
  <2>. QED  BY <2>1, <2>4, <2>7, <2>8 DEF scanVars, Typed, TypeOK
<1>4. CASE Literal
  <2>1. pc = "next" /\ todo # << >>
    BY <1>4 DEF Literal
  <2>2. Head(todo).pattern \in Text
    <3>1. Head(todo) \in Pairs
      BY <2>1, HeadTailProperties DEF Typed
    <3>. QED  BY <3>1 DEF Pairs
  <2>3. Token(Head(todo).pattern, FALSE) \in Seq(Elements)
    BY <2>2, TokenType
  <2>4. \/ Matched(TRUE) \/ Matched(Head(todo).pattern = Head(todo).value)
        \/ Scan(Token(Head(todo).pattern, FALSE))
    BY <1>4 DEF Literal
  <2>. QED  BY <2>1, <2>3, <2>4, MatchedTyped, ScanTyped
<1>5. CASE Unresolvable
  BY <1>5, MatchedTyped DEF Unresolvable
<1>6. CASE Resolved
  <2>. DEFINE expanded == ExpandVariables(Head(todo).pattern, call.keys)
  <2>1. pc = "next" /\ todo # << >> /\ call \in Calls
    BY <1>6 DEF Resolved, Typed, TypeOK
  <2>2. Head(todo).pattern \in Text
    <3>1. Head(todo) \in Pairs
      BY <2>1, HeadTailProperties DEF Typed
    <3>. QED  BY <3>1 DEF Pairs
  <2>3. expanded \in Expanded
    BY <2>1, <2>2, CallStrings, ExpandVariablesType
  <2>4. Scan(Token(expanded.text, TRUE))
    BY <1>6 DEF Resolved
  <2>. HIDE DEF expanded
  <2>5. Token(expanded.text, TRUE) \in Seq(Elements)
    BY <2>3, TokenType DEF Expanded
  <2>. QED  BY <2>1, <2>4, <2>5, ScanTyped
<1>7. CASE AllMatched
  BY <1>7, AnswerTyped DEF AllMatched, Typed, TypeOK
<1>8. CASE Star
  <2>1. pc = "scan" /\ p <= Len(tokens) /\ IsStar(tokens[p])
    BY <1>8 DEF Star, MoreValue, AtStar
  <2>2. Value' = Value
    BY <1>8 DEF Star, Value
  <2>. HIDE DEF Value
  <2>3. p + 1 \in 1 .. Len(tokens) + 1 /\ p \in 1 .. (p + 1) - 1 /\ v \in 1 .. v
    BY <2>1, ScanFacts
  <2>. QED  BY <1>8, <2>1, <2>2, <2>3, ScanFacts DEF Star, Typed, TypeOK
<1>9. CASE One
  <2>1. pc = "scan" /\ p <= Len(tokens) /\ v <= Len(Value)
    BY <1>9 DEF One, MoreValue, AtMatch
  <2>2. Value' = Value
    BY <1>9 DEF One, Value
  <2>. HIDE DEF Value
  <2>3. /\ p + 1 \in 1 .. Len(tokens) + 1 /\ v + 1 \in 1 .. Len(Value) + 1
        /\ star # 0 => star \in 1 .. (p + 1) - 1 /\ starV \in 1 .. v + 1
    BY <2>1, ScanFacts
  <2>. QED  BY <1>9, <2>1, <2>2, <2>3, ScanFacts DEF One, Typed, TypeOK
<1>10. CASE Restart
  <2>1. pc = "scan" /\ star # 0 /\ v <= Len(Value)
    BY <1>10 DEF Restart, MoreValue
  <2>2. Value' = Value
    BY <1>10 DEF Restart, Value
  <2>. HIDE DEF Value
  <2>3. /\ star + 1 \in 1 .. Len(tokens) + 1 /\ starV + 1 \in 1 .. Len(Value) + 1
        /\ star \in 1 .. (star + 1) - 1 /\ starV + 1 \in 1 .. starV + 1
    BY <2>1, ScanFacts
  <2>. QED  BY <1>10, <2>1, <2>2, <2>3, ScanFacts DEF Restart, Typed, TypeOK
<1>11. CASE Mismatch
  BY <1>11, MatchedTyped DEF Mismatch
<1>12. CASE TrailingStar
  <2>1. pc = "scan" /\ p <= Len(tokens)
    BY <1>12 DEF TrailingStar, AtStar
  <2>2. Value' = Value
    BY <1>12 DEF TrailingStar, Value
  <2>. HIDE DEF Value
  <2>3. /\ p + 1 \in 1 .. Len(tokens) + 1
        /\ star # 0 => star \in 1 .. (p + 1) - 1
    BY <2>1, ScanFacts
  <2>. QED  BY <1>12, <2>1, <2>2, <2>3, ScanFacts DEF TrailingStar, Typed, TypeOK
<1>13. CASE ScanEnds
  BY <1>13, MatchedTyped DEF ScanEnds
<1>14. CASE Return
  BY <1>14 DEF Return, scanVars, Typed, TypeOK
<1>15. CASE UNCHANGED vars
  BY <1>15 DEF vars, scanVars, Typed, TypeOK, Value
<1>. QED  BY <1>1, <1>2, <1>3, <1>4, <1>5, <1>6, <1>7, <1>8, <1>9, <1>10, <1>11, <1>12,
             <1>13, <1>14, <1>15 DEF Next, Step

LEMMA TypedAlways == Spec => []Typed
<1>. QED  BY TypedInit, TypedStep, PTL DEF Spec

(* The scan stays within the pattern and the value, for every pattern,     *)
(* value and set of keys (match.go, matchGlob; variables.go).              *)
THEOREM TypeCorrect == Spec => []TypeOK
<1>1. Typed => TypeOK
  BY DEF Typed
<1>. QED  BY <1>1, TypedAlways, PTL

(* Every step of the scan makes progress in the order of match.go,         *)
(* matchGlob: a later star, a later restart, or a later element.           *)
THEOREM Advances == Spec => ScanAdvances
<1>. DEFINE Further == \/ star' > star
                       \/ star' = star /\ starV' > starV
                       \/ star' = star /\ starV' = starV /\ p' > p
<1>1. ASSUME Typed, [Next]_vars, pc = "scan", pc' = "scan", ~UNCHANGED vars
      PROVE  Further
  <2>1. CASE Star
    <3>1. p > star
      BY <1>1, ScanFacts
    <3>. QED  BY <2>1, <3>1 DEF Star
  <2>2. CASE One \/ TrailingStar
    BY <1>1, <2>2, ScanFacts DEF One, TrailingStar
  <2>3. CASE Restart
    BY <1>1, <2>3, ScanFacts DEF Restart
  <2>4. CASE Mismatch \/ ScanEnds
    BY <1>1, <2>4 DEF Mismatch, ScanEnds, Matched, Answer
  <2>. QED  BY <1>1, <2>1, <2>2, <2>3, <2>4
            DEF Next, Step, Call, RefuseARN, SplitARN, Literal, Unresolvable, Resolved,
                AllMatched, Return
<1>2. Typed /\ [Next]_vars => [pc = "scan" /\ pc' = "scan" => Further]_vars
  BY <1>1
<1>. QED  BY <1>2, TypedAlways, PTL DEF Spec, ScanAdvances
----------------------------------------------------------------------------
(* What the scan knows.  The j-th element of t fits where at places it.    *)
Fits(t, s, j, at) ==
    IF IsStar(t[j]) THEN at[j] <= at[j + 1]
    ELSE at[j + 1] = at[j] + 1 /\ at[j] <= Len(s) /\ Takes(t[j], s[at[j]])

(* The elements before the q-th fit the bytes before the w-th, and the     *)
(* star at k gives way to its successor at kw.                             *)
Reaches(t, s, q, w, k, kw, at) ==
    /\ at \in [1 .. q -> 1 .. Len(s) + 1] /\ at[1] = 1 /\ at[q] = w
    /\ k # 0 => at[k + 1] = kw
    /\ \A j \in 1 .. q - 1 : Fits(t, s, j, at)

Reached(t, s, q, w, k, kw) == \E at : Reaches(t, s, q, w, k, kw, at)

Covering(t, s, at) ==
    /\ at \in [1 .. Len(t) + 1 -> 1 .. Len(s) + 1] /\ at[1] = 1 /\ at[Len(t) + 1] = Len(s) + 1
    /\ \A j \in 1 .. Len(t) : Fits(t, s, j, at)

(* No cover places the q-th element earlier, and while bytes are left, a   *)
(* cover differs from the scan in how many bytes the star at k takes.      *)
Leftmost(t, s, q, w, k, kw) ==
    \A at : Covering(t, s, at) =>
        /\ at[q] >= w
        /\ w <= Len(s) /\ k = 0 => at[q] = w
        /\ w <= Len(s) /\ k # 0 => at[k + 1] >= kw /\ at[q] - w = at[k + 1] - kw

Within(t, s, q, w, k, kw) ==
    /\ t \in Seq(Elements) /\ s \in Text
    /\ q \in 1 .. Len(t) + 1 /\ w \in 1 .. Len(s) + 1
    /\ k # 0 => k \in 1 .. q - 1 /\ IsStar(t[k]) /\ kw \in 1 .. w

(* An element more is placed.                                              *)
LEMMA ReachesOn ==
    ASSUME NEW t, NEW s, NEW q, NEW w, NEW k, NEW kw, Within(t, s, q, w, k, kw),
           Reached(t, s, q, w, k, kw), q <= Len(t),
           NEW w2 \in 1 .. Len(s) + 1,
           IF IsStar(t[q]) THEN w <= w2
           ELSE w2 = w + 1 /\ w <= Len(s) /\ Takes(t[q], s[w])
    PROVE  Reached(t, s, q + 1, w2, k, kw) /\ Reached(t, s, q + 1, w2, q, w2)
<1>. DEFINE M == Len(s)
<1>0. M \in Nat /\ Len(t) \in Nat /\ q \in Nat /\ q >= 1 /\ w \in Nat
  BY DEF Within, Text
<1>1. PICK at : Reaches(t, s, q, w, k, kw, at)
  BY DEF Reached
<1>2. /\ at \in [1 .. q -> 1 .. M + 1] /\ at[1] = 1 /\ at[q] = w
      /\ k # 0 => at[k + 1] = kw
      /\ \A j \in 1 .. q - 1 : Fits(t, s, j, at)
  BY <1>1 DEF Reaches
<1>. DEFINE on == [j \in 1 .. q + 1 |-> IF j = q + 1 THEN w2 ELSE at[j]]
<1>3. on \in [1 .. q + 1 -> 1 .. M + 1] /\ on[q + 1] = w2 /\ \A j \in 1 .. q : on[j] = at[j]
  <2>1. ASSUME NEW j \in 1 .. q + 1, j # q + 1
        PROVE  j \in 1 .. q
    BY <1>0, <2>1
  <2>2. q + 1 \in 1 .. q + 1 /\ \A j \in 1 .. q : j \in 1 .. q + 1 /\ j # q + 1
    BY <1>0
  <2>3. w2 \in 1 .. M + 1
    OBVIOUS
  <2>. HIDE DEF M
  <2>. QED  BY <1>2, <2>1, <2>2, <2>3
<1>. HIDE DEF on
<1>4. on[1] = 1 /\ on[q] = w
  BY <1>0, <1>2, <1>3
<1>5. k # 0 => on[k + 1] = kw
  <2>1. k # 0 => k + 1 \in 1 .. q
    BY <1>0 DEF Within
  <2>. QED  BY <1>2, <1>3, <2>1
<1>6. ASSUME NEW j \in 1 .. (q + 1) - 1
      PROVE  Fits(t, s, j, on)
  <2>1. CASE j = q
    BY <1>3, <1>4, <2>1 DEF Fits
  <2>2. CASE j # q
    <3>1. j \in 1 .. q - 1 /\ j \in 1 .. q /\ j + 1 \in 1 .. q
      BY <1>0, <2>2
    <3>2. on[j] = at[j] /\ on[j + 1] = at[j + 1] /\ Fits(t, s, j, at)
      BY <1>2, <1>3, <3>1
    <3>. QED  BY <3>2 DEF Fits
  <2>. QED  BY <2>1, <2>2
<1>7. Reaches(t, s, q + 1, w2, k, kw, on) /\ Reaches(t, s, q + 1, w2, q, w2, on)
  BY <1>3, <1>4, <1>5, <1>6 DEF Reaches
<1>. QED  BY <1>7 DEF Reached

(* The star takes a byte more.                                             *)
LEMMA ReachesBack ==
    ASSUME NEW t, NEW s, NEW q, NEW w, NEW k, NEW kw, Within(t, s, q, w, k, kw),
           Reached(t, s, q, w, k, kw), k # 0, w <= Len(s)
    PROVE  Reached(t, s, k + 1, kw + 1, k, kw + 1)
<1>. DEFINE M == Len(s)
<1>0. /\ M \in Nat /\ q \in Nat /\ w \in Nat /\ k \in Nat /\ k >= 1 /\ k + 1 <= q
      /\ kw \in Nat /\ 1 <= kw /\ kw <= M /\ IsStar(t[k])
  <2>1. M \in Nat /\ Len(t) \in Nat
    BY DEF Within, Text
  <2>. HIDE DEF M
  <2>. QED  BY <2>1 DEF Within, M
<1>1. PICK at : Reaches(t, s, q, w, k, kw, at)
  BY DEF Reached
<1>2. /\ at \in [1 .. q -> 1 .. M + 1] /\ at[1] = 1
      /\ at[k + 1] = kw
      /\ \A j \in 1 .. q - 1 : Fits(t, s, j, at)
  BY <1>1 DEF Reaches
<1>. DEFINE back == [j \in 1 .. k + 1 |-> IF j = k + 1 THEN kw + 1 ELSE at[j]]
<1>3. /\ back \in [1 .. k + 1 -> 1 .. M + 1] /\ back[k + 1] = kw + 1
      /\ \A j \in 1 .. k : back[j] = at[j]
  <2>1. \A j \in 1 .. k + 1 : j # k + 1 => j \in 1 .. q
    BY <1>0
  <2>2. k + 1 \in 1 .. k + 1 /\ \A j \in 1 .. k : j \in 1 .. k + 1 /\ j # k + 1
    BY <1>0
  <2>3. kw + 1 \in 1 .. M + 1
    BY <1>0
  <2>. HIDE DEF M
  <2>. QED  BY <1>2, <2>1, <2>2, <2>3
<1>. HIDE DEF back
<1>4. back[1] = 1
  BY <1>0, <1>2, <1>3
<1>5. ASSUME NEW j \in 1 .. (k + 1) - 1
      PROVE  Fits(t, s, j, back)
  <2>0. j \in 1 .. q - 1 /\ j \in 1 .. k
    BY <1>0
  <2>1. CASE j = k
    <3>1. at[k] <= kw /\ at[k] \in Int
      <4>1. at[k] \in 1 .. M + 1
        BY <1>0, <1>2
      <4>2. Fits(t, s, k, at)
        BY <1>2, <2>0, <2>1
      <4>. QED  BY <1>0, <1>2, <4>1, <4>2 DEF Fits
    <3>2. back[k] <= back[k + 1]
      BY <1>0, <1>3, <2>0, <2>1, <3>1
    <3>. QED  BY <1>0, <2>1, <3>2 DEF Fits
  <2>2. CASE j # k
    <3>1. j + 1 \in 1 .. k
      BY <1>0, <2>0, <2>2
    <3>2. back[j] = at[j] /\ back[j + 1] = at[j + 1] /\ Fits(t, s, j, at)
      BY <1>2, <1>3, <2>0, <3>1
    <3>. QED  BY <3>2 DEF Fits
  <2>. QED  BY <2>1, <2>2
<1>6. Reaches(t, s, k + 1, kw + 1, k, kw + 1, back)
  BY <1>3, <1>4, <1>5 DEF Reaches
<1>. QED  BY <1>6 DEF Reached

(* The numbers a cover gives the elements around the scan.                 *)
LEMMA CoverNumbers ==
    ASSUME NEW t, NEW s, NEW q, NEW w, NEW k, NEW kw, Within(t, s, q, w, k, kw),
           NEW at, Covering(t, s, at)
    PROVE  /\ Len(s) \in Nat /\ Len(t) \in Nat /\ q \in Nat /\ w \in Nat
           /\ at[q] \in Nat /\ at[q] <= Len(s) + 1
           /\ q <= Len(t) => Fits(t, s, q, at) /\ at[q + 1] \in Nat /\ at[q + 1] <= Len(s) + 1
           /\ q = Len(t) + 1 => at[q] = Len(s) + 1
           /\ k # 0 => k \in Nat /\ kw \in Nat /\ at[k + 1] \in Nat /\ at[k + 1] <= Len(s) + 1
<1>1. Len(s) \in Nat /\ Len(t) \in Nat
  BY DEF Within, Text
<1>2. q \in 1 .. Len(t) + 1 /\ w \in 1 .. Len(s) + 1
  BY DEF Within
<1>3. /\ at \in [1 .. Len(t) + 1 -> 1 .. Len(s) + 1] /\ at[Len(t) + 1] = Len(s) + 1
      /\ \A j \in 1 .. Len(t) : Fits(t, s, j, at)
  BY DEF Covering
<1>4. \A j \in 1 .. Len(t) + 1 : at[j] \in Nat /\ at[j] <= Len(s) + 1
  BY <1>1, <1>3
<1>5. q <= Len(t) => q \in 1 .. Len(t) /\ q + 1 \in 1 .. Len(t) + 1
  BY <1>1, <1>2
<1>6. k # 0 => k \in Nat /\ kw \in Nat /\ k + 1 \in 1 .. Len(t) + 1
  BY <1>1, <1>2 DEF Within
<1>. QED  BY <1>1, <1>2, <1>3, <1>4, <1>5, <1>6

LEMMA LeftmostStar ==
    ASSUME NEW t, NEW s, NEW q, NEW w, NEW k, NEW kw, Within(t, s, q, w, k, kw),
           Leftmost(t, s, q, w, k, kw), q <= Len(t), IsStar(t[q])
    PROVE  /\ Leftmost(t, s, q + 1, w, q, w)
           /\ w = Len(s) + 1 => Leftmost(t, s, q + 1, w, k, kw)
<1>1. ASSUME NEW at, Covering(t, s, at)
      PROVE  at[q + 1] >= w /\ at[q + 1] - w = at[q + 1] - w
  <2>1. at[q] >= w
    BY <1>1 DEF Leftmost
  <2>2. at[q] <= at[q + 1]
    BY <1>1, CoverNumbers DEF Fits
  <2>3. w \in Nat /\ at[q] \in Nat /\ at[q + 1] \in Nat
    BY <1>1, CoverNumbers
  <2>. QED  BY <2>1, <2>2, <2>3
<1>2. Len(s) \in Nat /\ q # 0
  BY DEF Within, Text
<1>3. w = Len(s) + 1 => ~(w <= Len(s))
  BY <1>2
<1>. QED  BY <1>1, <1>2, <1>3 DEF Leftmost

LEMMA LeftmostOne ==
    ASSUME NEW t, NEW s, NEW q, NEW w, NEW k, NEW kw, Within(t, s, q, w, k, kw),
           Leftmost(t, s, q, w, k, kw), q <= Len(t), ~IsStar(t[q]), w <= Len(s)
    PROVE  Leftmost(t, s, q + 1, w + 1, k, kw)
<1>1. ASSUME NEW at, Covering(t, s, at)
      PROVE  /\ at[q + 1] >= w + 1
             /\ k = 0 => at[q + 1] = w + 1
             /\ k # 0 => at[k + 1] >= kw /\ at[q + 1] - (w + 1) = at[k + 1] - kw
  <2>1. /\ at[q] >= w
        /\ k = 0 => at[q] = w
        /\ k # 0 => at[k + 1] >= kw /\ at[q] - w = at[k + 1] - kw
    BY <1>1 DEF Leftmost
  <2>2. at[q + 1] = at[q] + 1
    BY <1>1, CoverNumbers DEF Fits
  <2>3. w \in Nat /\ at[q] \in Nat /\ (k # 0 => kw \in Nat /\ at[k + 1] \in Nat)
    BY <1>1, CoverNumbers
  <2>. QED  BY <2>1, <2>2, <2>3
<1>. QED  BY <1>1 DEF Leftmost

(* A cover that agrees with the scan cannot go on where the scan cannot.   *)
LEMMA Stuck ==
    ASSUME NEW t, NEW s, NEW q, NEW w, NEW k, NEW kw, Within(t, s, q, w, k, kw),
           NEW at, Covering(t, s, at), at[q] = w, q <= Len(t) => ~IsStar(t[q]),
           w <= Len(s) => ~(q <= Len(t) /\ Takes(t[q], s[w])),
           w > Len(s) => q # Len(t) + 1
    PROVE  FALSE
<1>1. q \in 1 .. Len(t) + 1 /\ Len(t) \in Nat /\ Len(s) \in Nat
  BY CoverNumbers DEF Within
<1>2. CASE q = Len(t) + 1
  <2>1. at[q] = Len(s) + 1
    BY <1>2, CoverNumbers
  <2>. QED  BY <1>1, <1>2, <2>1
<1>3. CASE q <= Len(t)
  <2>1. w <= Len(s) /\ Takes(t[q], s[w])
    BY <1>3, CoverNumbers DEF Fits
  <2>. QED  BY <1>3, <2>1
<1>. QED  BY <1>1, <1>2, <1>3

LEMMA LeftmostRestart ==
    ASSUME NEW t, NEW s, NEW q, NEW w, NEW k, NEW kw, Within(t, s, q, w, k, kw),
           Leftmost(t, s, q, w, k, kw), w <= Len(s), k # 0,
           ~(q <= Len(t) /\ IsStar(t[q])), ~(q <= Len(t) /\ Takes(t[q], s[w]))
    PROVE  Leftmost(t, s, k + 1, kw + 1, k, kw + 1)
<1>1. ASSUME NEW at, Covering(t, s, at)
      PROVE  /\ at[k + 1] >= kw + 1
             /\ at[k + 1] - (kw + 1) = at[k + 1] - (kw + 1)
  <2>1. at[k + 1] >= kw /\ at[q] - w = at[k + 1] - kw
    BY <1>1 DEF Leftmost
  <2>2. ASSUME at[k + 1] = kw
        PROVE  FALSE
    <3>1. at[q] = w
      BY <1>1, <2>1, <2>2, CoverNumbers
    <3>2. ~(w > Len(s))
      BY <1>1, CoverNumbers
    <3>. QED  BY <1>1, <3>1, <3>2, Stuck
  <2>3. kw \in Nat /\ at[k + 1] \in Nat
    BY <1>1, CoverNumbers
  <2>. QED  BY <2>1, <2>2, <2>3
<1>. QED  BY <1>1 DEF Leftmost

(* When the scan gives up, no cover is left.                               *)
LEMMA NoCover ==
    ASSUME NEW t, NEW s, NEW q, NEW w, NEW k, NEW kw, Within(t, s, q, w, k, kw),
           Leftmost(t, s, q, w, k, kw), ~(q <= Len(t) /\ IsStar(t[q])),
           \/ w <= Len(s) /\ k = 0 /\ ~(q <= Len(t) /\ Takes(t[q], s[w]))
           \/ w = Len(s) + 1 /\ q # Len(t) + 1
    PROVE  \A at : ~Covering(t, s, at)
<1>1. ASSUME NEW at, Covering(t, s, at)
      PROVE  FALSE
  <2>1. at[q] = w
    BY <1>1, CoverNumbers DEF Leftmost
  <2>2. CASE w <= Len(s) /\ k = 0 /\ ~(q <= Len(t) /\ Takes(t[q], s[w]))
    <3>1. ~(w > Len(s))
      BY <1>1, <2>2, CoverNumbers
    <3>. QED  BY <1>1, <2>1, <2>2, <3>1, Stuck
  <2>3. CASE w = Len(s) + 1 /\ q # Len(t) + 1
    <3>1. ~(w <= Len(s))
      BY <1>1, <2>3, CoverNumbers
    <3>. QED  BY <1>1, <2>1, <2>3, <3>1, Stuck
  <2>. QED  BY <2>2, <2>3
<1>. QED  BY <1>1

(* A cover is one that begins the inner elements somewhere.                *)
LEMMA AroundCovers ==
    ASSUME NEW t, Len(t) \in Nat, NEW s \in Text
    PROVE  /\ \A inner \in [2 .. Len(t) -> 1 .. Len(s) + 1] :
                 Covers(t, s, 1, 1, Around(t, s, inner)) => Covering(t, s, Around(t, s, inner))
           /\ \A at : Covering(t, s, at) =>
                 \E inner \in [2 .. Len(t) -> 1 .. Len(s) + 1] :
                    Around(t, s, inner) = at /\ Covers(t, s, 1, 1, at)
<1>. DEFINE L == Len(t)
            M == Len(s)
<1>0. L \in Nat /\ M \in Nat
  BY DEF Text
<1>1. ASSUME NEW inner \in [2 .. L -> 1 .. M + 1], Covers(t, s, 1, 1, Around(t, s, inner))
      PROVE  Covering(t, s, Around(t, s, inner))
  <2>1. Around(t, s, inner) = [j \in 1 .. L + 1 |->
           IF j = 1 THEN 1 ELSE IF j > L THEN M + 1 ELSE inner[j]]
    BY DEF Around
  <2>2. Around(t, s, inner) \in [1 .. L + 1 -> 1 .. M + 1]
    <3>1. \A j \in 1 .. L + 1 : j = 1 \/ j > L \/ j \in 2 .. L
      BY <1>0
    <3>2. 1 \in 1 .. M + 1 /\ M + 1 \in 1 .. M + 1
      BY <1>0
    <3>. HIDE DEF L, M
    <3>. QED  BY <2>1, <3>1, <3>2
  <2>. QED  BY <1>1, <2>2 DEF Covering, Covers, Fits
<1>2. ASSUME NEW at, Covering(t, s, at)
      PROVE  \E inner \in [2 .. L -> 1 .. M + 1] :
                Around(t, s, inner) = at /\ Covers(t, s, 1, 1, at)
  <2>. DEFINE inner == [j \in 2 .. L |-> at[j]]
  <2>1. /\ at \in [1 .. L + 1 -> 1 .. M + 1] /\ at[1] = 1 /\ at[L + 1] = M + 1
        /\ \A j \in 1 .. L : Fits(t, s, j, at)
    BY <1>2 DEF Covering
  <2>2. inner \in [2 .. L -> 1 .. M + 1]
    <3>1. \A j \in 2 .. L : j \in 1 .. L + 1
      BY <1>0
    <3>. HIDE DEF L, M
    <3>. QED  BY <2>1, <3>1
  <2>3. Around(t, s, inner) = at
    <3>1. \A j \in 1 .. L + 1 : j # 1 /\ j > L => j = L + 1
      BY <1>0
    <3>2. \A j \in 1 .. L + 1 : j # 1 /\ ~(j > L) => j \in 2 .. L
      BY <1>0
    <3>3. Around(t, s, inner) = [j \in 1 .. L + 1 |->
             IF j = 1 THEN 1 ELSE IF j > L THEN M + 1 ELSE inner[j]]
      BY DEF Around
    <3>. HIDE DEF L, M
    <3>4. \A j \in 1 .. L + 1 :
             at[j] = IF j = 1 THEN 1 ELSE IF j > L THEN M + 1 ELSE inner[j]
      BY <2>1, <3>1, <3>2
    <3>5. at = [j \in 1 .. L + 1 |-> at[j]]
      BY <2>1
    <3>. QED  BY <3>3, <3>4, <3>5
  <2>4. Covers(t, s, 1, 1, at)
    BY <2>1 DEF Covers, Fits
  <2>. HIDE DEF inner
  <2>. QED  BY <2>2, <2>3, <2>4
<1>. QED  BY <1>1, <1>2

(* To accept is to have a cover.                                           *)
LEMMA AcceptsIff ==
    ASSUME NEW t, Len(t) \in Nat, NEW s \in Text
    PROVE  Accepts(t, s) <=> \E at : Covering(t, s, at)
<1>1. ASSUME Accepts(t, s)
      PROVE  \E at : Covering(t, s, at)
  BY <1>1, AroundCovers DEF Accepts
<1>2. ASSUME NEW at, Covering(t, s, at)
      PROVE  Accepts(t, s)
  BY <1>2, AroundCovers DEF Accepts
<1>. QED  BY <1>1, <1>2

(* The scan has reached where it stands, and no cover runs ahead of it.    *)
ReachedHere == Reached(tokens, Value, p, v, star, starV)
LeftmostHere == Leftmost(tokens, Value, p, v, star, starV)
Scanned == pc = "scan" => ReachedHere /\ LeftmostHere

LEMMA WithinHere ==
    ASSUME Typed, pc = "scan"
    PROVE  Within(tokens, Value, p, v, star, starV)
<1>1. tokens \in Seq(Elements)
  BY DEF Typed
<1>. HIDE DEF Value
<1>. QED  BY <1>1, ScanFacts DEF Within

(* Where a scan begins.                                                    *)
LEMMA ScannedFirst ==
    ASSUME NEW elements, Scan(elements), Typed', pc' = "scan"
    PROVE  Scanned'
<1>. DEFINE t == elements
            s == Value'
<1>1. tokens' = t /\ p' = 1 /\ v' = 1 /\ star' = 0 /\ starV' = 0
  BY DEF Scan
<1>2. s \in Text /\ Len(s) \in Nat
  <2>1. Head(todo') \in Pairs
    BY HeadTailProperties DEF Typed, TypeOK
  <2>2. Head(todo').value \in Text
    BY <2>1 DEF Pairs
  <2>. QED  BY <2>2 DEF Value, Text
<1>. HIDE DEF s
<1>3. Reached(t, s, 1, 1, 0, 0)
  <2>. DEFINE at == [j \in 1 .. 1 |-> 1]
  <2>1. at \in [1 .. 1 -> 1 .. Len(s) + 1] /\ at[1] = 1
    BY <1>2
  <2>2. \A j \in 1 .. 1 - 1 : FALSE
    OBVIOUS
  <2>3. Reaches(t, s, 1, 1, 0, 0, at)
    BY <2>1, <2>2 DEF Reaches
  <2>. QED  BY <2>3 DEF Reached
<1>4. Leftmost(t, s, 1, 1, 0, 0)
  BY DEF Leftmost, Covering
<1>. QED  BY <1>1, <1>3, <1>4 DEF s, Scanned, ReachedHere, LeftmostHere

LEMMA ScannedStep ==
    ASSUME Typed, Typed', Scanned, [Next]_vars
    PROVE  Scanned'
<1>1. CASE Star
  <2>1. /\ pc = "scan" /\ p <= Len(tokens) /\ IsStar(tokens[p]) /\ Value' = Value
        /\ UNCHANGED << pc, tokens, v >> /\ star' = p /\ starV' = v /\ p' = p + 1
    BY <1>1 DEF Star, MoreValue, AtStar, Value
  <2>. HIDE DEF Value
  <2>2. v \in 1 .. Len(Value) + 1 /\ v <= v
    BY <2>1, ScanFacts
  <2>3. Reached(tokens, Value, p + 1, v, p, v)
    BY <2>1, <2>2, WithinHere, ReachesOn DEF Scanned, ReachedHere
  <2>4. Leftmost(tokens, Value, p + 1, v, p, v)
    BY <2>1, WithinHere, LeftmostStar DEF Scanned, LeftmostHere
  <2>. QED  BY <2>1, <2>3, <2>4 DEF Scanned, ReachedHere, LeftmostHere
<1>2. CASE One
  <2>1. /\ pc = "scan" /\ p <= Len(tokens) /\ Takes(tokens[p], Value[v]) /\ v <= Len(Value)
        /\ Value' = Value
        /\ UNCHANGED << pc, tokens, star, starV >> /\ p' = p + 1 /\ v' = v + 1
    BY <1>2 DEF One, MoreValue, AtMatch, Value
  <2>. HIDE DEF Value
  <2>2. v + 1 \in 1 .. Len(Value) + 1 /\ ~IsStar(tokens[p])
    BY <2>1, ScanFacts DEF Takes
  <2>3. Reached(tokens, Value, p + 1, v + 1, star, starV)
    <3>1. /\ Within(tokens, Value, p, v, star, starV)
          /\ Reached(tokens, Value, p, v, star, starV)
      BY <2>1, WithinHere DEF Scanned, ReachedHere
    <3>2. IF IsStar(tokens[p]) THEN v <= v + 1
          ELSE v + 1 = v + 1 /\ v <= Len(Value) /\ Takes(tokens[p], Value[v])
      BY <2>1, <2>2
    <3>. QED  BY <2>1, <2>2, <3>1, <3>2, ReachesOn
  <2>4. Leftmost(tokens, Value, p + 1, v + 1, star, starV)
    BY <2>1, <2>2, WithinHere, LeftmostOne DEF Scanned, LeftmostHere
  <2>. QED  BY <2>1, <2>3, <2>4 DEF Scanned, ReachedHere, LeftmostHere
<1>3. CASE Restart
  <2>1. /\ pc = "scan" /\ ~AtStar /\ ~AtMatch /\ star # 0 /\ v <= Len(Value) /\ Value' = Value
        /\ UNCHANGED << pc, tokens, star >>
        /\ starV' = starV + 1 /\ p' = star + 1 /\ v' = starV + 1
    BY <1>3 DEF Restart, MoreValue, Value
  <2>. HIDE DEF Value
  <2>2. Reached(tokens, Value, star + 1, starV + 1, star, starV + 1)
    BY <2>1, WithinHere, ReachesBack DEF Scanned, ReachedHere
  <2>3. Leftmost(tokens, Value, star + 1, starV + 1, star, starV + 1)
    BY <2>1, WithinHere, LeftmostRestart DEF Scanned, LeftmostHere, AtStar, AtMatch
  <2>. QED  BY <2>1, <2>2, <2>3 DEF Scanned, ReachedHere, LeftmostHere
<1>4. CASE TrailingStar
  <2>1. /\ pc = "scan" /\ p <= Len(tokens) /\ IsStar(tokens[p]) /\ ~(v <= Len(Value))
        /\ Value' = Value
        /\ UNCHANGED << pc, tokens, v, star, starV >> /\ p' = p + 1
    BY <1>4 DEF TrailingStar, MoreValue, AtStar, Value
  <2>. HIDE DEF Value
  <2>2. v = Len(Value) + 1 /\ v \in 1 .. Len(Value) + 1 /\ v <= v
    BY <2>1, ScanFacts
  <2>3. Reached(tokens, Value, p + 1, v, star, starV)
    <3>1. /\ Within(tokens, Value, p, v, star, starV)
          /\ Reached(tokens, Value, p, v, star, starV)
      BY <2>1, WithinHere DEF Scanned, ReachedHere
    <3>2. IF IsStar(tokens[p]) THEN v <= v
          ELSE v = v + 1 /\ v <= Len(Value) /\ Takes(tokens[p], Value[v])
      BY <2>1, <2>2
    <3>. QED  BY <2>1, <2>2, <3>1, <3>2, ReachesOn
  <2>4. Leftmost(tokens, Value, p + 1, v, star, starV)
    BY <2>1, <2>2, WithinHere, LeftmostStar DEF Scanned, LeftmostHere
  <2>. QED  BY <2>1, <2>3, <2>4 DEF Scanned, ReachedHere, LeftmostHere
<1>5. CASE Literal
  <2>1. \/ pc' # "scan" \/ \E elements : Scan(elements)
    BY <1>5 DEF Literal, Matched, Answer
  <2>. QED  BY <2>1, ScannedFirst DEF Scanned
<1>6. CASE Resolved
  <2>1. \E elements : Scan(elements)
    BY <1>6 DEF Resolved
  <2>. QED  BY <2>1, ScannedFirst DEF Scanned
<1>7. CASE Mismatch \/ ScanEnds \/ Unresolvable
  BY <1>7 DEF Mismatch, ScanEnds, Unresolvable, Matched, Answer, Scanned
<1>8. CASE Call \/ RefuseARN \/ SplitARN \/ AllMatched \/ Return
  BY <1>8 DEF Call, RefuseARN, SplitARN, AllMatched, Return, Answer, Scanned
<1>9. CASE UNCHANGED vars
  BY <1>9 DEF vars, scanVars, Scanned, ReachedHere, LeftmostHere, Value
<1>. QED  BY <1>1, <1>2, <1>3, <1>4, <1>5, <1>6, <1>7, <1>8, <1>9 DEF Next, Step

LEMMA ScannedAlways == Spec => [](Typed /\ Scanned)
<1>1. Init => Scanned
  BY DEF Init, Scanned
<1>2. Typed /\ Typed' /\ Scanned /\ [Next]_vars => Scanned'
  BY ScannedStep
<1>. QED  BY <1>1, <1>2, TypedAlways, PTL DEF Spec

(* A scan that ends has decided whether the elements accept the value.     *)
LEMMA GlobStep ==
    ASSUME Typed, Scanned, [Next]_vars, pc = "scan", pc' # "scan"
    PROVE  IF Accepts(tokens, Value) THEN pc' = "next" ELSE pc' = "done" /\ answer' = FALSE
<1>0. tokens \in Seq(Elements) /\ Value \in Text /\ Len(Value) \in Nat /\ Len(tokens) \in Nat
  BY ScanFacts DEF Typed
<1>1. CASE Mismatch
  <2>1. /\ v <= Len(Value) /\ star = 0 /\ ~AtStar /\ ~AtMatch
        /\ pc' = "done" /\ answer' = FALSE
    BY <1>1 DEF Mismatch, MoreValue, Matched, Answer
  <2>. HIDE DEF Value
  <2>2. \A at : ~Covering(tokens, Value, at)
    BY <2>1, WithinHere, NoCover DEF Scanned, LeftmostHere, AtStar, AtMatch
  <2>. QED  BY <1>0, <2>1, <2>2, AcceptsIff
<1>2. CASE ScanEnds
  <2>1. ~(v <= Len(Value)) /\ ~AtStar /\ Matched(p = Len(tokens) + 1)
    BY <1>2 DEF ScanEnds, MoreValue
  <2>2. v = Len(Value) + 1
    <3>. HIDE DEF Value
    <3>. QED  BY <2>1, ScanFacts
  <2>3. CASE p = Len(tokens) + 1
    <3>1. pc' = "next"
      BY <2>1, <2>3 DEF Matched
    <3>. HIDE DEF Value
    <3>2. PICK at : Reaches(tokens, Value, p, v, star, starV, at)
      BY DEF Scanned, ReachedHere, Reached
    <3>3. (Len(tokens) + 1) - 1 = Len(tokens)
      BY <1>0
    <3>4. Covering(tokens, Value, at)
      BY <2>2, <2>3, <3>2, <3>3 DEF Reaches, Covering
    <3>. QED  BY <1>0, <3>1, <3>4, AcceptsIff
  <2>4. CASE p # Len(tokens) + 1
    <3>1. pc' = "done" /\ answer' = FALSE
      BY <2>1, <2>4 DEF Matched, Answer
    <3>. HIDE DEF Value
    <3>2. \A at : ~Covering(tokens, Value, at)
      BY <2>1, <2>2, <2>4, WithinHere, NoCover DEF Scanned, LeftmostHere, AtStar
    <3>. QED  BY <1>0, <3>1, <3>2, AcceptsIff
  <2>. QED  BY <2>3, <2>4
<1>3. CASE Star \/ One \/ Restart \/ TrailingStar \/ UNCHANGED vars
  BY <1>3 DEF Star, One, Restart, TrailingStar, vars
<1>. QED  BY <1>1, <1>2, <1>3
          DEF Next, Step, Call, RefuseARN, SplitARN, Literal, Unresolvable, Resolved,
              AllMatched, Return

(* matchGlob answers what the elements mean: a scan that ends goes on to   *)
(* the next component when the value has a cover, and refuses when it has  *)
(* none, however many stars the pattern has, though only the last of them  *)
(* can be restarted (match.go, matchGlob).                                 *)
GlobDecides ==
    [][pc = "scan" /\ pc' # "scan" =>
          IF Accepts(tokens, Value) THEN pc' = "next" ELSE pc' = "done" /\ answer' = FALSE]_vars

THEOREM GlobIsRight == Spec => GlobDecides
<1>. DEFINE Right == IF Accepts(tokens, Value) THEN pc' = "next"
                     ELSE pc' = "done" /\ answer' = FALSE
<1>1. Typed /\ Scanned /\ [Next]_vars => [pc = "scan" /\ pc' # "scan" => Right]_vars
  BY GlobStep
<1>. QED  BY <1>1, ScannedAlways, PTL DEF Spec, GlobDecides
----------------------------------------------------------------------------
(* References, met from left to right.  A byte that opens none leaves the  *)
(* scan outside of every variable.                                         *)
LEMMA PassByte ==
    ASSUME NEW s \in Text, NEW i \in 1 .. Len(s), ~InVariable(s, i), ~Opens(s, i)
    PROVE  /\ ~InVariable(s, i + 1)
           /\ \A r \in References(s) : r >= i <=> r >= i + 1
<1>. DEFINE L == Len(s)
<1>0. L \in Nat /\ i \in Int
  BY DEF Text
<1>1. ASSUME NEW j \in 1 .. (i + 1) - 1, Opens(s, j), \A k \in j + 2 .. (i + 1) - 1 : s[k] # "}"
      PROVE  FALSE
  <2>1. j \in 1 .. i - 1
    <3>1. j # i
      BY <1>1
    <3>. QED  BY <1>0, <3>1
  <2>2. \A k \in j + 2 .. i - 1 : k \in j + 2 .. (i + 1) - 1
    BY <1>0, <2>1
  <2>. QED  BY <1>1, <2>1, <2>2 DEF InVariable
<1>2. \A r \in References(s) : r \in Int /\ r # i
  BY <1>0 DEF References
<1>3. \A r \in References(s) : r >= i <=> r >= i + 1
  BY <1>0, <1>2
<1>4. ~InVariable(s, i + 1)
  BY <1>1 DEF InVariable
<1>. QED  BY <1>3, <1>4

(* A reference that is closed is passed as a whole.                        *)
LEMMA PassReference ==
    ASSUME NEW s \in Text, NEW i \in 1 .. Len(s), ~InVariable(s, i), Opens(s, i),
           Closing(s, i) # 0
    PROVE  /\ i \in References(s) /\ Closing(s, i) \in i + 2 .. Len(s)
           /\ ~InVariable(s, Closing(s, i) + 1)
           /\ \A r \in References(s) : r >= i <=> r = i \/ r >= Closing(s, i) + 1
<1>. DEFINE L == Len(s)
            c == Closing(s, i)
<1>0. L \in Nat /\ i \in Nat /\ i >= 1
  BY DEF Text
<1>1. c \in i + 2 .. L /\ s[c] = "}" /\ \A j \in i + 2 .. c - 1 : s[j] # "}"
  BY <1>0, ClosingFacts DEF Text
<1>2. i \in References(s)
  BY DEF References
<1>. HIDE DEF c, L
<1>3. c \in Int /\ i + 2 <= c /\ c <= L
  <2>1. c \in i + 2 .. L
    BY <1>1
  <2>. QED  BY <1>0, <2>1
<1>4. ASSUME NEW j \in Int, Opens(s, j)
      PROVE  j # c /\ j + 1 # c
  BY <1>1, <1>4 DEF Opens
<1>5. ~InVariable(s, c + 1)
  <2>1. ASSUME NEW j \in 1 .. (c + 1) - 1, Opens(s, j), \A k \in j + 2 .. (c + 1) - 1 : s[k] # "}"
        PROVE  FALSE
    <3>0. j \in Int /\ j >= 1 /\ j <= c
      BY <1>3
    <3>a. j # c /\ j + 1 # c
      BY <1>4, <2>1, <3>0
    <3>1. c \in j + 2 .. (c + 1) - 1
      BY <1>3, <3>0, <3>a
    <3>. QED  BY <1>1, <2>1, <3>1
  <2>. QED  BY <2>1 DEF InVariable
<1>6. ASSUME NEW r \in References(s)
      PROVE  r >= i <=> r = i \/ r >= c + 1
  <2>0. r \in Int /\ Opens(s, r) /\ ~InVariable(s, r)
    BY <1>0 DEF References
  <2>1. r # c
    BY <1>4, <2>0
  <2>2. ASSUME r > i, r < c
        PROVE  FALSE
    <3>1. i \in 1 .. r - 1
      BY <1>0, <2>0, <2>2
    <3>2. \A k \in i + 2 .. r - 1 : k \in i + 2 .. c - 1
      BY <1>0, <1>3, <2>0, <2>2
    <3>. QED  BY <1>1, <2>0, <3>1, <3>2 DEF InVariable
  <2>. QED  BY <1>0, <1>3, <2>0, <2>1, <2>2
<1>. QED  BY <1>1, <1>2, <1>5, <1>6 DEF c, L

(* UnresolvableVariable, position by position.                             *)
Known == LiteralVariables \cup Substitutable
Faults == {"ok", "unterminated", "unknown"}

FaultAt(s, U, i) ==
    IF ~Opens(s, i) THEN U[i + 1]
    ELSE IF Closing(s, i) = 0 THEN "unterminated"
    ELSE IF NameAt(s, i) \in Known THEN U[Closing(s, i) + 1]
    ELSE "unknown"

LEMMA FaultRecursion ==
    ASSUME NEW s \in Text
    PROVE  \E U : /\ UnresolvableVariable(s) = U[1]
                  /\ U[Len(s) + 1] = "ok"
                  /\ \A i \in 1 .. Len(s) : U[i] = FaultAt(s, U, i)
<1>. DEFINE L == Len(s)
            Start(i) == Opens(s, i)
            Open(i) == Closing(s, i) = 0
            Good(i) == NameAt(s, i) \in Known
            End(i) == Closing(s, i) + 1
            next == [i \in 1 .. L |-> IF ~Start(i) \/ Open(i) THEN i + 1 ELSE End(i)]
            step == [i \in 1 .. L |-> [x \in Faults |->
                       IF ~Start(i) THEN x ELSE IF Open(i) THEN "unterminated"
                       ELSE IF Good(i) THEN x ELSE "unknown"]]
            U[i \in 1 .. L + 1] ==
              IF i > L THEN "ok" ELSE IF ~Start(i) THEN U[i + 1]
              ELSE IF Open(i) THEN "unterminated" ELSE IF Good(i) THEN U[End(i)]
              ELSE "unknown"
<1>0. L \in Nat
  BY DEF Text
<1>1. UnresolvableVariable(s) = U[1]
  BY DEF UnresolvableVariable, Known
<1>2. Ahead(next, L)
  <2>1. ASSUME NEW i \in 1 .. L, ~Open(i)
        PROVE  End(i) \in i + 3 .. L + 1
    <3>1. i \in Nat
      BY <1>0
    <3>2. Closing(s, i) \in i + 2 .. L
      BY <2>1, <3>1, ClosingFacts DEF Text
    <3>. HIDE DEF L
    <3>. QED  BY <1>0, <3>1, <3>2
  <2>. HIDE DEF L, Start, Open, End
  <2>2. \A i \in 1 .. L : next[i] \in 1 .. (L + 1) /\ next[i] > i
    BY <1>0, <2>1
  <2>. QED  BY <1>0, <2>2 DEF Ahead
<1>3. step \in [1 .. L -> [Faults -> Faults]] /\ "ok" \in Faults
  <2>. HIDE DEF L, Start, Open, Good
  <2>. QED  BY DEF Faults
<1>4. \A i \in 1 .. L :
         /\ next[i] = IF ~Start(i) \/ Open(i) THEN i + 1 ELSE End(i)
         /\ \A x \in Faults : step[i][x] = IF ~Start(i) THEN x ELSE IF Open(i) THEN "unterminated"
                                           ELSE IF Good(i) THEN x ELSE "unknown"
  <2>. HIDE DEF L, Start, Open, Good, End
  <2>. QED  OBVIOUS
<1>. HIDE DEF L, Start, Open, Good, End, next, step
<1>5. PICK f : Recurses(f, L, Faults, "ok", next, step)
  BY <1>2, <1>3, Recursion
<1>6. /\ f \in [1 .. (L + 1) -> Faults] /\ f[L + 1] = "ok"
      /\ \A i \in 1 .. L : f[i] = step[i][f[next[i]]] /\ f[next[i]] \in Faults
  BY <1>2, <1>5 DEF Recurses, Ahead
<1>7. /\ \A i \in 1 .. L + 1 : i > L \/ i \in 1 .. L
      /\ \A i \in 1 .. L + 1 : i > L => i = L + 1
      /\ \A i \in 1 .. L : i \in 1 .. L + 1 /\ ~(i > L)
      /\ L + 1 \in 1 .. L + 1 /\ L + 1 > L
  BY <1>0
<1>8. f = [i \in 1 .. L + 1 |->
              IF i > L THEN "ok" ELSE IF ~Start(i) THEN f[i + 1]
              ELSE IF Open(i) THEN "unterminated" ELSE IF Good(i) THEN f[End(i)]
              ELSE "unknown"]
  <2>1. ASSUME NEW i \in 1 .. L + 1
        PROVE  f[i] = IF i > L THEN "ok" ELSE IF ~Start(i) THEN f[i + 1]
              ELSE IF Open(i) THEN "unterminated" ELSE IF Good(i) THEN f[End(i)]
              ELSE "unknown"
    BY <1>4, <1>6, <1>7
  <2>. QED  BY <1>6, <2>1
<1>9. U = [i \in 1 .. L + 1 |->
              IF i > L THEN "ok" ELSE IF ~Start(i) THEN U[i + 1]
              ELSE IF Open(i) THEN "unterminated" ELSE IF Good(i) THEN U[End(i)]
              ELSE "unknown"]
  BY <1>8
<1>. HIDE DEF U
<1>10. U[L + 1] = "ok"
  BY <1>7, <1>9
<1>11. ASSUME NEW i \in 1 .. L
       PROVE  U[i] = FaultAt(s, U, i)
  <2>1. U[i] = IF ~Start(i) THEN U[i + 1]
               ELSE IF Open(i) THEN "unterminated" ELSE IF Good(i) THEN U[End(i)]
               ELSE "unknown"
    BY <1>7, <1>9
  <2>. QED  BY <2>1 DEF FaultAt, Start, Open, Good, End
<1>. QED  BY <1>1, <1>10, <1>11 DEF L

(* The write path accepts a string exactly when each of its references is  *)
(* closed and names a key that is known.                                   *)
LEMMA FaultMeans ==
    ASSUME NEW s \in Text
    PROVE  UnresolvableVariable(s) = "ok" <=>
              \A r \in References(s) : Closing(s, r) # 0 /\ NameAt(s, r) \in Known
<1>. DEFINE L == Len(s)
            Fine(r) == Closing(s, r) # 0 /\ NameAt(s, r) \in Known
<1>0. L \in Nat /\ \A r \in References(s) : r \in 1 .. L
  BY DEF Text, References
<1>1. PICK U : /\ UnresolvableVariable(s) = U[1] /\ U[L + 1] = "ok"
               /\ \A i \in 1 .. L : U[i] = FaultAt(s, U, i)
  BY FaultRecursion
<1>. DEFINE M == L + 1
            P == { i \in 1 .. M : ~InVariable(s, i) =>
                      (U[i] = "ok" <=> \A r \in References(s) : r >= i => Fine(r)) }
<1>2. ASSUME NEW i \in 1 .. M, \A j \in i + 1 .. M : j \in P, ~InVariable(s, i)
      PROVE  U[i] = "ok" <=> \A r \in References(s) : r >= i => Fine(r)
  <2>1. CASE i = M
    <3>1. \A r \in References(s) : ~(r >= i)
      BY <1>0, <2>1
    <3>. QED  BY <1>1, <2>1, <3>1
  <2>2. CASE i # M
    <3>0. i \in 1 .. L /\ U[i] = FaultAt(s, U, i) /\ i + 1 \in i + 1 .. M
      BY <1>0, <1>1, <2>2
    <3>1. CASE ~Opens(s, i)
      <4>1. /\ ~InVariable(s, i + 1)
            /\ \A r \in References(s) : r >= i <=> r >= i + 1
        BY <1>2, <3>0, <3>1, PassByte
      <4>2. U[i + 1] = "ok" <=> \A r \in References(s) : r >= i + 1 => Fine(r)
        <5>. HIDE DEF M
        <5>. QED  BY <1>2, <3>0, <4>1
      <4>. QED  BY <3>0, <3>1, <4>1, <4>2 DEF FaultAt
    <3>2. CASE Opens(s, i) /\ Closing(s, i) = 0
      <4>1. i \in References(s) /\ i >= i /\ ~Fine(i)
        BY <1>2, <3>0, <3>2 DEF References
      <4>2. U[i] = "unterminated"
        BY <3>0, <3>2 DEF FaultAt
      <4>. HIDE DEF Fine
      <4>. QED  BY <4>1, <4>2
    <3>3. CASE Opens(s, i) /\ Closing(s, i) # 0
      <4>. DEFINE c == Closing(s, i)
      <4>1. /\ i \in References(s) /\ c \in i + 2 .. L
            /\ ~InVariable(s, c + 1)
            /\ \A r \in References(s) : r >= i <=> r = i \/ r >= c + 1
        BY <1>2, <3>0, <3>3, PassReference
      <4>2. U[i] = IF NameAt(s, i) \in Known THEN U[c + 1] ELSE "unknown"
        BY <3>0, <3>3 DEF FaultAt
      <4>. HIDE DEF c
      <4>3. c + 1 \in i + 1 .. M
        BY <1>0, <3>0, <4>1
      <4>4. U[c + 1] = "ok" <=> \A r \in References(s) : r >= c + 1 => Fine(r)
        <5>. HIDE DEF M
        <5>. QED  BY <1>2, <4>1, <4>3
      <4>5. Fine(i) <=> NameAt(s, i) \in Known
        BY <3>3
      <4>6. i >= i
        BY <3>0
      <4>. HIDE DEF Fine
      <4>. QED  BY <4>1, <4>2, <4>4, <4>5, <4>6
    <3>. QED  BY <3>1, <3>2, <3>3
  <2>. QED  BY <2>1, <2>2
<1>3. \A i \in 1 .. M : i \in P
  <2>1. \A i \in 1 .. M : (\A j \in i + 1 .. M : j \in P) => i \in P
    BY <1>2
  <2>2. M \in Nat
    BY <1>0
  <2>. HIDE DEF M, P
  <2>. QED  BY <2>1, <2>2, Downward
<1>4. 1 \in 1 .. M /\ ~InVariable(s, 1)
  BY <1>0 DEF InVariable
<1>5. U[1] = "ok" <=> \A r \in References(s) : r >= 1 => Fine(r)
  <2>. HIDE DEF M, Fine
  <2>. QED  BY <1>3, <1>4
<1>6. \A r \in References(s) : r >= 1
  BY <1>0
<1>. QED  BY <1>1, <1>5, <1>6

(* A policy that the write path accepts has a meaning at every door that   *)
(* supplies the keys, and one it refuses has a meaning at none, for every  *)
(* pattern and set of keys (variables.go, UnresolvableVariable against     *)
(* expandVariables).                                                       *)
THEOREM WritePathIsRight == Spec => []WritePathAgrees
<1>1. ASSUME Typed
      PROVE  WritePathAgrees
  <2>1. SUFFICES ASSUME pc # "idle", ~call.old
                 PROVE  LET fault == UnresolvableVariable(call.pattern)
                        IN  /\ fault = "ok" /\ Substitutable \subseteq DOMAIN call.keys
                                 => ~Meaningless(call)
                            /\ fault # "ok" => Meaningless(call)
    BY DEF WritePathAgrees
  <2>2. call \in Calls
    BY <1>1, <2>1 DEF Typed, TypeOK
  <2>3. call.pattern \in Text
    BY <2>1, <2>2, CallStrings DEF AsRead
  <2>4. UnresolvableVariable(call.pattern) = "ok" <=>
           \A r \in References(call.pattern) :
              Closing(call.pattern, r) # 0 /\ NameAt(call.pattern, r) \in Known
    BY <2>3, FaultMeans
  <2>. QED  BY <2>1, <2>4 DEF Meaningless, Resolvable, Known
<1>. QED  BY <1>1, TypedAlways, PTL
----------------------------------------------------------------------------
(* What is put before a text does not change what the text decodes to.     *)
LEMMA TokenAfter ==
    ASSUME NEW x \in Text, x # << >>, NEW r \in Text, NEW escapes,
           TokenNext(x \o r, escapes)[1] = Len(x) + 1
    PROVE  Token(x \o r, escapes) = TokenPiece(x \o r, escapes)[1] \o Token(r, escapes)
<1>. DEFINE n == Len(x)
            L == Len(r)
            s == x \o r
<1>0. n \in Nat \ {0} /\ L \in Nat /\ s \in Text /\ Len(s) = L + n
  <2>1. n \in Nat \ {0}
    BY EmptySeq DEF Text
  <2>2. s \in Text /\ Len(s) = n + L /\ L \in Nat
    BY ConcatProperties DEF Text
  <2>. QED  BY <2>1, <2>2
<1>1. \A i \in 1 .. L : s[i + n] = r[i] /\ i + n \in 1 .. L + n
  <2>1. \A i \in 1 .. L : i + n \in 1 .. n + L /\ ~(i + n <= n) /\ (i + n) - n = i
    BY <1>0
  <2>2. \A i \in 1 .. n + L : s[i] = IF i <= n THEN x[i] ELSE r[i - n]
    BY ConcatProperties DEF Text
  <2>. HIDE DEF n, L, s
  <2>3. \A i \in 1 .. L : i + n \in 1 .. L + n
    BY <1>0
  <2>. QED  BY <2>1, <2>2, <2>3
<1>2. \A i \in 1 .. L : i < L => s[(i + 1) + n] = r[i + 1] /\ (i + 1) + n = (i + n) + 1
  <2>1. \A i \in 1 .. L : i < L => i + 1 \in 1 .. L /\ (i + 1) + n = (i + n) + 1
    BY <1>0
  <2>. QED  BY <1>1, <2>1
<1>3. \A i \in 1 .. L : Escaped(s, escapes, i + n) <=> Escaped(r, escapes, i)
  <2>1. \A i \in 1 .. L : i + n < L + n <=> i < L
    BY <1>0
  <2>. QED  BY <1>0, <1>1, <2>1 DEF Escaped
<1>4. PICK f : Token(s, escapes) = f[1]
               /\ Joins(f, L + n, TokenNext(s, escapes), TokenPiece(s, escapes))
  BY <1>0, TokenJoins
<1>5. PICK g : Token(r, escapes) = g[1]
               /\ Joins(g, L, TokenNext(r, escapes), TokenPiece(r, escapes))
  BY TokenJoins
<1>6. Ahead(TokenNext(r, escapes), L)
  BY TokenJoins
<1>7. ASSUME NEW i \in 1 .. L
      PROVE  /\ TokenNext(s, escapes)[i + n] = TokenNext(r, escapes)[i] + n
             /\ TokenPiece(s, escapes)[i + n] = TokenPiece(r, escapes)[i]
  <2>1. TokenNext(s, escapes)[i + n] = IF Escaped(s, escapes, i + n) THEN (i + n) + 2 ELSE (i + n) + 1
    BY <1>0, <1>1 DEF TokenNext
  <2>2. TokenPiece(s, escapes)[i + n] = IF Escaped(s, escapes, i + n) THEN << Kept(s[(i + n) + 1]) >>
                                        ELSE << Element(s[i + n]) >>
    BY <1>0, <1>1 DEF TokenPiece
  <2>3. TokenNext(r, escapes)[i] = IF Escaped(r, escapes, i) THEN i + 2 ELSE i + 1
    BY DEF TokenNext
  <2>4. TokenPiece(r, escapes)[i] = IF Escaped(r, escapes, i) THEN << Kept(r[i + 1]) >>
                                    ELSE << Element(r[i]) >>
    BY DEF TokenPiece
  <2>5. Escaped(r, escapes, i) => i < L
    BY DEF Escaped
  <2>6. (i + n) + 2 = (i + 2) + n /\ (i + n) + 1 = (i + 1) + n
    BY <1>0
  <2>. HIDE DEF s, L, n
  <2>. QED  BY <1>1, <1>2, <1>3, <2>1, <2>2, <2>3, <2>4, <2>5, <2>6
<1>8. TokenNext(s, escapes)[1] = n + 1
  OBVIOUS
<1>9. Shifted(L, n, TokenNext(r, escapes), TokenPiece(r, escapes),
              TokenNext(s, escapes), TokenPiece(s, escapes))
  BY <1>7 DEF Shifted
<1>. HIDE DEF s, L, n
<1>10. f[1] = TokenPiece(s, escapes)[1] \o g[1]
  <2>1. n \in Nat /\ L \in Nat /\ 1 \in 1 .. (L + n) /\ 1 \in 1 .. (L + 1) /\ 1 + n = n + 1
    BY <1>0
  <2>2. \A i \in 1 .. (L + 1) : f[i + n] = g[i]
    BY <1>4, <1>5, <1>6, <1>9, <2>1, Shift
  <2>3. f[1 + n] = g[1]
    BY <2>1, <2>2
  <2>4. f[1] = TokenPiece(s, escapes)[1] \o f[TokenNext(s, escapes)[1]]
    BY <1>4, <2>1 DEF Joins
  <2>. QED  BY <1>8, <2>1, <2>3, <2>4
<1>. QED  BY <1>4, <1>5, <1>10 DEF s

LEMMA TokenPlain ==
    ASSUME NEW a \in Byte, NEW r \in Text, NEW escapes \in BOOLEAN, ~(escapes /\ a = "\\")
    PROVE  Token(<< a >> \o r, escapes) = << Element(a) >> \o Token(r, escapes)
<1>. DEFINE x == << a >>
            s == x \o r
<1>1. x \in Text /\ x # << >> /\ Len(x) = 1 /\ x[1] = a
  BY DEF Text
<1>2. s[1] = a /\ Len(s) \in Nat /\ 1 \in 1 .. Len(s)
  <2>1. Len(r) \in Nat
    BY DEF Text
  <2>2. 1 \in 1 .. 1 + Len(r) /\ 1 <= 1
    BY <2>1
  <2>. HIDE DEF x
  <2>3. Len(s) = 1 + Len(r) /\ s[1] = x[1]
    BY <1>1, <2>2, ConcatProperties DEF Text
  <2>. QED  BY <1>1, <2>1, <2>2, <2>3
<1>. HIDE DEF x, s
<1>3. ~Escaped(s, escapes, 1)
  BY <1>2 DEF Escaped
<1>4. TokenNext(s, escapes)[1] = Len(x) + 1 /\ TokenPiece(s, escapes)[1] = << Element(a) >>
  BY <1>1, <1>2, <1>3 DEF TokenNext, TokenPiece
<1>5. Token(s, escapes) = TokenPiece(s, escapes)[1] \o Token(r, escapes)
  BY <1>1, <1>4, TokenAfter DEF s
<1>. QED  BY <1>4, <1>5 DEF s, x

LEMMA TokenEscaped ==
    ASSUME NEW a \in Byte, NEW r \in Text
    PROVE  Token(<< "\\", a >> \o r, TRUE) = << Kept(a) >> \o Token(r, TRUE)
<1>. DEFINE x == << "\\", a >>
            s == x \o r
<1>1. x \in Text /\ x # << >> /\ Len(x) = 2 /\ x[1] = "\\" /\ x[2] = a
  <2>1. "\\" \in Byte
    BY DEF Byte, Special
  <2>. QED  BY <2>1 DEF Text
<1>2. s[1] = "\\" /\ s[2] = a /\ 1 < Len(s) /\ 1 \in 1 .. Len(s)
  <2>1. Len(r) \in Nat
    BY DEF Text
  <2>2. 1 \in 1 .. 2 + Len(r) /\ 1 <= 2 /\ 2 \in 1 .. 2 + Len(r) /\ 2 <= 2 /\ 1 < 2 + Len(r)
    BY <2>1
  <2>. HIDE DEF x
  <2>a. /\ Len(s) = Len(x) + Len(r)
        /\ \A i \in 1 .. Len(x) + Len(r) : s[i] = IF i <= Len(x) THEN x[i] ELSE r[i - Len(x)]
    BY <1>1, ConcatProperties DEF Text
  <2>. HIDE DEF s
  <2>3. Len(s) = 2 + Len(r) /\ s[1] = x[1] /\ s[2] = x[2]
    BY <1>1, <2>2, <2>a
  <2>. QED  BY <1>1, <2>1, <2>2, <2>3
<1>. HIDE DEF x, s
<1>3. Escaped(s, TRUE, 1)
  BY <1>2 DEF Escaped
<1>4. TokenNext(s, TRUE)[1] = Len(x) + 1 /\ TokenPiece(s, TRUE)[1] = << Kept(a) >>
  BY <1>1, <1>2, <1>3 DEF TokenNext, TokenPiece
<1>5. Token(s, TRUE) = TokenPiece(s, TRUE)[1] \o Token(r, TRUE)
  BY <1>1, <1>4, TokenAfter DEF s
<1>. QED  BY <1>4, <1>5 DEF s, x

LEMMA TokenNothing ==
    ASSUME NEW escapes
    PROVE  Token(<< >>, escapes) = << >>
<1>1. << >> \in Text /\ Len(<< >>) = 0 /\ 0 + 1 = 1
  BY EmptySeq DEF Text
<1>2. PICK T : /\ Token(<< >>, escapes) = T[1]
               /\ Joins(T, Len(<< >>), TokenNext(<< >>, escapes), TokenPiece(<< >>, escapes))
  BY <1>1, TokenJoins
<1>. QED  BY <1>1, <1>2 DEF Joins

(* Elements that match alike, with or without the mark of where they come  *)
(* from.                                                                   *)
Marked == [char : Byte, meta : BOOLEAN, own : BOOLEAN]

Same(t, m) ==
    /\ t \in Seq(Elements) /\ m \in Seq(Marked) /\ Len(t) = Len(m)
    /\ \A j \in 1 .. Len(t) : t[j].char = m[j].char /\ t[j].meta = m[j].meta

LEMMA AcceptsSame ==
    ASSUME NEW t, NEW m, Same(t, m), NEW s
    PROVE  Accepts(t, s) <=> Accepts(m, s)
<1>1. Len(t) = Len(m)
  BY DEF Same
<1>2. \A j \in 1 .. Len(t) : /\ IsStar(t[j]) <=> IsStar(m[j])
                             /\ \A c : Takes(t[j], c) <=> Takes(m[j], c)
  <2>1. \A j \in 1 .. Len(t) : t[j] \in Elements /\ m[j] \in Marked
    BY DEF Same
  <2>. QED  BY <2>1 DEF Same, IsStar, Takes, Elements, Marked
<1>3. \A inner : Around(t, s, inner) = Around(m, s, inner)
  BY <1>1 DEF Around
<1>4. ASSUME NEW at
      PROVE  Covers(t, s, 1, 1, at) <=> Covers(m, s, 1, 1, at)
  BY <1>1, <1>2 DEF Covers
<1>. QED  BY <1>1, <1>3, <1>4 DEF Accepts

LEMMA SameConcat ==
    ASSUME NEW t, NEW m, Same(t, m), NEW u, NEW n, Same(u, n)
    PROVE  Same(t \o u, m \o n)
<1>1. /\ t \in Seq(Elements) /\ m \in Seq(Marked) /\ Len(t) = Len(m) /\ Len(t) \in Nat
      /\ u \in Seq(Elements) /\ n \in Seq(Marked) /\ Len(u) = Len(n) /\ Len(u) \in Nat
  BY DEF Same
<1>2. /\ t \o u \in Seq(Elements) /\ Len(t \o u) = Len(t) + Len(u)
      /\ \A i \in 1 .. Len(t) + Len(u) : (t \o u)[i] = IF i <= Len(t) THEN t[i] ELSE u[i - Len(t)]
  BY <1>1, ConcatProperties
<1>3. /\ m \o n \in Seq(Marked) /\ Len(m \o n) = Len(t) + Len(u)
      /\ \A i \in 1 .. Len(t) + Len(u) : (m \o n)[i] = IF i <= Len(t) THEN m[i] ELSE n[i - Len(t)]
  BY <1>1, ConcatProperties
<1>4. ASSUME NEW j \in 1 .. Len(t) + Len(u)
      PROVE  (t \o u)[j].char = (m \o n)[j].char /\ (t \o u)[j].meta = (m \o n)[j].meta
  <2>1. CASE j <= Len(t)
    <3>1. j \in 1 .. Len(t)
      BY <1>1, <2>1
    <3>2. (t \o u)[j] = t[j] /\ (m \o n)[j] = m[j]
      BY <1>2, <1>3, <2>1
    <3>. QED  BY <3>1, <3>2 DEF Same
  <2>2. CASE ~(j <= Len(t))
    <3>1. j - Len(t) \in 1 .. Len(u)
      BY <1>1, <2>2
    <3>2. (t \o u)[j] = u[j - Len(t)] /\ (m \o n)[j] = n[j - Len(t)]
      BY <1>2, <1>3, <2>2
    <3>. QED  BY <3>1, <3>2 DEF Same
  <2>. QED  BY <2>1, <2>2
<1>. QED  BY <1>2, <1>3, <1>4 DEF Same

LEMMA SameNothing == Same(<< >>, << >>)
<1>1. << >> \in Seq(Elements) /\ << >> \in Seq(Marked) /\ Len(<< >>) = 0
  BY EmptySeq
<1>. QED  BY <1>1 DEF Same

LEMMA SameOne ==
    ASSUME NEW e \in Elements, NEW m \in Marked, e.char = m.char, e.meta = m.meta
    PROVE  Same(<< e >>, << m >>)
<1>1. << e >> \in Seq(Elements) /\ << m >> \in Seq(Marked) /\ Len(<< e >>) = 1 /\ Len(<< m >>) = 1
  OBVIOUS
<1>2. << e >>[1] = e /\ << m >>[1] = m /\ \A j \in 1 .. 1 : j = 1
  OBVIOUS
<1>. QED  BY <1>1, <1>2 DEF Same

LEMMA ElementFacts ==
    ASSUME NEW a \in Byte
    PROVE  /\ Kept(a) \in Elements /\ Kept(a).char = a /\ Kept(a).meta = FALSE
           /\ Element(a) \in Elements /\ Element(a).char = a
           /\ Element(a).meta = (a \in Metacharacters)
  BY DEF Kept, Element, Elements

(* What is escaped decodes to itself, and is a wildcard only where it was  *)
(* not escaped.                                                            *)
LEMMA SameEscaped ==
    ASSUME NEW x \in Text, NEW chars, "\\" \in chars, NEW r \in Text,
           NEW m \in Seq(Marked), Len(m) = Len(x),
           \A j \in 1 .. Len(x) : /\ m[j].char = x[j]
                                  /\ m[j].meta = (x[j] \notin chars /\ x[j] \in Metacharacters),
           NEW n, Same(Token(r, TRUE), n)
    PROVE  Same(Token(WriteEscaped(x, chars) \o r, TRUE), m \o n)
<1>. DEFINE L == Len(x)
            M == L + 1
<1>0. L \in Nat /\ M \in Nat /\ \A i \in 1 .. L : x[i] \in Byte
  BY DEF Text
<1>1. PICK W : /\ WriteEscaped(x, chars) = W[1]
               /\ Joins(W, L, OneByOne(x), EscapePiece(x, chars))
  BY EscapeJoins
<1>2. W[L + 1] = << >> /\ \A i \in 1 .. L : W[i] = Byted(x[i], chars) \o W[i + 1]
  BY <1>1 DEF Joins, OneByOne, EscapePiece
<1>3. \A i \in 1 .. M : W[i] \in Text
  <2>1. EscapePiece(x, chars) \in [1 .. L -> Seq(Byte)]
    BY <1>0, EscapePieceType
  <2>. QED  BY <1>1, <2>1, OneByOneAhead, PiecesType DEF Text
<1>4. n \in Seq(Marked)
  BY DEF Same
<1>. DEFINE Rest(i) == SubSeq(m, i, L)
            P == { i \in 1 .. M : Same(Token(W[i] \o r, TRUE), Rest(i) \o n) }
<1>5. ASSUME NEW i \in 1 .. M
      PROVE  Rest(i) \in Seq(Marked)
  <2>1. \A j \in i .. L : j \in 1 .. L /\ m[j] \in Marked
    BY <1>0
  <2>2. i \in Int /\ L \in Int
    BY <1>0
  <2>. HIDE DEF L
  <2>. QED  BY <2>1, <2>2, SubSeqProperties
<1>6. ASSUME NEW i \in 1 .. M, \A j \in i + 1 .. M : j \in P
      PROVE  i \in P
  <2>1. CASE i = M
    <3>1. W[i] \o r = r
      BY <1>2, <2>1, ConcatEmptySeq DEF Text
    <3>2. Rest(i) = << >>
      BY <1>0, <2>1, SubSeqEmpty
    <3>3. << >> \o n = n
      BY <1>4, ConcatEmptySeq
    <3>. HIDE DEF Rest
    <3>. QED  BY <3>1, <3>2, <3>3
  <2>2. CASE i # M
    <3>. DEFINE b == Byted(x[i], chars)
                rest == W[i + 1] \o r
                e == IF x[i] \in chars THEN Kept(x[i]) ELSE Element(x[i])
    <3>0. i \in 1 .. L /\ i + 1 \in 1 .. M /\ i + 1 \in i + 1 .. M
      BY <1>0, <2>2
    <3>1. W[i] = b \o W[i + 1] /\ W[i + 1] \in Text /\ x[i] \in Byte
      BY <1>0, <1>2, <1>3, <3>0
    <3>2. b \in Text
      <4>1. "\\" \in Byte
        BY DEF Byte, Special
      <4>. QED  BY <3>1, <4>1 DEF Byted, Text
    <3>3. rest \in Text
      BY <3>1, ConcatProperties DEF Text
    <3>4. W[i] \o r = b \o rest
      <4>1. \A a, c, d \in Seq(Byte) : (a \o c) \o d = a \o (c \o d)
        BY ConcatAssociative, SMTT(30)
      <4>. DEFINE w == W[i + 1]
      <4>2. b \in Seq(Byte) /\ w \in Seq(Byte) /\ r \in Seq(Byte)
        BY <3>1, <3>2 DEF Text
      <4>3. W[i] = b \o w
        BY <3>1
      <4>. HIDE DEF b, w
      <4>4. (b \o w) \o r = b \o (w \o r)
        BY <4>1, <4>2
      <4>. QED  BY <4>3, <4>4 DEF w
    <3>5. Token(b \o rest, TRUE) = << e >> \o Token(rest, TRUE)
      <4>1. CASE x[i] \in chars
        <5>. HIDE DEF rest
        <5>. QED  BY <3>1, <3>3, <4>1, TokenEscaped DEF Byted
      <4>2. CASE x[i] \notin chars
        <5>1. x[i] # "\\"
          BY <4>2
        <5>. HIDE DEF rest
        <5>. QED  BY <3>1, <3>3, <4>2, <5>1, TokenPlain DEF Byted
      <4>. QED  BY <4>1, <4>2
    <3>6. Same(<< e >>, << m[i] >>)
      <4>1. e \in Elements /\ e.char = x[i] /\ e.meta = (x[i] \notin chars /\ x[i] \in Metacharacters)
        <5>1. CASE x[i] \in chars
          <6>1. e = Kept(x[i])
            BY <5>1
          <6>2. e \in Elements /\ e.char = x[i] /\ e.meta = FALSE
            BY <3>1, <6>1, ElementFacts
          <6>. HIDE DEF e
          <6>. QED  BY <5>1, <6>2
        <5>2. CASE x[i] \notin chars
          <6>1. e = Element(x[i])
            BY <5>2
          <6>2. e \in Elements /\ e.char = x[i] /\ e.meta = (x[i] \in Metacharacters)
            BY <3>1, <6>1, ElementFacts
          <6>. HIDE DEF e
          <6>. QED  BY <5>2, <6>2
        <5>. QED  BY <5>1, <5>2
      <4>2. m[i] \in Marked /\ m[i].char = x[i]
            /\ m[i].meta = (x[i] \notin chars /\ x[i] \in Metacharacters)
        BY <3>0
      <4>. HIDE DEF e
      <4>. QED  BY <4>1, <4>2, SameOne
    <3>7. Same(Token(rest, TRUE), Rest(i + 1) \o n)
      BY <1>6, <3>0
    <3>8. Rest(i) \o n = << m[i] >> \o (Rest(i + 1) \o n)
      <4>1. Rest(i) = << m[i] >> \o Rest(i + 1)
        <5>1. i \in 1 .. Len(m) /\ L \in i .. Len(m)
          BY <1>0, <3>0
        <5>. QED  BY <5>1, SubSeqRecursiveFirst
      <4>2. << m[i] >> \in Seq(Marked)
        BY <3>0
      <4>3. Rest(i + 1) \in Seq(Marked)
        BY <1>5, <3>0
      <4>. HIDE DEF Rest
      <4>. QED  BY <1>4, <4>1, <4>2, <4>3, ConcatAssociative
    <3>. HIDE DEF b, rest, e, Rest
    <3>9. Same(<< e >> \o Token(rest, TRUE), << m[i] >> \o (Rest(i + 1) \o n))
      BY <3>6, <3>7, SameConcat
    <3>. QED  BY <3>4, <3>5, <3>8, <3>9
  <2>. QED  BY <2>1, <2>2
<1>7. 1 \in P
  <2>1. \A i \in 1 .. M : (\A j \in i + 1 .. M : j \in P) => i \in P
    BY <1>6
  <2>2. 1 \in 1 .. M
    BY <1>0
  <2>. HIDE DEF M, P
  <2>. QED  BY <1>0, <2>1, <2>2, Downward
<1>8. Rest(1) = m
  BY SubSeqFull
<1>. HIDE DEF Rest
<1>. QED  BY <1>1, <1>7, <1>8
----------------------------------------------------------------------------
(* When every reference is closed, so is whatever opens inside of one.     *)
LEMMA AllClosed ==
    ASSUME NEW s \in Text, \A r \in References(s) : Closing(s, r) # 0
    PROVE  \A i \in 1 .. Len(s) : Opens(s, i) => Closing(s, i) # 0
<1>. DEFINE L == Len(s)
            Bad == { i \in 1 .. L : Opens(s, i) /\ Closing(s, i) = 0 }
<1>0. L \in Nat
  BY DEF Text
<1>1. SUFFICES ASSUME Bad # {}
               PROVE  FALSE
  OBVIOUS
<1>2. PICK i \in Bad : \A j \in Bad : i <= j
  <2>1. \A j \in Bad : j \in Nat
    <3>1. \A j \in 1 .. L : j \in Nat
      BY <1>0
    <3>. QED  BY <3>1
  <2>. HIDE DEF Bad
  <2>. QED  BY <1>1, <2>1, Least
<1>3. i \in 1 .. L /\ Opens(s, i) /\ Closing(s, i) = 0
  OBVIOUS
<1>4. PICK j \in 1 .. i - 1 : Opens(s, j) /\ \A k \in j + 2 .. i - 1 : s[k] # "}"
  BY <1>3 DEF References, InVariable
<1>. HIDE DEF Bad, L
<1>5. j \in 1 .. L /\ j \in Nat /\ i \in Nat /\ ~(i <= j)
  BY <1>0, <1>3
<1>6. Closing(s, j) # 0
  BY <1>2, <1>4, <1>5 DEF Bad
<1>7. \A k \in i + 2 .. L : s[k] # "}"
  <2>1. Closing(s, i) \notin i + 2 .. L
    BY <1>0, <1>3, <1>5
  <2>. QED  BY <1>3, <1>5, <2>1, ClosingFacts DEF Text, L
<1>8. Closing(s, j) \in j + 2 .. L /\ s[Closing(s, j)] = "}"
  BY <1>5, <1>6, ClosingFacts DEF Text, L
<1>9. Closing(s, j) \notin j + 2 .. i - 1 /\ Closing(s, j) \notin i + 2 .. L
  BY <1>4, <1>7, <1>8
<1>10. Closing(s, j) = i \/ Closing(s, j) = i + 1
  <2>. DEFINE c == Closing(s, j)
  <2>1. c \in j + 2 .. L /\ c \notin j + 2 .. i - 1 /\ c \notin i + 2 .. L
    BY <1>8, <1>9
  <2>. HIDE DEF c
  <2>2. c = i \/ c = i + 1
    BY <1>0, <1>5, <2>1
  <2>. QED  BY <2>2 DEF c
<1>. QED  BY <1>3, <1>8, <1>10 DEF Opens

(* The meaning of a pattern, piece by piece.                               *)
MeaningNext(s, old) ==
    [i \in 1 .. Len(s) |-> IF old \/ ~Opens(s, i) THEN i + 1 ELSE Closing(s, i) + 1]
MeaningPiece(s, keys, old) ==
    [i \in 1 .. Len(s) |-> IF old \/ ~Opens(s, i) THEN << Own(s[i]) >>
                           ELSE Substituted(ValueOf(NameAt(s, i), keys))]

LEMMA MeaningJoins ==
    ASSUME NEW s \in Text, NEW keys, NEW old,
           old \/ \A i \in 1 .. Len(s) : Opens(s, i) => Closing(s, i) # 0
    PROVE  \E M : /\ Meaning(s, keys, old) = M[1]
                  /\ Joins(M, Len(s), MeaningNext(s, old), MeaningPiece(s, keys, old))
<1>. DEFINE L == Len(s)
            Byte1(i) == old \/ ~Opens(s, i)
            A(i) == << Own(s[i]) >>
            B(i) == Substituted(ValueOf(NameAt(s, i), keys))
            End(i) == Closing(s, i) + 1
            next == MeaningNext(s, old)
            piece == MeaningPiece(s, keys, old)
            M[i \in 1 .. L + 1] ==
              IF i > L THEN << >> ELSE IF Byte1(i) THEN A(i) \o M[i + 1] ELSE B(i) \o M[End(i)]
<1>0. L \in Nat
  BY DEF Text
<1>1. Meaning(s, keys, old) = M[1]
  BY DEF Meaning
<1>2. \A i \in 1 .. L : /\ next[i] = IF Byte1(i) THEN i + 1 ELSE End(i)
                       /\ piece[i] = IF Byte1(i) THEN A(i) ELSE B(i)
  BY DEF MeaningNext, MeaningPiece
<1>3. Ahead(next, L)
  <2>1. ASSUME NEW i \in 1 .. L, ~Byte1(i)
        PROVE  End(i) \in i + 3 .. L + 1
    <3>1. i \in Nat /\ Closing(s, i) # 0
      BY <1>0, <2>1
    <3>2. Closing(s, i) \in i + 2 .. L
      BY <3>1, ClosingFacts DEF Text
    <3>. HIDE DEF L
    <3>. QED  BY <1>0, <3>1, <3>2
  <2>2. next = [i \in 1 .. L |-> IF Byte1(i) THEN i + 1 ELSE End(i)]
    BY DEF MeaningNext
  <2>. HIDE DEF L, Byte1, End, next
  <2>3. \A i \in 1 .. L : next[i] \in 1 .. (L + 1) /\ next[i] > i
    BY <1>0, <2>1, <2>2
  <2>. QED  BY <1>0, <2>2, <2>3 DEF Ahead
<1>. HIDE DEF next, piece, L, Byte1, A, B, End
<1>4. PICK f : f = [i \in 1 .. (L + 1) |-> f[i]] /\ Joins(f, L, next, piece)
  BY <1>3, Pieces
<1>5. /\ \A i \in 1 .. L + 1 : i > L \/ i \in 1 .. L
      /\ \A i \in 1 .. L + 1 : i > L => i = L + 1
      /\ L + 1 > L /\ L + 1 \in 1 .. L + 1 /\ \A i \in 1 .. L : i \in 1 .. L + 1 /\ ~(i > L)
  BY <1>0
<1>6. f = [i \in 1 .. L + 1 |->
              IF i > L THEN << >> ELSE IF Byte1(i) THEN A(i) \o f[i + 1] ELSE B(i) \o f[End(i)]]
  <2>1. \A i \in 1 .. L + 1 : f[i] =
           IF i > L THEN << >> ELSE IF Byte1(i) THEN A(i) \o f[i + 1] ELSE B(i) \o f[End(i)]
    BY <1>2, <1>4, <1>5 DEF Joins
  <2>. QED  BY <1>4, <2>1
<1>7. M = [i \in 1 .. L + 1 |->
              IF i > L THEN << >> ELSE IF Byte1(i) THEN A(i) \o M[i + 1] ELSE B(i) \o M[End(i)]]
  BY <1>6
<1>. HIDE DEF M
<1>8. Joins(M, L, next, piece)
  <2>1. M[L + 1] = << >>
    BY <1>5, <1>7
  <2>2. ASSUME NEW i \in 1 .. L
        PROVE  M[i] = piece[i] \o M[next[i]]
    <3>1. M[i] = IF Byte1(i) THEN A(i) \o M[i + 1] ELSE B(i) \o M[End(i)]
      BY <1>5, <1>7
    <3>. QED  BY <1>2, <3>1
  <2>. QED  BY <2>1, <2>2 DEF Joins
<1>. QED  BY <1>1, <1>8 DEF L, next, piece

(* An expansion succeeds exactly when each reference is closed and can be  *)
(* resolved: the others are never reached.                                 *)
LEMMA ExpandMeans ==
    ASSUME NEW s \in Text, NEW keys, \A name \in DOMAIN keys : keys[name] \in Text
    PROVE  ExpandVariables(s, keys).ok <=>
              \A r \in References(s) : Closing(s, r) # 0 /\ Resolvable(NameAt(s, r), keys)
<1>. DEFINE L == Len(s)
            M == L + 1
            Fine(r) == Closing(s, r) # 0 /\ Resolvable(NameAt(s, r), keys)
<1>0. L \in Nat /\ M \in Nat /\ \A r \in References(s) : r \in 1 .. L
  BY DEF Text, References
<1>1. PICK E : /\ ExpandVariables(s, keys) = E[1] /\ Expands(s, keys, E)
               /\ \A i \in 1 .. M : E[i] \in Expanded
  BY ExpandRecursion
<1>2. /\ E[M].ok = TRUE
      /\ \A i \in 1 .. L : E[i].ok = IF FailsAt(s, keys, i) THEN FALSE ELSE E[AfterThis(s, i)].ok
  <2>1. E[M] = Empty
    BY <1>1 DEF Expands
  <2>2. ASSUME NEW i \in 1 .. L
        PROVE  E[i].ok = IF FailsAt(s, keys, i) THEN FALSE ELSE E[AfterThis(s, i)].ok
    <3>1. E[i] = IF FailsAt(s, keys, i) THEN Failed
                 ELSE [ok |-> E[AfterThis(s, i)].ok,
                       text |-> TextAt(s, keys, i) \o E[AfterThis(s, i)].text]
      BY <1>1 DEF Expands
    <3>2. CASE FailsAt(s, keys, i)
      BY <3>1, <3>2 DEF Failed
    <3>3. CASE ~FailsAt(s, keys, i)
      BY <3>1, <3>3
    <3>. QED  BY <3>2, <3>3
  <2>3. E[M].ok = TRUE
    BY <2>1 DEF Empty
  <2>. QED  BY <2>2, <2>3
<1>. DEFINE P == { i \in 1 .. M : ~InVariable(s, i) =>
                      (E[i].ok <=> \A r \in References(s) : r >= i => Fine(r)) }
<1>3. ASSUME NEW i \in 1 .. M, \A j \in i + 1 .. M : j \in P, ~InVariable(s, i)
      PROVE  E[i].ok <=> \A r \in References(s) : r >= i => Fine(r)
  <2>1. CASE i = M
    <3>1. \A r \in References(s) : ~(r >= i)
      BY <1>0, <2>1
    <3>. QED  BY <1>2, <2>1, <3>1
  <2>2. CASE i # M
    <3>0. i \in 1 .. L /\ i + 1 \in i + 1 .. M /\ i >= i
      BY <1>0, <2>2
    <3>1. CASE ~Opens(s, i)
      <4>1. /\ ~InVariable(s, i + 1)
            /\ \A r \in References(s) : r >= i <=> r >= i + 1
        BY <1>3, <3>0, <3>1, PassByte
      <4>2. E[i + 1].ok <=> \A r \in References(s) : r >= i + 1 => Fine(r)
        <5>. HIDE DEF M
        <5>. QED  BY <1>3, <3>0, <4>1
      <4>3. E[i].ok = E[i + 1].ok
        BY <1>2, <3>0, <3>1 DEF FailsAt, AfterThis
      <4>. QED  BY <4>1, <4>2, <4>3
    <3>2. CASE Opens(s, i) /\ ~Fine(i)
      <4>1. i \in References(s)
        BY <1>3, <3>0, <3>2 DEF References
      <4>2. FailsAt(s, keys, i)
        BY <3>2 DEF FailsAt
      <4>3. E[i].ok = FALSE
        BY <1>2, <3>0, <4>2
      <4>. HIDE DEF Fine
      <4>. QED  BY <3>0, <3>2, <4>1, <4>3
    <3>3. CASE Opens(s, i) /\ Fine(i)
      <4>. DEFINE c == Closing(s, i)
      <4>1. /\ i \in References(s) /\ c \in i + 2 .. L
            /\ ~InVariable(s, c + 1)
            /\ \A r \in References(s) : r >= i <=> r = i \/ r >= c + 1
        BY <1>3, <3>0, <3>3, PassReference
      <4>2. E[i].ok = E[c + 1].ok
        BY <1>2, <3>0, <3>3 DEF FailsAt, AfterThis
      <4>. HIDE DEF c
      <4>3. c + 1 \in i + 1 .. M
        BY <1>0, <3>0, <4>1
      <4>4. E[c + 1].ok <=> \A r \in References(s) : r >= c + 1 => Fine(r)
        <5>. HIDE DEF M
        <5>. QED  BY <1>3, <4>1, <4>3
      <4>. HIDE DEF Fine
      <4>. QED  BY <3>3, <4>1, <4>2, <4>4
    <3>. QED  BY <3>1, <3>2, <3>3
  <2>. QED  BY <2>1, <2>2
<1>4. \A i \in 1 .. M : i \in P
  <2>1. \A i \in 1 .. M : (\A j \in i + 1 .. M : j \in P) => i \in P
    BY <1>3
  <2>. HIDE DEF M, P
  <2>. QED  BY <1>0, <2>1, Downward
<1>5. 1 \in 1 .. M /\ ~InVariable(s, 1)
  BY <1>0 DEF InVariable
<1>6. E[1].ok <=> \A r \in References(s) : r >= 1 => Fine(r)
  <2>. HIDE DEF M, Fine
  <2>. QED  BY <1>4, <1>5
<1>7. \A r \in References(s) : r >= 1
  BY <1>0
<1>. QED  BY <1>1, <1>6, <1>7

(* A byte of the pattern's own decodes to itself, wildcard or not.         *)
LEMMA SameOwn ==
    ASSUME NEW a \in Byte, NEW chars, "\\" \in chars, a \in Metacharacters => a \notin chars,
           NEW r \in Text, NEW n, Same(Token(r, TRUE), n)
    PROVE  Same(Token(WriteEscaped(<< a >>, chars) \o r, TRUE), << Own(a) >> \o n)
<1>. DEFINE x == << a >>
            m == << Own(a) >>
<1>1. x \in Text /\ Len(x) = 1 /\ x[1] = a
  BY DEF Text
<1>2. Own(a) \in Marked /\ Own(a).char = a /\ Own(a).meta = (a \in Metacharacters)
  BY DEF Own, Marked
<1>3. /\ m \in Seq(Marked) /\ Len(m) = 1 /\ m[1].char = a
      /\ m[1].meta = (a \notin chars /\ a \in Metacharacters)
  BY <1>2
<1>. HIDE DEF x, m
<1>4. \A j \in 1 .. Len(x) : /\ m[j].char = x[j]
         /\ m[j].meta = (x[j] \notin chars /\ x[j] \in Metacharacters)
  <2>1. \A j \in 1 .. 1 : j = 1
    OBVIOUS
  <2>. QED  BY <1>1, <1>3, <2>1
<1>5. Same(Token(WriteEscaped(x, chars) \o r, TRUE), m \o n)
  BY <1>1, <1>3, <1>4, SameEscaped
<1>. QED  BY <1>5 DEF x, m

(* What is expanded, escaped and decoded again is what the pattern means.  *)
LEMMA ExpandSame ==
    ASSUME NEW s \in Text, NEW keys, \A name \in DOMAIN keys : keys[name] \in Text,
           \A r \in References(s) : Closing(s, r) # 0 /\ Resolvable(NameAt(s, r), keys)
    PROVE  Same(Token(ExpandVariables(s, keys).text, TRUE), Meaning(s, keys, FALSE))
<1>. DEFINE L == Len(s)
            N == L + 1
<1>0. L \in Nat /\ N \in Nat /\ \A i \in 1 .. L : s[i] \in Byte
  BY DEF Text
<1>1. PICK E : /\ ExpandVariables(s, keys) = E[1] /\ Expands(s, keys, E)
               /\ \A i \in 1 .. N : E[i] \in Expanded
  BY ExpandRecursion
<1>2. /\ E[N].text = << >>
      /\ \A i \in 1 .. L : ~FailsAt(s, keys, i) =>
            E[i].text = TextAt(s, keys, i) \o E[AfterThis(s, i)].text
  <2>1. E[N] = Empty
    BY <1>1 DEF Expands
  <2>2. ASSUME NEW i \in 1 .. L, ~FailsAt(s, keys, i)
        PROVE  E[i].text = TextAt(s, keys, i) \o E[AfterThis(s, i)].text
    <3>1. E[i] = [ok |-> E[AfterThis(s, i)].ok,
                  text |-> TextAt(s, keys, i) \o E[AfterThis(s, i)].text]
      BY <1>1, <2>2 DEF Expands
    <3>. QED  BY <3>1
  <2>. QED  BY <2>1, <2>2 DEF Empty
<1>3. \A i \in 1 .. N : E[i].text \in Text
  BY <1>1 DEF Expanded
<1>4. PICK M : /\ Meaning(s, keys, FALSE) = M[1]
               /\ Joins(M, L, MeaningNext(s, FALSE), MeaningPiece(s, keys, FALSE))
  BY AllClosed, MeaningJoins
<1>5. /\ M[N] = << >>
      /\ \A i \in 1 .. L : ~Opens(s, i) => M[i] = << Own(s[i]) >> \o M[i + 1]
      /\ \A i \in 1 .. L : Opens(s, i) =>
            M[i] = Substituted(ValueOf(NameAt(s, i), keys)) \o M[Closing(s, i) + 1]
  BY <1>4 DEF Joins, MeaningNext, MeaningPiece
<1>. DEFINE P == { i \in 1 .. N : ~InVariable(s, i) => Same(Token(E[i].text, TRUE), M[i]) }
<1>6. ASSUME NEW i \in 1 .. N, \A j \in i + 1 .. N : j \in P, ~InVariable(s, i)
      PROVE  Same(Token(E[i].text, TRUE), M[i])
  <2>1. CASE i = N
    BY <1>2, <1>5, <2>1, TokenNothing, SameNothing
  <2>2. CASE i # N
    <3>0. i \in 1 .. L /\ i + 1 \in i + 1 .. N /\ i + 1 \in 1 .. N
      BY <1>0, <2>2
    <3>1. CASE ~Opens(s, i)
      <4>1. ~InVariable(s, i + 1)
        BY <1>6, <3>0, <3>1, PassByte
      <4>2. Same(Token(E[i + 1].text, TRUE), M[i + 1])
        <5>. HIDE DEF N
        <5>. QED  BY <1>6, <3>0, <4>1
      <4>3. E[i].text = WriteEscaped(<< s[i] >>, EscapesInText) \o E[i + 1].text
        BY <1>2, <3>0, <3>1 DEF FailsAt, AfterThis, TextAt
      <4>4. s[i] \in Byte /\ E[i + 1].text \in Text
        BY <1>0, <1>3, <3>0
      <4>5. "\\" \in EscapesInText /\ (s[i] \in Metacharacters => s[i] \notin EscapesInText)
        BY DEF EscapesInText, Metacharacters
      <4>6. M[i] = << Own(s[i]) >> \o M[i + 1]
        BY <1>5, <3>0, <3>1
      <4>. QED  BY <4>2, <4>3, <4>4, <4>5, <4>6, SameOwn
    <3>2. CASE Opens(s, i)
      <4>. DEFINE c == Closing(s, i)
                  x == ValueOf(NameAt(s, i), keys)
                  m == Substituted(x)
      <4>1. i \in References(s)
        BY <1>6, <3>0, <3>2 DEF References
      <4>2. c # 0 /\ Resolvable(NameAt(s, i), keys)
        BY <4>1
      <4>3. c \in i + 2 .. L /\ ~InVariable(s, c + 1)
        BY <1>6, <3>0, <3>2, <4>2, PassReference
      <4>4. E[i].text = WriteEscaped(x, EscapesInValue) \o E[c + 1].text
        BY <1>2, <3>0, <3>2, <4>2 DEF FailsAt, AfterThis, TextAt
      <4>5. M[i] = m \o M[c + 1]
        BY <1>5, <3>0, <3>2
      <4>6. x \in Text
        <5>1. \A n \in LiteralVariables : n \in Text
          <6>1. "*" \in Byte /\ "?" \in Byte /\ "$" \in Byte
            BY DEF Byte, Special
          <6>2. \A a \in Byte : << a >> \in Seq(Byte)
            OBVIOUS
          <6>. QED  BY <6>1, <6>2 DEF LiteralVariables, Text
        <5>. QED  BY <4>2, <5>1 DEF Resolvable, ValueOf
      <4>. HIDE DEF c, x
      <4>7. c + 1 \in i + 1 .. N /\ c + 1 \in 1 .. N
        BY <1>0, <3>0, <4>3
      <4>8. Same(Token(E[c + 1].text, TRUE), M[c + 1])
        <5>. HIDE DEF N
        <5>. QED  BY <1>6, <4>3, <4>7
      <4>9. /\ m \in Seq(Marked) /\ Len(m) = Len(x)
            /\ \A j \in 1 .. Len(x) : m[j].char = x[j] /\ m[j].meta = FALSE
        BY <4>6 DEF Substituted, Marked, Text
      <4>10. \A j \in 1 .. Len(x) : /\ m[j].char = x[j]
                /\ m[j].meta = (x[j] \notin EscapesInValue /\ x[j] \in Metacharacters)
        BY <4>9 DEF EscapesInValue, Metacharacters
      <4>11. "\\" \in EscapesInValue /\ E[c + 1].text \in Text
        BY <1>3, <4>7 DEF EscapesInValue
      <4>. HIDE DEF m
      <4>12. Same(Token(WriteEscaped(x, EscapesInValue) \o E[c + 1].text, TRUE), m \o M[c + 1])
        BY <4>6, <4>8, <4>9, <4>10, <4>11, SameEscaped
      <4>. QED  BY <4>4, <4>5, <4>12
    <3>. QED  BY <3>1, <3>2
  <2>. QED  BY <2>1, <2>2
<1>7. \A i \in 1 .. N : i \in P
  <2>1. \A i \in 1 .. N : (\A j \in i + 1 .. N : j \in P) => i \in P
    BY <1>6
  <2>. HIDE DEF N, P
  <2>. QED  BY <1>0, <2>1, Downward
<1>8. 1 \in 1 .. N /\ ~InVariable(s, 1)
  BY <1>0 DEF InVariable
<1>. HIDE DEF N
<1>. QED  BY <1>1, <1>4, <1>7, <1>8
----------------------------------------------------------------------------
(* A pattern that is read without escapes or references.                   *)
Plain(s) == [j \in 1 .. Len(s) |-> Element(s[j])]

LEMMA PlainMeaning ==
    ASSUME NEW s \in Text, NEW keys, NEW old, old \/ ~HasReference(s)
    PROVE  Token(s, FALSE) = Plain(s) /\ Same(Plain(s), Meaning(s, keys, old))
<1>. DEFINE L == Len(s)
            N == L + 1
            t == Plain(s)
            Rest(i) == SubSeq(t, i, L)
<1>0. L \in Nat /\ N \in Nat /\ \A i \in 1 .. L : s[i] \in Byte
  BY DEF Text
<1>1. t \in Seq(Elements) /\ Len(t) = L /\ \A i \in 1 .. L : t[i] = Element(s[i])
  <2>1. \A i \in 1 .. L : Element(s[i]) \in Elements
    BY <1>0, ElementFacts
  <2>2. t = [j \in 1 .. L |-> Element(s[j])]
    BY DEF Plain
  <2>. HIDE DEF L, t
  <2>. QED  BY <1>0, <2>1, <2>2
<1>2. PICK T : /\ Token(s, FALSE) = T[1]
               /\ Joins(T, L, TokenNext(s, FALSE), TokenPiece(s, FALSE))
  BY TokenJoins
<1>3. T[N] = << >> /\ \A i \in 1 .. L : T[i] = << Element(s[i]) >> \o T[i + 1]
  BY <1>2 DEF Joins, TokenNext, TokenPiece, Escaped
<1>4. \A i \in 1 .. L : old \/ ~Opens(s, i)
  BY DEF HasReference
<1>5. PICK M : /\ Meaning(s, keys, old) = M[1]
               /\ Joins(M, L, MeaningNext(s, old), MeaningPiece(s, keys, old))
  BY <1>4, MeaningJoins
<1>6. M[N] = << >> /\ \A i \in 1 .. L : M[i] = << Own(s[i]) >> \o M[i + 1]
  BY <1>4, <1>5 DEF Joins, MeaningNext, MeaningPiece
<1>. HIDE DEF t
<1>. DEFINE P == { i \in 1 .. N : T[i] = Rest(i) /\ Same(T[i], M[i]) }
<1>7. ASSUME NEW i \in 1 .. N, \A j \in i + 1 .. N : j \in P
      PROVE  i \in P
  <2>1. CASE i = N
    <3>1. Rest(i) = << >>
      BY <1>0, <2>1, SubSeqEmpty
    <3>. HIDE DEF Rest
    <3>. QED  BY <1>3, <1>6, <2>1, <3>1, SameNothing
  <2>2. CASE i # N
    <3>0. i \in 1 .. L /\ i + 1 \in i + 1 .. N /\ i \in 1 .. Len(t) /\ L \in i .. Len(t)
      BY <1>0, <1>1, <2>2
    <3>1. T[i + 1] = Rest(i + 1) /\ Same(T[i + 1], M[i + 1])
      BY <1>7, <3>0
    <3>2. Rest(i) = << t[i] >> \o Rest(i + 1)
      BY <1>1, <3>0, SubSeqRecursiveFirst
    <3>3. Same(<< Element(s[i]) >>, << Own(s[i]) >>)
      <4>1. s[i] \in Byte
        BY <1>0, <3>0
      <4>2. Own(s[i]) \in Marked /\ Own(s[i]).char = s[i] /\ Own(s[i]).meta = (s[i] \in Metacharacters)
        BY <4>1 DEF Own, Marked
      <4>. QED  BY <4>1, <4>2, ElementFacts, SameOne
    <3>4. Same(<< Element(s[i]) >> \o T[i + 1], << Own(s[i]) >> \o M[i + 1])
      BY <3>1, <3>3, SameConcat
    <3>. HIDE DEF Rest
    <3>. QED  BY <1>1, <1>3, <1>6, <3>0, <3>1, <3>2, <3>4
  <2>. QED  BY <2>1, <2>2
<1>8. \A i \in 1 .. N : i \in P
  <2>1. \A i \in 1 .. N : (\A j \in i + 1 .. N : j \in P) => i \in P
    BY <1>7
  <2>. HIDE DEF N, P
  <2>. QED  BY <1>0, <2>1, Downward
<1>9. T[1] = Rest(1) /\ Same(T[1], M[1])
  <2>1. 1 \in 1 .. N
    BY <1>0
  <2>. HIDE DEF N, Rest
  <2>. QED  BY <1>8, <2>1
<1>10. Rest(1) = t
  BY <1>1, SubSeqFull
<1>. HIDE DEF Rest
<1>. QED  BY <1>2, <1>5, <1>9, <1>10 DEF t

(* A lone star accepts everything.                                         *)
LEMMA AcceptsStar ==
    ASSUME NEW w \in Text
    PROVE  Accepts(Plain(<< "*" >>), w)
<1>. DEFINE t == Plain(<< "*" >>)
            M == Len(w)
            at == [j \in 1 .. 2 |-> IF j = 1 THEN 1 ELSE M + 1]
<1>0. M \in Nat
  BY DEF Text
<1>00. "*" \in Byte
  BY DEF Byte, Special
<1>1. Len(<< "*" >>) = 1 /\ << "*" >>[1] = "*"
  OBVIOUS
<1>2. t = [j \in 1 .. 1 |-> Element(<< "*" >>[j])]
  BY <1>1 DEF Plain
<1>3. t \in Seq(Elements) /\ Len(t) = 1 /\ t[1] = Element("*")
  <2>1. Element("*") \in Elements
    BY <1>00, ElementFacts
  <2>2. \A j \in 1 .. 1 : j = 1
    OBVIOUS
  <2>. HIDE DEF t
  <2>. QED  BY <1>1, <1>2, <2>1, <2>2
<1>. HIDE DEF t
<1>4. IsStar(t[1])
  <2>1. t[1].char = "*" /\ t[1].meta = ("*" \in Metacharacters)
    BY <1>00, <1>3, ElementFacts
  <2>2. "*" \in Metacharacters
    BY DEF Metacharacters
  <2>. QED  BY <2>1, <2>2 DEF IsStar
<1>5. at \in [1 .. 2 -> 1 .. M + 1] /\ at[1] = 1 /\ at[2] = M + 1 /\ 1 <= M + 1
  BY <1>0
<1>. HIDE DEF at
<1>6. Covering(t, w, at)
  <2>1. 1 + 1 = 2 /\ \A j \in 1 .. 1 : j = 1
    OBVIOUS
  <2>2. Fits(t, w, 1, at)
    BY <1>4, <1>5, <2>1 DEF Fits
  <2>. QED  BY <1>3, <1>5, <2>1, <2>2 DEF Covering
<1>. QED  BY <1>3, <1>6, AcceptsIff DEF t

(* A text without wildcards accepts itself alone.                          *)
LEMMA AcceptsText ==
    ASSUME NEW s \in Text, NEW w \in Text,
           \A i \in 1 .. Len(s) : s[i] \notin Metacharacters
    PROVE  Accepts(Plain(s), w) <=> s = w
<1>. DEFINE t == Plain(s)
            L == Len(s)
            M == Len(w)
<1>0. L \in Nat /\ M \in Nat /\ \A i \in 1 .. L : s[i] \in Byte
  BY DEF Text
<1>1. t \in Seq(Elements) /\ Len(t) = L /\ \A i \in 1 .. L : t[i] = Element(s[i])
  <2>1. \A i \in 1 .. L : Element(s[i]) \in Elements
    BY <1>0, ElementFacts
  <2>2. t = [j \in 1 .. L |-> Element(s[j])]
    BY DEF Plain
  <2>. HIDE DEF L, t
  <2>. QED  BY <1>0, <2>1, <2>2
<1>2. \A i \in 1 .. L : ~IsStar(t[i]) /\ \A c : Takes(t[i], c) <=> s[i] = c
  <2>. HIDE DEF t
  <2>. SUFFICES ASSUME NEW i \in 1 .. L
                PROVE  ~IsStar(t[i]) /\ \A c : Takes(t[i], c) <=> s[i] = c
    OBVIOUS
  <2>1. s[i] \in Byte /\ s[i] \notin Metacharacters /\ t[i] = Element(s[i])
    BY <1>0, <1>1
  <2>2. t[i].char = s[i] /\ t[i].meta = (s[i] \in Metacharacters)
    BY <2>1, ElementFacts
  <2>3. ~t[i].meta
    BY <2>1, <2>2
  <2>. QED  BY <2>2, <2>3 DEF IsStar, Takes
<1>. HIDE DEF t
<1>3. ASSUME s = w
      PROVE  Covering(t, w, [j \in 1 .. L + 1 |-> j])
  <2>. DEFINE at == [j \in 1 .. L + 1 |-> j]
  <2>1. M = L
    BY <1>3
  <2>2. at \in [1 .. L + 1 -> 1 .. L + 1] /\ at[1] = 1 /\ at[L + 1] = L + 1
    BY <1>0
  <2>3. ASSUME NEW j \in 1 .. L
        PROVE  Fits(t, w, j, at)
    <3>1. at[j] = j /\ at[j + 1] = j + 1 /\ j <= M
      BY <1>0, <2>1
    <3>. QED  BY <1>2, <1>3, <3>1 DEF Fits
  <2>. HIDE DEF at
  <2>4. Covering(t, w, at)
    BY <1>1, <2>1, <2>2, <2>3 DEF Covering
  <2>. QED  BY <2>4 DEF at
<1>4. ASSUME NEW at, Covering(t, w, at)
      PROVE  s = w
  <2>0. /\ at \in [1 .. L + 1 -> 1 .. M + 1] /\ at[1] = 1 /\ at[L + 1] = M + 1
        /\ \A j \in 1 .. L : Fits(t, w, j, at)
    BY <1>1, <1>4 DEF Covering
  <2>. DEFINE Bad == { j \in 1 .. L + 1 : at[j] # j }
  <2>1. ASSUME Bad # {}
        PROVE  FALSE
    <3>1. PICK j \in Bad : \A k \in Bad : j <= k
      <4>1. \A k \in 1 .. L + 1 : k \in Nat
        BY <1>0
      <4>2. \A k \in Bad : k \in Nat
        BY <4>1
      <4>. HIDE DEF Bad
      <4>. QED  BY <2>1, <4>2, Least
    <3>2. j \in 1 .. L + 1 /\ at[j] # j
      OBVIOUS
    <3>. HIDE DEF L, M
    <3>3. j # 1
      BY <2>0, <3>2
    <3>4. j - 1 \in 1 .. L /\ j - 1 \in 1 .. L + 1 /\ ~(j <= j - 1) /\ (j - 1) + 1 = j
      BY <1>0, <3>2, <3>3
    <3>5. at[j - 1] = j - 1
      BY <3>1, <3>4
    <3>6. at[j] = at[j - 1] + 1
      BY <1>2, <2>0, <3>4 DEF Fits
    <3>. QED  BY <3>2, <3>4, <3>5, <3>6
  <2>2. \A j \in 1 .. L + 1 : at[j] = j
    BY <2>1
  <2>3. L = M
    <3>1. at[L + 1] = L + 1
      BY <1>0, <2>2
    <3>. HIDE DEF L, M
    <3>. QED  BY <1>0, <2>0, <3>1
  <2>4. \A j \in 1 .. L : s[j] = w[j]
    <3>1. \A j \in 1 .. L : j \in 1 .. L + 1
      BY <1>0
    <3>. QED  BY <1>2, <2>0, <2>2, <3>1 DEF Fits
  <2>. QED  BY <2>3, <2>4, SeqEqual DEF Text
<1>. QED  BY <1>1, <1>3, <1>4, AcceptsIff DEF t
----------------------------------------------------------------------------
(* A pattern of an older document: each ${ of it is written as ${$}{ , and *)
(* is text once expanded.                                                  *)
Suffix(l, q, r) ==
    /\ q \in 1 .. Len(l) + 1 /\ Len(l) = (q - 1) + Len(r)
    /\ \A k \in 1 .. Len(r) : l[(q - 1) + k] = r[k]

Follows(l, q, x, r) ==
    /\ Suffix(l, q + Len(x), r)
    /\ \A k \in 1 .. Len(x) : (q - 1) + k \in 1 .. Len(l) /\ l[(q - 1) + k] = x[k]

LEMMA SuffixAfter ==
    ASSUME NEW l \in Text, NEW x \in Text, NEW r \in Text,
           NEW q \in Nat, Suffix(l, q, x \o r)
    PROVE  Follows(l, q, x, r)
<1>. DEFINE n == Len(x)
            m == Len(r)
            L == Len(l)
            s == x \o r
<1>0. n \in Nat /\ m \in Nat /\ L \in Nat
  BY DEF Text
<1>1. Len(s) = n + m /\ \A k \in 1 .. n + m : s[k] = IF k <= n THEN x[k] ELSE r[k - n]
  BY ConcatProperties DEF Text
<1>2. /\ q \in 1 .. L + 1 /\ L = (q - 1) + Len(s)
      /\ \A k \in 1 .. Len(s) : l[(q - 1) + k] = s[k]
  BY DEF Suffix
<1>. HIDE DEF n, m, L, s
<1>3. q \in Nat /\ L = (q - 1) + (n + m) /\ \A k \in 1 .. n + m : l[(q - 1) + k] = s[k]
  BY <1>0, <1>1, <1>2
<1>4. ASSUME NEW k \in 1 .. n
      PROVE  (q - 1) + k \in 1 .. L /\ l[(q - 1) + k] = x[k]
  <2>1. k \in 1 .. n + m /\ k <= n /\ (q - 1) + k \in 1 .. L
    BY <1>0, <1>2, <1>3
  <2>. QED  BY <1>1, <1>3, <2>1
<1>5. ASSUME NEW k \in 1 .. m
      PROVE  l[((q + n) - 1) + k] = r[k]
  <2>1. /\ n + k \in 1 .. n + m /\ ~(n + k <= n) /\ (n + k) - n = k
        /\ ((q + n) - 1) + k = (q - 1) + (n + k)
    BY <1>0, <1>3
  <2>. QED  BY <1>1, <1>3, <2>1
<1>6. q + n \in 1 .. L + 1 /\ L = ((q + n) - 1) + m
  BY <1>0, <1>2, <1>3
<1>7. Suffix(l, q + n, r)
  BY <1>5, <1>6 DEF Suffix, L, m
<1>. QED  BY <1>4, <1>7 DEF Follows, n, L

(* The rewriting keeps the first byte of what it rewrites.                 *)
LiteralFrom(s, R) ==
    /\ R[Len(s) + 1] = << >>
    /\ \A i \in 1 .. Len(s) + 1 : R[i] \in Text
    /\ \A i \in 1 .. Len(s) :
          /\ R[i] = IF Opens(s, i) THEN Dollar \o R[i + 2] ELSE << s[i] >> \o R[i + 1]
          /\ Len(R[i]) > 0 /\ R[i][1] = s[i]

LEMMA LiteralRecursion ==
    ASSUME NEW s \in Text
    PROVE  \E R : LiteralReference(s) = R[1] /\ LiteralFrom(s, R)
<1>. DEFINE L == Len(s)
<1>0. L \in Nat /\ \A i \in 1 .. L : s[i] \in Byte
  BY DEF Text
<1>1. PICK R : /\ LiteralReference(s) = R[1]
               /\ Joins(R, L, LiteralNext(s), LiteralPiece(s))
  BY LiteralJoins
<1>2. \A i \in 1 .. L + 1 : R[i] \in Text
  BY <1>1, LiteralJoins, LiteralPieceType, PiecesType DEF Text
<1>3. R[L + 1] = << >>
  BY <1>1 DEF Joins
<1>4. \A i \in 1 .. L : R[i] = IF Opens(s, i) THEN Dollar \o R[i + 2] ELSE << s[i] >> \o R[i + 1]
  <2>1. \A i \in 1 .. L : R[i] = LiteralPiece(s)[i] \o R[LiteralNext(s)[i]]
    BY <1>1 DEF Joins
  <2>. QED  BY <2>1 DEF LiteralNext, LiteralPiece
<1>5. ASSUME NEW x \in Text, Len(x) > 0, NEW r \in Text
      PROVE  Len(x \o r) > 0 /\ (x \o r)[1] = x[1]
  <2>1. Len(x) \in Nat /\ Len(r) \in Nat
    BY DEF Text
  <2>2. 1 \in 1 .. Len(x) + Len(r) /\ 1 <= Len(x) /\ Len(x) + Len(r) > 0
    BY <1>5, <2>1
  <2>3. /\ Len(x \o r) = Len(x) + Len(r)
        /\ \A k \in 1 .. Len(x) + Len(r) : (x \o r)[k] = IF k <= Len(x) THEN x[k] ELSE r[k - Len(x)]
    BY ConcatProperties DEF Text
  <2>. QED  BY <2>2, <2>3
<1>6. ASSUME NEW i \in 1 .. L
      PROVE  Len(R[i]) > 0 /\ R[i][1] = s[i]
  <2>1. CASE Opens(s, i)
    <3>1. i < L /\ s[i] = "$"
      BY <2>1 DEF Opens
    <3>2. i + 2 \in 1 .. L + 1
      BY <1>0, <3>1
    <3>a. Dollar[1] = "$"
      BY DEF Dollar
    <3>3. Dollar \in Text /\ Len(Dollar) > 0 /\ Dollar[1] = "$"
      BY <3>a, DollarType
    <3>4. R[i] = Dollar \o R[i + 2] /\ R[i + 2] \in Text
      BY <1>2, <1>4, <2>1, <3>2
    <3>. QED  BY <1>5, <3>1, <3>3, <3>4
  <2>2. CASE ~Opens(s, i)
    <3>1. i + 1 \in 1 .. L + 1
      BY <1>0
    <3>2. << s[i] >> \in Text /\ Len(<< s[i] >>) > 0 /\ << s[i] >>[1] = s[i]
      BY <1>0 DEF Text
    <3>3. R[i] = << s[i] >> \o R[i + 1] /\ R[i + 1] \in Text
      BY <1>2, <1>4, <2>2, <3>1
    <3>. QED  BY <1>5, <3>2, <3>3
  <2>. QED  BY <2>1, <2>2
<1>. QED  BY <1>1, <1>2, <1>3, <1>4, <1>6 DEF LiteralFrom

(* Where the pattern opened a reference there is now one that names a      *)
(* dollar, and where it did not there is none.                             *)
LiteralStep(s, R, l, i, q) ==
    /\ q \in 1 .. Len(l) /\ l[q] = s[i] /\ (Opens(l, q) <=> Opens(s, i))
    /\ ~Opens(s, i) => Suffix(l, q + 1, R[i + 1])
    /\ Opens(s, i) => /\ Closing(l, q) = q + 3 /\ NameAt(l, q) = << "$" >>
                      /\ q + 4 \in 1 .. Len(l) /\ l[q + 4] = "{"
                      /\ ~Opens(l, q + 4) /\ Suffix(l, q + 5, R[i + 2])

LEMMA LiteralOpens ==
    ASSUME NEW s \in Text, NEW R, LiteralFrom(s, R), NEW l \in Text,
           NEW i \in 1 .. Len(s), NEW q \in Nat, Suffix(l, q, R[i])
    PROVE  LiteralStep(s, R, l, i, q)
<1>. DEFINE L == Len(s)
            M == Len(l)
<1>0. L \in Nat /\ M \in Nat /\ q \in Nat
  BY DEF Text, Suffix
<1>1. \A j \in 1 .. L + 1 : R[j] \in Text
  BY DEF LiteralFrom
<1>2. s[i] \in Byte
  BY DEF Text
<1>3. CASE ~Opens(s, i)
  <2>. DEFINE x == << s[i] >>
  <2>1. x \in Text /\ Len(x) = 1 /\ x[1] = s[i] /\ 1 \in 1 .. 1
    BY <1>2 DEF Text
  <2>a. R[i] = x \o R[i + 1]
    BY <1>3 DEF LiteralFrom
  <2>b. i \in 1 .. L
    OBVIOUS
  <2>. HIDE DEF x, L, M
  <2>2. R[i] = x \o R[i + 1] /\ i + 1 \in 1 .. L + 1
    BY <1>0, <2>a, <2>b
  <2>3. R[i + 1] \in Text
    BY <1>1, <2>2
  <2>4. Suffix(l, q + 1, R[i + 1]) /\ (q - 1) + 1 \in 1 .. M /\ l[(q - 1) + 1] = s[i]
    <3>1. Suffix(l, q, x \o R[i + 1])
      BY <2>2
    <3>2. Follows(l, q, x, R[i + 1])
      BY <2>1, <2>3, <3>1, SuffixAfter
    <3>. QED  BY <2>1, <3>2 DEF Follows, M
  <2>5. (q - 1) + 1 = q
    BY <1>0
  <2>6. ASSUME Opens(l, q)
        PROVE  FALSE
    <3>1. q < M /\ s[i] = "$" /\ l[q + 1] = "{"
      BY <2>4, <2>5, <2>6 DEF Opens, M
    <3>. DEFINE n == Len(R[i + 1])
    <3>a. n \in Nat
      BY <2>3 DEF Text
    <3>2. /\ M = ((q + 1) - 1) + n
          /\ \A k \in 1 .. n : l[((q + 1) - 1) + k] = R[i + 1][k]
      BY <2>4 DEF Suffix, M
    <3>. HIDE DEF n
    <3>3. 1 \in 1 .. n /\ ((q + 1) - 1) + 1 = q + 1
      <4>1. q < M /\ M = ((q + 1) - 1) + n
        BY <3>1, <3>2
      <4>. QED  BY <1>0, <3>a, <4>1
    <3>4. R[i + 1][1] = "{"
      BY <3>1, <3>2, <3>3
    <3>5. i # L
      <4>1. R[L + 1] = << >>
        BY DEF LiteralFrom, L
      <4>2. Len(<< >>) = 0 /\ 1 \notin 1 .. 0
        OBVIOUS
      <4>. QED  BY <3>3, <4>1, <4>2 DEF n
    <3>6. i + 1 \in 1 .. L /\ i < L
      BY <1>0, <2>b, <3>5
    <3>7. s[i + 1] = "{"
      BY <3>4, <3>6 DEF LiteralFrom, L
    <3>. QED  BY <1>3, <3>1, <3>6, <3>7 DEF Opens, L
  <2>. QED  BY <1>3, <2>4, <2>5, <2>6 DEF LiteralStep, M
<1>4. CASE Opens(s, i)
  <2>1. i < L /\ s[i] = "$"
    BY <1>4 DEF Opens
  <2>a. R[i] = Dollar \o R[i + 2]
    BY <1>4 DEF LiteralFrom
  <2>b. i \in 1 .. L
    OBVIOUS
  <2>. HIDE DEF L, M
  <2>2. R[i] = Dollar \o R[i + 2] /\ i + 2 \in 1 .. L + 1
    <3>1. i < L /\ i \in 1 .. L
      BY <2>1, <2>b
    <3>2. i + 2 \in 1 .. L + 1
      BY <1>0, <3>1
    <3>. QED  BY <2>a, <3>2
  <2>3. R[i + 2] \in Text
    BY <1>1, <2>2
  <2>4. /\ Suffix(l, q + 5, R[i + 2])
        /\ \A k \in 1 .. 5 : (q - 1) + k \in 1 .. M /\ l[(q - 1) + k] = Dollar[k]
    <3>1. Suffix(l, q, Dollar \o R[i + 2])
      BY <2>2
    <3>2. Follows(l, q, Dollar, R[i + 2])
      BY <2>3, <3>1, DollarType, SuffixAfter
    <3>. QED  BY <3>2, DollarType DEF Follows, M
  <2>5. /\ (q - 1) + 1 = q /\ (q - 1) + 2 = q + 1 /\ (q - 1) + 3 = q + 2
        /\ (q - 1) + 4 = q + 3 /\ (q - 1) + 5 = q + 4
        /\ 1 \in 1 .. 5 /\ 2 \in 1 .. 5 /\ 3 \in 1 .. 5 /\ 4 \in 1 .. 5 /\ 5 \in 1 .. 5
    BY <1>0
  <2>6. /\ Dollar[1] = "$" /\ Dollar[2] = "{" /\ Dollar[3] = "$"
        /\ Dollar[4] = "}" /\ Dollar[5] = "{"
    BY DEF Dollar
  <2>7. q \in 1 .. M /\ q + 1 \in 1 .. M /\ q + 3 \in 1 .. M /\ q + 4 \in 1 .. M
    BY <2>4, <2>5
  <2>8. l[q] = "$" /\ l[q + 1] = "{" /\ l[q + 2] = "$" /\ l[q + 3] = "}" /\ l[q + 4] = "{"
    BY <2>4, <2>5, <2>6
  <2>9. Opens(l, q) /\ ~Opens(l, q + 4)
    <3>1. q < M
      BY <1>0, <2>7
    <3>. QED  BY <2>8, <3>1 DEF Opens, M
  <2>10. Closing(l, q) = q + 3
    <3>. DEFINE c == Closing(l, q)
    <3>1. \/ c = 0 /\ \A j \in q + 2 .. M : l[j] # "}"
          \/ c \in q + 2 .. M /\ l[c] = "}" /\ \A j \in q + 2 .. c - 1 : l[j] # "}"
      BY <1>0, ClosingFacts DEF Text, M
    <3>. HIDE DEF c
    <3>2. q + 3 \in q + 2 .. M
      BY <1>0, <2>7
    <3>3. c \in q + 2 .. M /\ l[c] = "}" /\ \A j \in q + 2 .. c - 1 : l[j] # "}"
      BY <2>8, <3>1, <3>2
    <3>4. c # q + 2
      BY <2>8, <3>3
    <3>5. q + 3 \notin q + 2 .. c - 1
      BY <2>8, <3>3
    <3>6. c = q + 3
      <4>1. c \in q + 2 .. M /\ c # q + 2 /\ q + 3 \notin q + 2 .. c - 1
        BY <3>3, <3>4, <3>5
      <4>. QED  BY <1>0, <4>1
    <3>. QED  BY <3>6 DEF c
  <2>11. NameAt(l, q) = << "$" >>
    <3>1. NameAt(l, q) = SubSeq(l, q + 2, q + 2)
      <4>1. (q + 3) - 1 = q + 2
        BY <1>0
      <4>. QED  BY <2>10, <4>1 DEF NameAt
    <3>2. SubSeq(l, q + 2, q + 2) = << l[q + 2] >>
      <4>1. q + 2 \in 1 .. M
        BY <1>0, <2>7
      <4>2. l \in Seq(Byte)
        BY DEF Text
      <4>3. q + 2 \in 1 .. Len(l) /\ q + 2 \in q + 2 .. Len(l) /\ (q + 2) + 1 > q + 2
        BY <1>0, <4>1 DEF M
      <4>4. SubSeq(l, q + 2, q + 2) = << l[q + 2] >> \o SubSeq(l, (q + 2) + 1, q + 2)
        BY <4>2, <4>3, SubSeqRecursiveFirst
      <4>5. SubSeq(l, (q + 2) + 1, q + 2) = << >>
        BY <1>0, SubSeqEmpty
      <4>6. << l[q + 2] >> \in Seq(Byte)
        BY <4>2, <4>3
      <4>. QED  BY <4>4, <4>5, <4>6, ConcatEmptySeq
    <3>. QED  BY <2>8, <3>1, <3>2
  <2>. QED  BY <1>4, <2>1, <2>4, <2>7, <2>8, <2>9, <2>10, <2>11 DEF LiteralStep, M
<1>. QED  BY <1>3, <1>4

(* A pattern of an older document that holds no reference is left alone.   *)
LEMMA OldUnchanged ==
    ASSUME NEW s \in Text, ~HasReference(LiteralReference(s))
    PROVE  LiteralReference(s) = s
<1>. DEFINE L == Len(s)
            N == L + 1
            l == LiteralReference(s)
<1>0. L \in Nat /\ N \in Nat /\ l \in Text /\ Len(l) \in Nat
  BY LiteralReferenceType DEF Text
<1>1. PICK R : l = R[1] /\ LiteralFrom(s, R)
  BY LiteralRecursion
<1>2. \A q \in 1 .. Len(l) : ~Opens(l, q)
  BY DEF HasReference
<1>. HIDE DEF l
<1>. DEFINE P == { i \in 1 .. N : \A q \in Nat : Suffix(l, q, R[i]) => R[i] = SubSeq(s, i, L) }
<1>3. ASSUME NEW i \in 1 .. N, \A j \in i + 1 .. N : j \in P,
             NEW q \in Nat, Suffix(l, q, R[i])
      PROVE  R[i] = SubSeq(s, i, L)
  <2>1. CASE i = N
    <3>1. SubSeq(s, i, L) = << >>
      BY <1>0, <2>1, SubSeqEmpty
    <3>. QED  BY <1>1, <2>1, <3>1 DEF LiteralFrom
  <2>2. CASE i # N
    <3>0. i \in 1 .. L /\ i + 1 \in i + 1 .. N /\ L \in i .. L /\ q + 1 \in Nat
      BY <1>0, <2>2
    <3>1. q \in 1 .. Len(l) /\ (Opens(l, q) <=> Opens(s, i))
          /\ (~Opens(s, i) => Suffix(l, q + 1, R[i + 1]))
      <4>1. LiteralStep(s, R, l, i, q)
        BY <1>0, <1>1, <1>3, <3>0, LiteralOpens
      <4>. QED  BY <4>1 DEF LiteralStep
    <3>2. ~Opens(s, i) /\ Suffix(l, q + 1, R[i + 1])
      BY <1>2, <3>1
    <3>3. R[i + 1] = SubSeq(s, i + 1, L)
      <4>. HIDE DEF N, L
      <4>. QED  BY <1>3, <3>0, <3>2
    <3>4. R[i] = << s[i] >> \o R[i + 1]
      BY <1>1, <3>0, <3>2 DEF LiteralFrom
    <3>5. SubSeq(s, i, L) = << s[i] >> \o SubSeq(s, i + 1, L)
      BY <3>0, SubSeqRecursiveFirst DEF Text
    <3>. QED  BY <3>3, <3>4, <3>5
  <2>. QED  BY <2>1, <2>2
<1>4. \A i \in 1 .. N : i \in P
  <2>1. \A i \in 1 .. N : (\A j \in i + 1 .. N : j \in P) => i \in P
    BY <1>3
  <2>. HIDE DEF N, P
  <2>. QED  BY <1>0, <2>1, Downward
<1>5. Suffix(l, 1, R[1]) /\ 1 \in 1 .. N /\ 1 \in Nat
  <2>1. 1 \in 1 .. Len(l) + 1 /\ Len(l) = (1 - 1) + Len(l) /\ 1 \in 1 .. N
    BY <1>0
  <2>2. \A k \in 1 .. Len(l) : (1 - 1) + k = k
    BY <1>0
  <2>. QED  BY <1>1, <2>1, <2>2 DEF Suffix
<1>6. R[1] = SubSeq(s, 1, L)
  <2>. HIDE DEF N, L
  <2>. QED  BY <1>4, <1>5
<1>. QED  BY <1>1, <1>6, SubSeqFull DEF Text, l

(* Otherwise it is expanded, which always succeeds, to its own bytes.      *)
LEMMA OldSame ==
    ASSUME NEW s \in Text, NEW keys, \A name \in DOMAIN keys : keys[name] \in Text
    PROVE  /\ ExpandVariables(LiteralReference(s), keys).ok
           /\ Same(Token(ExpandVariables(LiteralReference(s), keys).text, TRUE),
                   Meaning(s, keys, TRUE))
<1>. DEFINE L == Len(s)
            N == L + 1
            l == LiteralReference(s)
            K == Len(l)
<1>0. L \in Nat /\ N \in Nat /\ l \in Text /\ K \in Nat
  BY LiteralReferenceType DEF Text
<1>00. \A i \in 1 .. L : s[i] \in Byte
  BY DEF Text
<1>1. PICK R : l = R[1] /\ LiteralFrom(s, R)
  BY LiteralRecursion
<1>. HIDE DEF l
<1>2. PICK E : /\ ExpandVariables(l, keys) = E[1] /\ Expands(l, keys, E)
               /\ \A q \in 1 .. K + 1 : E[q] \in Expanded
  BY <1>0, ExpandRecursion
<1>3. /\ E[K + 1].ok /\ E[K + 1].text = << >>
      /\ \A q \in 1 .. K : ~FailsAt(l, keys, q) =>
            /\ E[q].ok = E[AfterThis(l, q)].ok
            /\ E[q].text = TextAt(l, keys, q) \o E[AfterThis(l, q)].text
  <2>1. E[K + 1] = Empty
    BY <1>2 DEF Expands
  <2>2. ASSUME NEW q \in 1 .. K, ~FailsAt(l, keys, q)
        PROVE  /\ E[q].ok = E[AfterThis(l, q)].ok
               /\ E[q].text = TextAt(l, keys, q) \o E[AfterThis(l, q)].text
    <3>1. E[q] = [ok |-> E[AfterThis(l, q)].ok,
                  text |-> TextAt(l, keys, q) \o E[AfterThis(l, q)].text]
      BY <1>2, <2>2 DEF Expands
    <3>. QED  BY <3>1
  <2>. QED  BY <2>1, <2>2 DEF Empty
<1>4. \A q \in 1 .. K + 1 : E[q].text \in Text
  BY <1>2 DEF Expanded
<1>5. PICK M : /\ Meaning(s, keys, TRUE) = M[1]
               /\ Joins(M, L, MeaningNext(s, TRUE), MeaningPiece(s, keys, TRUE))
  BY MeaningJoins
<1>6. M[N] = << >> /\ \A i \in 1 .. L : M[i] = << Own(s[i]) >> \o M[i + 1]
  BY <1>5 DEF Joins, MeaningNext, MeaningPiece
<1>. DEFINE Done(i, q) == E[q].ok /\ Same(Token(E[q].text, TRUE), M[i])
(* A byte that opens nothing adds itself to what follows it.              *)
<1>7. ASSUME NEW i \in 1 .. L, NEW q \in 1 .. K, l[q] = s[i], ~Opens(l, q), Done(i + 1, q + 1)
      PROVE  Done(i, q)
  <2>1. E[q].ok = E[q + 1].ok /\ E[q].text = WriteEscaped(<< s[i] >>, EscapesInText) \o E[q + 1].text
    BY <1>3, <1>7 DEF FailsAt, AfterThis, TextAt
  <2>2. "\\" \in EscapesInText /\ (s[i] \in Metacharacters => s[i] \notin EscapesInText)
    BY DEF EscapesInText, Metacharacters
  <2>3. q + 1 \in 1 .. K + 1
    BY <1>0
  <2>4. s[i] \in Byte /\ E[q + 1].text \in Text
    BY <1>00, <1>4, <2>3
  <2>5. M[i] = << Own(s[i]) >> \o M[i + 1]
    BY <1>6
  <2>. HIDE DEF L, N
  <2>. QED  BY <1>7, <2>1, <2>2, <2>4, <2>5, SameOwn
(* A reference to a dollar adds a dollar.                                  *)
<1>8. ASSUME NEW i \in 1 .. L, NEW q \in 1 .. K, Opens(l, q), s[i] = "$",
             Closing(l, q) = q + 3, NameAt(l, q) = << "$" >>,
             q + 4 \in 1 .. K, Done(i + 1, q + 4)
      PROVE  Done(i, q)
  <2>1. q + 3 # 0 /\ (q + 3) + 1 = q + 4
    BY <1>0
  <2>2. ~FailsAt(l, keys, q) /\ ValueOf(NameAt(l, q), keys) = << "$" >>
    BY <1>8, <2>1 DEF FailsAt, Resolvable, ValueOf, LiteralVariables
  <2>3. AfterThis(l, q) = q + 4 /\ TextAt(l, keys, q) = WriteEscaped(<< s[i] >>, EscapesInValue)
    BY <1>8, <2>1, <2>2 DEF AfterThis, TextAt
  <2>4. E[q].ok = E[q + 4].ok /\ E[q].text = WriteEscaped(<< s[i] >>, EscapesInValue) \o E[q + 4].text
    BY <1>3, <2>2, <2>3
  <2>5. "\\" \in EscapesInValue /\ s[i] \notin Metacharacters
    BY <1>8 DEF EscapesInValue, Metacharacters
  <2>6. q + 4 \in 1 .. K + 1
    BY <1>0, <1>8
  <2>7. s[i] \in Byte /\ E[q + 4].text \in Text
    BY <1>00, <1>4, <2>6
  <2>8. M[i] = << Own(s[i]) >> \o M[i + 1]
    BY <1>6
  <2>. HIDE DEF L, N
  <2>. QED  BY <1>8, <2>4, <2>5, <2>7, <2>8, SameOwn
<1>. DEFINE P == { i \in 1 .. N : \A q \in Nat : Suffix(l, q, R[i]) => Done(i, q) }
<1>9. ASSUME NEW i \in 1 .. N, \A j \in i + 1 .. N : j \in P,
             NEW q \in Nat, Suffix(l, q, R[i])
      PROVE  Done(i, q)
  <2>1. CASE i = N
    <3>1. R[i] = << >> /\ Len(<< >>) = 0
      BY <1>1, <2>1 DEF LiteralFrom
    <3>2. K = (q - 1) + 0
      BY <1>9, <3>1 DEF Suffix
    <3>3. q = K + 1
      BY <1>0, <3>2
    <3>. HIDE DEF N, K
    <3>. QED  BY <1>3, <1>6, <2>1, <3>3, TokenNothing, SameNothing
  <2>2. CASE i # N
    <3>0. i \in 1 .. L /\ i + 1 \in i + 1 .. N /\ q + 1 \in Nat /\ q + 5 \in Nat
      BY <1>0, <2>2
    <3>1. /\ q \in 1 .. K /\ l[q] = s[i] /\ (Opens(l, q) <=> Opens(s, i))
          /\ ~Opens(s, i) => Suffix(l, q + 1, R[i + 1])
          /\ Opens(s, i) => /\ Closing(l, q) = q + 3 /\ NameAt(l, q) = << "$" >>
                            /\ q + 4 \in 1 .. K /\ l[q + 4] = "{"
                            /\ ~Opens(l, q + 4) /\ Suffix(l, q + 5, R[i + 2])
      <4>1. LiteralStep(s, R, l, i, q)
        BY <1>0, <1>1, <1>9, <3>0, LiteralOpens
      <4>. QED  BY <4>1 DEF LiteralStep
    <3>2. CASE ~Opens(s, i)
      <4>1. Done(i + 1, q + 1)
        <5>. HIDE DEF N, L, Done
        <5>. QED  BY <1>9, <3>0, <3>1, <3>2
      <4>. HIDE DEF N, L, K, Done
      <4>. QED  BY <1>7, <3>0, <3>1, <3>2, <4>1
    <3>3. CASE Opens(s, i)
      <4>1. i < L /\ s[i] = "$" /\ s[i + 1] = "{"
        BY <3>3 DEF Opens
      <4>2. i + 1 \in 1 .. L /\ i + 2 \in i + 1 .. N /\ (i + 1) + 1 = i + 2 /\ (q + 4) + 1 = q + 5
        <5>1. i < L
          BY <4>1
        <5>. QED  BY <1>0, <3>0, <5>1
      <4>3. Done(i + 2, q + 5)
        <5>. HIDE DEF N, L, Done
        <5>. QED  BY <1>9, <3>0, <3>1, <3>3, <4>2
      <4>. HIDE DEF N, L, K, Done
      <4>4. Done(i + 1, q + 4)
        <5>1. q + 4 \in 1 .. K /\ l[q + 4] = s[i + 1] /\ ~Opens(l, q + 4)
          BY <3>1, <3>3, <4>1
        <5>2. Done((i + 1) + 1, (q + 4) + 1)
          BY <4>2, <4>3
        <5>. QED  BY <1>7, <4>2, <5>1, <5>2
      <4>. QED  BY <1>8, <3>0, <3>1, <3>3, <4>1, <4>4
    <3>. QED  BY <3>2, <3>3
  <2>. QED  BY <2>1, <2>2
<1>10. \A i \in 1 .. N : i \in P
  <2>1. \A i \in 1 .. N : (\A j \in i + 1 .. N : j \in P) => i \in P
    BY <1>9
  <2>. HIDE DEF N, P
  <2>. QED  BY <1>0, <2>1, Downward
<1>11. Suffix(l, 1, R[1]) /\ 1 \in 1 .. N /\ 1 \in Nat
  <2>1. 1 \in 1 .. Len(l) + 1 /\ Len(l) = (1 - 1) + Len(l) /\ 1 \in 1 .. N
    BY <1>0
  <2>2. \A k \in 1 .. Len(l) : (1 - 1) + k = k
    BY <1>0
  <2>. QED  BY <1>1, <2>1, <2>2 DEF Suffix
<1>12. Done(1, 1)
  <2>. HIDE DEF N, L, Done
  <2>. QED  BY <1>10, <1>11
<1>. QED  BY <1>2, <1>5, <1>12 DEF l
----------------------------------------------------------------------------
(* The elements that a pattern is read as, and what they decide.           *)
Read(s, keys) ==
    IF HasReference(s) THEN Token(ExpandVariables(s, keys).text, TRUE) ELSE Token(s, FALSE)

Fails(s, keys) == HasReference(s) /\ ~ExpandVariables(s, keys).ok

Matches(pair, c) ==
    IF Fails(pair.pattern, c.keys) THEN c.failClosed
    ELSE Accepts(Read(pair.pattern, c.keys), pair.value)

(* The fast paths of MatchWildcard agree with the scan they spare.         *)
LEMMA FastPaths ==
    ASSUME NEW s \in Text, NEW w \in Text
    PROVE  /\ s = << "*" >> => Accepts(Token(s, FALSE), w)
           /\ (\A i \in 1 .. Len(s) : s[i] \notin Metacharacters) =>
                 (Accepts(Token(s, FALSE), w) <=> s = w)
<1>1. Token(s, FALSE) = Plain(s)
  <2>1. \A keys : Token(s, FALSE) = Plain(s) /\ Same(Plain(s), Meaning(s, keys, TRUE))
    BY PlainMeaning
  <2>. QED  BY <2>1
<1>2. s = << "*" >> => Accepts(Token(s, FALSE), w)
  BY <1>1, AcceptsStar
<1>3. (\A i \in 1 .. Len(s) : s[i] \notin Metacharacters) =>
         (Accepts(Token(s, FALSE), w) <=> s = w)
  BY <1>1, AcceptsText
<1>. QED  BY <1>2, <1>3

(* What a whole pattern is read as is what it means.                       *)
LEMMA ReadSame ==
    ASSUME NEW c \in Calls
    PROVE  /\ Fails(AsRead(c), c.keys) <=> Meaningless(c)
           /\ ~Meaningless(c) =>
                 Same(Read(AsRead(c), c.keys), Meaning(c.pattern, c.keys, c.old))
<1>. DEFINE s == c.pattern
            keys == c.keys
<1>0. s \in Text /\ \A name \in DOMAIN keys : keys[name] \in Text
  BY CallStrings
<1>1. CASE c.old
  <2>. DEFINE l == LiteralReference(s)
  <2>1. AsRead(c) = l /\ ~Meaningless(c)
    BY <1>1 DEF AsRead, Meaningless
  <2>2. ExpandVariables(l, keys).ok
    BY <1>0, OldSame
  <2>3. ~Fails(l, keys)
    BY <2>2 DEF Fails
  <2>4. CASE HasReference(l)
    <3>1. Same(Token(ExpandVariables(l, keys).text, TRUE), Meaning(s, keys, TRUE))
      BY <1>0, OldSame
    <3>. QED  BY <1>1, <2>1, <2>3, <2>4, <3>1 DEF Read
  <2>5. CASE ~HasReference(l)
    <3>1. l = s
      BY <1>0, <2>5, OldUnchanged
    <3>2. Token(s, FALSE) = Plain(s) /\ Same(Plain(s), Meaning(s, keys, TRUE))
      BY <1>0, PlainMeaning
    <3>. QED  BY <1>1, <2>1, <2>3, <2>5, <3>1, <3>2 DEF Read
  <2>. QED  BY <2>4, <2>5
<1>2. CASE ~c.old
  <2>0. c.old = FALSE
    BY <1>2, CallStrings
  <2>1. AsRead(c) = s
    BY <1>2 DEF AsRead
  <2>2. ExpandVariables(s, keys).ok <=> ~Meaningless(c)
    BY <1>0, <1>2, ExpandMeans DEF Meaningless
  <2>3. CASE HasReference(s)
    <3>1. ~Meaningless(c) => Same(Token(ExpandVariables(s, keys).text, TRUE), Meaning(s, keys, FALSE))
      BY <1>0, <1>2, ExpandSame DEF Meaningless
    <3>. QED  BY <2>0, <2>1, <2>2, <2>3, <3>1 DEF Read, Fails
  <2>4. CASE ~HasReference(s)
    <3>1. Token(s, FALSE) = Plain(s) /\ Same(Plain(s), Meaning(s, keys, FALSE))
      BY <1>0, <2>4, PlainMeaning
    <3>2. ~Meaningless(c)
      BY <2>4 DEF Meaningless, References, HasReference
    <3>. QED  BY <2>0, <2>1, <2>4, <3>1, <3>2 DEF Read, Fails
  <2>. QED  BY <2>3, <2>4
<1>. QED  BY <1>1, <1>2

LEMMA PatternMatches ==
    ASSUME NEW c \in Calls, c.kind = "pattern"
    PROVE  Matches([pattern |-> AsRead(c), value |-> c.value], c) <=> Selects(c)
<1>1. CASE Meaningless(c)
  BY <1>1, ReadSame DEF Matches, Selects
<1>2. CASE ~Meaningless(c)
  <2>1. Accepts(Read(AsRead(c), c.keys), c.value) <=>
           Accepts(Meaning(c.pattern, c.keys, c.old), c.value)
    BY <1>2, ReadSame, AcceptsSame
  <2>. QED  BY <1>2, <2>1, ReadSame DEF Matches, Selects
<1>. QED  BY <1>1, <1>2

----------------------------------------------------------------------------
(* The positions of a pattern that no reference encloses.                  *)
Outside(s) == { i \in 1 .. Len(s) + 1 : ~InVariable(s, i) }

(* No reference of it is without a closing brace or a value.               *)
Fine(s, keys) ==
    \A r \in References(s) : Closing(s, r) # 0 /\ Resolvable(NameAt(s, r), keys)

(* Induction over these positions, from the end to the beginning.          *)
LEMMA OutsideInduction ==
    ASSUME NEW s \in Text, \A r \in References(s) : Closing(s, r) # 0, NEW P,
           Len(s) + 1 \in P,
           \A i \in 1 .. Len(s) : ~InVariable(s, i) /\ ~Opens(s, i) /\ i + 1 \in P => i \in P,
           \A i \in 1 .. Len(s) :
              ~InVariable(s, i) /\ Opens(s, i) /\ Closing(s, i) + 1 \in P => i \in P
    PROVE  \A i \in Outside(s) : i \in P
<1>. DEFINE L == Len(s)
            N == L + 1
            Q == { i \in 1 .. N : ~InVariable(s, i) => i \in P }
<1>0. L \in Nat /\ N \in Nat
  BY DEF Text
<1>1. ASSUME NEW i \in 1 .. N, \A j \in i + 1 .. N : j \in Q, ~InVariable(s, i)
      PROVE  i \in P
  <2>1. CASE i = N
    BY <2>1
  <2>2. CASE i # N
    <3>0. i \in 1 .. L /\ i + 1 \in i + 1 .. N
      BY <1>0, <2>2
    <3>1. CASE ~Opens(s, i)
      <4>1. ~InVariable(s, i + 1)
        BY <1>1, <3>0, <3>1, PassByte
      <4>2. i + 1 \in P
        <5>. HIDE DEF N
        <5>. QED  BY <1>1, <3>0, <4>1
      <4>. QED  BY <1>1, <3>0, <3>1, <4>2
    <3>2. CASE Opens(s, i)
      <4>. DEFINE c == Closing(s, i) + 1
      <4>1. i \in References(s)
        BY <1>1, <3>0, <3>2 DEF References
      <4>2. Closing(s, i) \in i + 2 .. L /\ ~InVariable(s, c)
        BY <1>1, <3>0, <3>2, <4>1, PassReference
      <4>3. c \in i + 1 .. N
        BY <1>0, <3>0, <4>2
      <4>. HIDE DEF c
      <4>4. c \in P
        <5>. HIDE DEF N
        <5>. QED  BY <1>1, <4>2, <4>3
      <4>. QED  BY <1>1, <3>0, <3>2, <4>4 DEF c
    <3>. QED  BY <3>1, <3>2
  <2>. QED  BY <2>1, <2>2
<1>2. \A i \in 1 .. N : i \in Q
  <2>1. \A i \in 1 .. N : (\A j \in i + 1 .. N : j \in Q) => i \in Q
    BY <1>1
  <2>. HIDE DEF N, Q
  <2>. QED  BY <1>0, <2>1, Downward
<1>. QED  BY <1>2 DEF Outside

(* What a pattern means from each of these positions on.                   *)
Means(s, keys, M) ==
    /\ M[Len(s) + 1] = << >>
    /\ \A i \in Outside(s) : M[i] \in Seq(Marked)
    /\ \A i \in Outside(s) : i <= Len(s) /\ ~Opens(s, i) =>
          s[i] \in Byte /\ i + 1 \in Outside(s) /\ M[i] = << Own(s[i]) >> \o M[i + 1]
    /\ \A i \in Outside(s) : i <= Len(s) /\ Opens(s, i) =>
          /\ Closing(s, i) \in i + 2 .. Len(s) /\ Closing(s, i) + 1 \in Outside(s)
          /\ ValueOf(NameAt(s, i), keys) \in Text
          /\ M[i] = Substituted(ValueOf(NameAt(s, i), keys)) \o M[Closing(s, i) + 1]

LEMMA SubstitutedFacts ==
    ASSUME NEW x \in Text
    PROVE  /\ Substituted(x) \in Seq(Marked) /\ Len(Substituted(x)) = Len(x)
           /\ \A j \in 1 .. Len(x) : ~Substituted(x)[j].own /\ Substituted(x)[j].meta = FALSE
                                     /\ Substituted(x)[j].char = x[j]
<1>1. Len(x) \in Nat /\ \A j \in 1 .. Len(x) : x[j] \in Byte
  BY DEF Text
<1>2. \A j \in 1 .. Len(x) : [char |-> x[j], meta |-> FALSE, own |-> FALSE] \in Marked
  BY <1>1 DEF Marked
<1>. QED  BY <1>1, <1>2 DEF Substituted

LEMMA OwnFacts ==
    ASSUME NEW a \in Byte
    PROVE  /\ Own(a) \in Marked /\ Own(a).own /\ Own(a).char = a
           /\ Own(a).meta = (a \in Metacharacters)
           /\ << Own(a) >> \in Seq(Marked) /\ Len(<< Own(a) >>) = 1 /\ << Own(a) >>[1] = Own(a)
<1>1. /\ Own(a) \in Marked /\ Own(a).own /\ Own(a).char = a
      /\ Own(a).meta = (a \in Metacharacters)
  BY DEF Own, Marked
<1>. HIDE DEF Own
<1>. QED  BY <1>1

LEMMA ResolvedText ==
    ASSUME NEW keys, \A name \in DOMAIN keys : keys[name] \in Text,
           NEW name, Resolvable(name, keys)
    PROVE  ValueOf(name, keys) \in Text
<1>1. \A n \in LiteralVariables : n \in Text
  <2>1. "*" \in Byte /\ "?" \in Byte /\ "$" \in Byte
    BY DEF Byte, Special
  <2>2. \A a \in Byte : << a >> \in Seq(Byte)
    OBVIOUS
  <2>. QED  BY <2>1, <2>2 DEF LiteralVariables, Text
<1>. QED  BY <1>1 DEF Resolvable, ValueOf

LEMMA MeaningMeans ==
    ASSUME NEW s \in Text, NEW keys, \A name \in DOMAIN keys : keys[name] \in Text,
           Fine(s, keys)
    PROVE  \E M : Meaning(s, keys, FALSE) = M[1] /\ Means(s, keys, M)
<1>. DEFINE L == Len(s)
            N == L + 1
<1>0. L \in Nat /\ N \in Nat /\ \A i \in 1 .. L : s[i] \in Byte
  BY DEF Text
<1>1. \A r \in References(s) : Closing(s, r) # 0
  BY DEF Fine
<1>2. PICK M : /\ Meaning(s, keys, FALSE) = M[1]
               /\ Joins(M, L, MeaningNext(s, FALSE), MeaningPiece(s, keys, FALSE))
  BY <1>1, AllClosed, MeaningJoins
<1>3. /\ M[N] = << >>
      /\ \A i \in 1 .. L : ~Opens(s, i) => M[i] = << Own(s[i]) >> \o M[i + 1]
      /\ \A i \in 1 .. L : Opens(s, i) =>
            M[i] = Substituted(ValueOf(NameAt(s, i), keys)) \o M[Closing(s, i) + 1]
  BY <1>2 DEF Joins, MeaningNext, MeaningPiece
<1>4. ASSUME NEW i \in 1 .. L, ~InVariable(s, i), ~Opens(s, i)
      PROVE  i + 1 \in Outside(s)
  <2>1. ~InVariable(s, i + 1)
    BY <1>4, PassByte
  <2>2. i + 1 \in 1 .. N
    BY <1>0
  <2>. QED  BY <2>1, <2>2 DEF Outside
<1>5. ASSUME NEW i \in 1 .. L, ~InVariable(s, i), Opens(s, i)
      PROVE  /\ Closing(s, i) \in i + 2 .. L /\ Closing(s, i) + 1 \in Outside(s)
             /\ ValueOf(NameAt(s, i), keys) \in Text
  <2>1. i \in References(s)
    BY <1>5 DEF References
  <2>2. Closing(s, i) \in i + 2 .. L /\ ~InVariable(s, Closing(s, i) + 1)
    BY <1>1, <1>5, <2>1, PassReference
  <2>3. Closing(s, i) + 1 \in 1 .. N
    BY <1>0, <2>2
  <2>4. ValueOf(NameAt(s, i), keys) \in Text
    BY <2>1, ResolvedText DEF Fine
  <2>. QED  BY <2>2, <2>3, <2>4 DEF Outside
<1>. DEFINE P == { i \in 1 .. N : M[i] \in Seq(Marked) }
<1>6. N \in P
  <2>1. << >> \in Seq(Marked)
    BY EmptySeq
  <2>2. N \in 1 .. N
    BY <1>0
  <2>. QED  BY <1>3, <2>1, <2>2
<1>7. ASSUME NEW i \in 1 .. L, ~InVariable(s, i), ~Opens(s, i), i + 1 \in P
      PROVE  i \in P
  <2>1. M[i] = << Own(s[i]) >> \o M[i + 1] /\ M[i + 1] \in Seq(Marked) /\ s[i] \in Byte
    BY <1>0, <1>3, <1>7
  <2>2. M[i] \in Seq(Marked)
    BY <2>1, OwnFacts, ConcatProperties
  <2>3. i \in 1 .. N
    BY <1>0
  <2>. QED  BY <2>2, <2>3
<1>8. ASSUME NEW i \in 1 .. L, ~InVariable(s, i), Opens(s, i), Closing(s, i) + 1 \in P
      PROVE  i \in P
  <2>1. /\ M[i] = Substituted(ValueOf(NameAt(s, i), keys)) \o M[Closing(s, i) + 1]
        /\ M[Closing(s, i) + 1] \in Seq(Marked)
    BY <1>3, <1>8
  <2>2. M[i] \in Seq(Marked)
    BY <1>5, <1>8, <2>1, SubstitutedFacts, ConcatProperties
  <2>3. i \in 1 .. N
    BY <1>0
  <2>. QED  BY <2>2, <2>3
<1>9. \A i \in Outside(s) : i \in P
  <2>. HIDE DEF P
  <2>. QED  BY <1>1, <1>6, <1>7, <1>8, OutsideInduction
<1>10. ASSUME NEW i \in Outside(s), i <= L
       PROVE  i \in 1 .. L /\ ~InVariable(s, i)
  <2>1. i \in 1 .. N
    BY DEF Outside
  <2>. QED  BY <1>0, <1>10, <2>1 DEF Outside
<1>11. Means(s, keys, M)
  <2>1. \A i \in Outside(s) : M[i] \in Seq(Marked)
    BY <1>9
  <2>2. \A i \in Outside(s) : i <= L /\ ~Opens(s, i) =>
          s[i] \in Byte /\ i + 1 \in Outside(s) /\ M[i] = << Own(s[i]) >> \o M[i + 1]
    BY <1>0, <1>3, <1>4, <1>10
  <2>3. \A i \in Outside(s) : i <= L /\ Opens(s, i) =>
          /\ Closing(s, i) \in i + 2 .. L /\ Closing(s, i) + 1 \in Outside(s)
          /\ ValueOf(NameAt(s, i), keys) \in Text
          /\ M[i] = Substituted(ValueOf(NameAt(s, i), keys)) \o M[Closing(s, i) + 1]
    BY <1>3, <1>5, <1>10
  <2>. QED  BY <1>3, <2>1, <2>2, <2>3 DEF Means
<1>. QED  BY <1>2, <1>11

(* A part of a pattern that begins and ends outside of references.         *)
Slice(u, s, n) ==
    /\ u \in Text /\ s \in Text /\ n \in Nat /\ n + Len(u) <= Len(s)
    /\ \A x \in 1 .. Len(u) : u[x] = s[n + x]
    /\ n + 1 \in Outside(s) /\ (n + Len(u)) + 1 \in Outside(s)

LEMMA SliceOpens ==
    ASSUME NEW u, NEW s, NEW n, Slice(u, s, n), NEW x \in 1 .. Len(u)
    PROVE  Opens(u, x) <=> Opens(s, n + x)
<1>. DEFINE U == Len(u)
            L == Len(s)
<1>0. U \in Nat /\ L \in Nat /\ n \in Nat /\ n + U <= L
  BY DEF Slice, Text
<1>1. CASE x < U
  <2>1. x + 1 \in 1 .. U /\ n + x < L /\ n + (x + 1) = (n + x) + 1
    BY <1>0, <1>1
  <2>2. u[x] = s[n + x] /\ u[x + 1] = s[(n + x) + 1]
    <3>1. u[x] = s[n + x] /\ u[x + 1] = s[n + (x + 1)]
      BY <2>1 DEF Slice
    <3>. QED  BY <2>1, <3>1
  <2>. QED  BY <1>1, <2>1, <2>2 DEF Opens
<1>2. CASE x = U
  <2>1. ~Opens(u, x)
    <3>1. ~(x < U)
      BY <1>0, <1>2
    <3>. QED  BY <3>1 DEF Opens
  <2>2. ASSUME Opens(s, n + x)
        PROVE  FALSE
    <3>. DEFINE j == n + x
    <3>0. j \in Nat /\ j >= 1
      BY <1>0
    <3>1. ~InVariable(s, j + 1)
      BY <1>2 DEF Slice, Outside
    <3>2. Opens(s, j)
      BY <2>2
    <3>. HIDE DEF j
    <3>3. j \in 1 .. (j + 1) - 1 /\ \A k \in j + 2 .. (j + 1) - 1 : FALSE
      BY <3>0
    <3>. QED  BY <3>1, <3>2, <3>3 DEF InVariable
  <2>. QED  BY <2>1, <2>2
<1>. QED  BY <1>0, <1>1, <1>2

LEMMA SliceOutside ==
    ASSUME NEW u, NEW s, NEW n, Slice(u, s, n), NEW x \in Outside(u)
    PROVE  n + x \in Outside(s)
<1>. DEFINE U == Len(u)
            L == Len(s)
<1>0. U \in Nat /\ L \in Nat /\ n \in Nat /\ n + U <= L
  BY DEF Slice, Text
<1>1. x \in 1 .. U + 1 /\ ~InVariable(u, x)
  BY DEF Outside
<1>2. n + x \in 1 .. L + 1
  BY <1>0, <1>1
<1>3. ASSUME NEW j \in 1 .. (n + x) - 1, Opens(s, j), \A k \in j + 2 .. (n + x) - 1 : s[k] # "}"
      PROVE  FALSE
  <2>0. j \in Nat /\ x \in Nat
    BY <1>0, <1>1
  <2>1. CASE j <= n
    <3>1. j \in 1 .. (n + 1) - 1 /\ \A k \in j + 2 .. (n + 1) - 1 : k \in j + 2 .. (n + x) - 1
      BY <1>0, <1>1, <2>0, <2>1
    <3>2. InVariable(s, n + 1)
      BY <1>3, <3>1 DEF InVariable
    <3>. QED  BY <3>2 DEF Slice, Outside
  <2>2. CASE ~(j <= n)
    <3>1. j - n \in 1 .. x - 1 /\ j - n \in 1 .. U /\ n + (j - n) = j
      BY <1>0, <1>1, <2>0, <2>2
    <3>2. Opens(u, j - n)
      <4>. DEFINE y == j - n
      <4>1. y \in 1 .. U /\ n + y = j
        BY <3>1
      <4>. HIDE DEF y
      <4>2. Opens(u, y)
        BY <1>3, <4>1, SliceOpens
      <4>. QED  BY <4>2 DEF y
    <3>3. ASSUME NEW k \in (j - n) + 2 .. x - 1
          PROVE  u[k] # "}"
      <4>1. k \in 1 .. U /\ n + k \in j + 2 .. (n + x) - 1
        BY <1>0, <1>1, <2>0, <2>2
      <4>2. u[k] = s[n + k]
        BY <4>1 DEF Slice
      <4>. QED  BY <1>3, <4>1, <4>2
    <3>. QED  BY <1>1, <3>1, <3>2, <3>3 DEF InVariable
  <2>. QED  BY <2>1, <2>2
<1>4. ~InVariable(s, n + x)
  BY <1>3 DEF InVariable
<1>. QED  BY <1>2, <1>4 DEF Outside

LEMMA SliceName ==
    ASSUME NEW u, NEW s, NEW n, Slice(u, s, n), NEW x \in Outside(u), x <= Len(u),
           Opens(u, x), Closing(s, n + x) # 0
    PROVE  /\ Closing(u, x) \in x + 2 .. Len(u) /\ Closing(s, n + x) = n + Closing(u, x)
           /\ NameAt(u, x) = NameAt(s, n + x)
<1>. DEFINE U == Len(u)
            L == Len(s)
            c == Closing(s, n + x)
            d == Closing(u, x)
<1>0. U \in Nat /\ L \in Nat /\ n \in Nat /\ n + U <= L
  BY DEF Slice, Text
<1>1. x \in 1 .. U /\ x \in Nat
  BY <1>0 DEF Outside
<1>2. /\ \A y \in 1 .. U : u[y] = s[n + y]
      /\ \A y \in 1 .. U : s[n + y] \in Byte
  BY DEF Slice, Text
<1>3. /\ c \in (n + x) + 2 .. L /\ s[c] = "}"
      /\ \A j \in (n + x) + 2 .. c - 1 : s[j] # "}"
  <2>1. n + x \in Nat /\ s \in Seq(Byte)
    BY <1>0, <1>1 DEF Slice, Text
  <2>. QED  BY <2>1, ClosingFacts
<1>4. \/ d = 0 /\ \A j \in x + 2 .. U : u[j] # "}"
      \/ d \in x + 2 .. U /\ u[d] = "}" /\ \A j \in x + 2 .. d - 1 : u[j] # "}"
  <2>1. u \in Seq(Byte)
    BY DEF Slice, Text
  <2>. QED  BY <1>1, <2>1, ClosingFacts
<1>5. Opens(s, n + x)
  BY <1>1, SliceOpens
<1>. HIDE DEF c, d, U, L
<1>6. c \in Nat /\ (n + x) + 2 <= c /\ c <= L
  <2>1. c \in (n + x) + 2 .. L
    BY <1>3
  <2>. QED  BY <1>0, <1>1, <2>1
<1>7. c <= n + U
  <2>1. ASSUME ~(c <= n + U)
        PROVE  FALSE
    <3>1. n + x \in 1 .. ((n + U) + 1) - 1
      BY <1>0, <1>1
    <3>2. \A k \in (n + x) + 2 .. ((n + U) + 1) - 1 : k \in (n + x) + 2 .. c - 1
      BY <1>0, <1>1, <1>6, <2>1
    <3>3. InVariable(s, (n + U) + 1)
      BY <1>3, <1>5, <3>1, <3>2 DEF InVariable
    <3>. QED  BY <3>3 DEF Slice, Outside, U
  <2>. QED  BY <2>1
<1>8. c - n \in x + 2 .. U /\ n + (c - n) = c /\ c - n \in 1 .. U
  BY <1>0, <1>1, <1>6, <1>7
<1>9. u[c - n] = "}"
  BY <1>2, <1>3, <1>8
<1>10. d \in x + 2 .. U /\ u[d] = "}" /\ \A j \in x + 2 .. d - 1 : u[j] # "}"
  BY <1>4, <1>8, <1>9
<1>a. d \in Nat /\ x + 2 <= d /\ d <= U
  <2>1. d \in x + 2 .. U
    BY <1>10
  <2>. QED  BY <1>0, <1>1, <2>1
<1>11. d = c - n
  <2>2. ~(c - n \in x + 2 .. d - 1)
    BY <1>9, <1>10
  <2>3. d \in 1 .. U
    BY <1>0, <1>1, <1>a
  <2>4. ~(n + d \in (n + x) + 2 .. c - 1)
    BY <1>2, <1>3, <1>10, <2>3
  <2>. QED  BY <1>0, <1>1, <1>6, <1>8, <1>a, <2>2, <2>4
<1>12. SubSeq(u, x + 2, d - 1) = SubSeq(s, (n + x) + 2, c - 1)
  <2>. DEFINE A == SubSeq(u, x + 2, d - 1)
              B == SubSeq(s, (n + x) + 2, c - 1)
              k == (d - 1) - (x + 2) + 1
  <2>0. /\ d \in Nat /\ x + 2 \in Int /\ d - 1 \in Int /\ (n + x) + 2 \in Int /\ c - 1 \in Int
        /\ k = (c - 1) - ((n + x) + 2) + 1 /\ k \in Nat
    BY <1>0, <1>1, <1>6, <1>a, <1>11
  <2>1. \A i \in x + 2 .. d - 1 : u[i] \in Byte
    <3>1. \A i \in x + 2 .. d - 1 : i \in 1 .. U
      BY <1>0, <1>1, <1>a
    <3>. QED  BY <1>2, <3>1
  <2>2. \A i \in (n + x) + 2 .. c - 1 : s[i] \in Byte
    <3>1. \A i \in (n + x) + 2 .. c - 1 : i - n \in 1 .. U /\ n + (i - n) = i
      BY <1>0, <1>1, <1>6, <1>7
    <3>. QED  BY <1>2, <3>1
  <2>3. /\ A \in Seq(Byte) /\ Len(A) = (IF x + 2 <= d - 1 THEN k ELSE 0)
        /\ \A i \in 1 .. k : A[i] = u[(x + 2) + i - 1]
    BY <2>0, <2>1, SubSeqProperties, SMTT(30)
  <2>4. /\ B \in Seq(Byte)
        /\ Len(B) = (IF (n + x) + 2 <= c - 1 THEN (c - 1) - ((n + x) + 2) + 1 ELSE 0)
        /\ \A i \in 1 .. (c - 1) - ((n + x) + 2) + 1 : B[i] = s[((n + x) + 2) + i - 1]
    BY <2>0, <2>2, SubSeqProperties, SMTT(30)
  <2>. HIDE DEF A, B
  <2>5. Len(A) = k /\ Len(B) = k
    BY <1>0, <1>1, <1>6, <1>11, <2>0, <2>3, <2>4
  <2>6. ASSUME NEW i \in 1 .. k
        PROVE  A[i] = B[i]
    <3>1. (x + 2) + i - 1 \in 1 .. U /\ n + ((x + 2) + i - 1) = ((n + x) + 2) + i - 1
      BY <1>0, <1>1, <1>a, <2>0
    <3>2. A[i] = u[(x + 2) + i - 1]
      BY <2>3
    <3>3. B[i] = s[((n + x) + 2) + i - 1]
      BY <2>0, <2>4
    <3>4. u[(x + 2) + i - 1] = s[n + ((x + 2) + i - 1)]
      BY <1>2, <3>1
    <3>. QED  BY <3>1, <3>2, <3>3, <3>4
  <2>7. A = B
    <3>. HIDE DEF k
    <3>. QED  BY <2>3, <2>4, <2>5, <2>6, SeqEqual
  <2>. QED  BY <2>7 DEF A, B
<1>13. c = n + d
  BY <1>0, <1>6, <1>11
<1>14. NameAt(u, x) = NameAt(s, n + x)
  BY <1>12 DEF NameAt, c, d
<1>. QED  BY <1>10, <1>13, <1>14 DEF c, d, U

(* The references of a part are references of the whole.                   *)
LEMMA SliceFine ==
    ASSUME NEW u, NEW s, NEW n, Slice(u, s, n), NEW keys, Fine(s, keys)
    PROVE  Fine(u, keys)
<1>. SUFFICES ASSUME NEW r \in References(u)
              PROVE  Closing(u, r) # 0 /\ Resolvable(NameAt(u, r), keys)
  BY DEF Fine
<1>0. Len(u) \in Nat /\ Len(s) \in Nat /\ n \in Nat /\ n + Len(u) <= Len(s)
  BY DEF Slice, Text
<1>1. r \in 1 .. Len(u) /\ Opens(u, r) /\ ~InVariable(u, r)
  BY DEF References
<1>2. r \in Outside(u) /\ r <= Len(u) /\ r \in Nat
  BY <1>0, <1>1 DEF Outside
<1>3. n + r \in Outside(s) /\ Opens(s, n + r)
  BY <1>1, <1>2, SliceOutside, SliceOpens
<1>4. n + r \in References(s)
  <2>1. n + r \in 1 .. Len(s)
    BY <1>0, <1>1
  <2>. QED  BY <1>3, <2>1 DEF References, Outside
<1>5. Closing(s, n + r) # 0 /\ Resolvable(NameAt(s, n + r), keys)
  BY <1>4 DEF Fine
<1>6. Closing(u, r) \in r + 2 .. Len(u) /\ NameAt(u, r) = NameAt(s, n + r)
  BY <1>1, <1>2, <1>5, SliceName
<1>. QED  BY <1>0, <1>2, <1>5, <1>6

LEMMA Associates ==
    ASSUME NEW S, NEW x \in Seq(S), NEW y \in Seq(S), NEW z \in Seq(S)
    PROVE  (x \o y) \o z = x \o (y \o z)
BY ConcatAssociative

LEMMA MarkedAssociates ==
    \A x, y, z \in Seq(Marked) : (x \o y) \o z = x \o (y \o z)
<1>. DEFINE S == Marked
<1>. HIDE DEF S
<1>1. \A x, y, z \in Seq(S) : (x \o y) \o z = x \o (y \o z)
  BY Associates
<1>. QED  BY <1>1 DEF S

(* A pattern begins and ends outside of its references.                    *)
LEMMA EndsOutside ==
    ASSUME NEW s \in Text, \A r \in References(s) : Closing(s, r) # 0
    PROVE  1 \in Outside(s) /\ Len(s) + 1 \in Outside(s)
<1>. DEFINE L == Len(s)
<1>0. L \in Nat
  BY DEF Text
<1>1. 1 \in Outside(s)
  <2>1. 1 \in 1 .. L + 1 /\ \A j \in 1 .. 1 - 1 : FALSE
    BY <1>0
  <2>. QED  BY <2>1 DEF Outside, InVariable
<1>2. L + 1 \in Outside(s)
  <2>1. ASSUME NEW j \in 1 .. (L + 1) - 1, Opens(s, j), \A k \in j + 2 .. (L + 1) - 1 : s[k] # "}"
        PROVE  FALSE
    <3>1. j \in 1 .. L /\ j \in Nat /\ (L + 1) - 1 = L
      BY <1>0
    <3>2. Closing(s, j) # 0
      BY <2>1, <3>1, AllClosed
    <3>3. Closing(s, j) \in j + 2 .. L /\ s[Closing(s, j)] = "}"
      BY <3>1, <3>2, ClosingFacts DEF Text
    <3>. QED  BY <2>1, <3>1, <3>3
  <2>2. L + 1 \in 1 .. L + 1
    BY <1>0
  <2>. QED  BY <2>1, <2>2 DEF Outside, InVariable
<1>. QED  BY <1>1, <1>2

(* What a part means is a part of what the whole means.                    *)
Cuts(M, W, i, j) == M[i] = W[1] \o M[j]

LEMMA SliceMeaning ==
    ASSUME NEW u, NEW s, NEW n, Slice(u, s, n), NEW keys, Fine(s, keys),
           NEW M, Means(s, keys, M), NEW W, Means(u, keys, W),
           NEW i, i = n + 1, NEW j, j = (n + Len(u)) + 1
    PROVE  Cuts(M, W, i, j)
<1>. DEFINE U == Len(u)
            L == Len(s)
            R == M[(n + U) + 1]
            P == { x \in 1 .. U + 1 : x \in Outside(u) /\ M[n + x] = W[x] \o R }
<1>0. U \in Nat /\ L \in Nat /\ n \in Nat /\ n + U <= L /\ u \in Text /\ n + (U + 1) = (n + U) + 1
  BY DEF Slice, Text
<1>1. \A r \in References(u) : Closing(u, r) # 0
  BY SliceFine DEF Fine
<1>2. R \in Seq(Marked)
  BY DEF Slice, Means
<1>. HIDE DEF R
<1>3. U + 1 \in P
  <2>1. W[U + 1] = << >>
    BY DEF Means
  <2>2. << >> \o R = R
    BY <1>2, ConcatEmptySeq
  <2>3. U + 1 \in 1 .. U + 1
    BY <1>0
  <2>4. M[n + (U + 1)] = R
    BY <1>0 DEF R
  <2>5. U + 1 \in Outside(u)
    BY <1>0, <1>1, EndsOutside
  <2>. QED  BY <2>1, <2>2, <2>3, <2>4, <2>5
<1>4. ASSUME NEW x \in 1 .. U, ~InVariable(u, x)
      PROVE  /\ x \in Outside(u) /\ x <= U /\ x \in 1 .. U + 1
             /\ n + x \in Outside(s) /\ n + x <= L
             /\ Opens(u, x) <=> Opens(s, n + x)
  <2>1. x \in 1 .. U + 1 /\ x <= U /\ n + x <= L
    BY <1>0
  <2>2. x \in Outside(u)
    BY <1>4, <2>1 DEF Outside
  <2>. QED  BY <2>1, <2>2, SliceOutside, SliceOpens
<1>5. ASSUME NEW x \in 1 .. U, ~InVariable(u, x), ~Opens(u, x), x + 1 \in P
      PROVE  x \in P
  <2>1. M[n + (x + 1)] = W[x + 1] \o R /\ x + 1 \in Outside(u)
    BY <1>5
  <2>2. W[x] = << Own(u[x]) >> \o W[x + 1] /\ u[x] \in Byte /\ W[x + 1] \in Seq(Marked)
    BY <1>4, <1>5, <2>1 DEF Means
  <2>3. M[n + x] = << Own(s[n + x]) >> \o M[(n + x) + 1] /\ s[n + x] = u[x]
    BY <1>4, <1>5 DEF Means, Slice
  <2>4. (n + x) + 1 = n + (x + 1)
    BY <1>0
  <2>5. M[n + x] = << Own(u[x]) >> \o (W[x + 1] \o R)
    BY <2>1, <2>3, <2>4
  <2>6. << Own(u[x]) >> \in Seq(Marked)
    BY <2>2, OwnFacts
  <2>7. (<< Own(u[x]) >> \o W[x + 1]) \o R = << Own(u[x]) >> \o (W[x + 1] \o R)
    BY <1>2, <2>2, <2>6, MarkedAssociates
  <2>. QED  BY <1>4, <1>5, <2>2, <2>5, <2>7
<1>6. ASSUME NEW x \in 1 .. U, ~InVariable(u, x), Opens(u, x), Closing(u, x) + 1 \in P
      PROVE  x \in P
  <2>. DEFINE y == Substituted(ValueOf(NameAt(u, x), keys))
              d == Closing(u, x)
              c == Closing(s, n + x)
  <2>1. M[n + (d + 1)] = W[d + 1] \o R /\ d + 1 \in Outside(u)
    BY <1>6
  <2>2. W[x] = y \o W[d + 1] /\ ValueOf(NameAt(u, x), keys) \in Text /\ W[d + 1] \in Seq(Marked)
    BY <1>4, <1>6, <2>1 DEF Means
  <2>3. c \in (n + x) + 2 .. L
    BY <1>4, <1>6 DEF Means
  <2>4. c # 0
    BY <1>0, <2>3
  <2>5. d \in x + 2 .. U /\ c = n + d /\ NameAt(u, x) = NameAt(s, n + x)
    BY <1>4, <1>6, <2>4, SliceName
  <2>6. M[n + x] = y \o M[c + 1]
    BY <1>4, <1>6, <2>5 DEF Means
  <2>7. c + 1 = n + (d + 1)
    BY <1>0, <2>5
  <2>8. y \in Seq(Marked)
    BY <2>2, SubstitutedFacts
  <2>. HIDE DEF y, c, d
  <2>9. M[n + x] = y \o (W[d + 1] \o R)
    BY <2>1, <2>6, <2>7
  <2>10. (y \o W[d + 1]) \o R = y \o (W[d + 1] \o R)
    BY <1>2, <2>2, <2>8, MarkedAssociates
  <2>. QED  BY <1>4, <1>6, <2>2, <2>9, <2>10
<1>7. \A x \in Outside(u) : x \in P
  <2>. HIDE DEF P
  <2>. QED  BY <1>0, <1>1, <1>3, <1>5, <1>6, OutsideInduction
<1>8. 1 \in Outside(u)
  <2>1. 1 \in 1 .. U + 1 /\ \A x \in 1 .. 1 - 1 : FALSE
    BY <1>0
  <2>. QED  BY <2>1 DEF Outside, InVariable
<1>9. M[n + 1] = W[1] \o R
  BY <1>7, <1>8
<1>. QED  BY <1>9 DEF Cuts, R

LEMMA SliceOf ==
    ASSUME NEW s \in Text, NEW i \in Outside(s), NEW j \in Outside(s), i <= j
    PROVE  /\ Slice(SubSeq(s, i, j - 1), s, i - 1)
           /\ Len(SubSeq(s, i, j - 1)) = j - i
<1>. DEFINE L == Len(s)
            u == SubSeq(s, i, j - 1)
<1>0. L \in Nat /\ \A x \in 1 .. L : s[x] \in Byte
  BY DEF Text
<1>1. i \in 1 .. L + 1 /\ j \in 1 .. L + 1
  BY DEF Outside
<1>. HIDE DEF L
<1>2. i \in Int /\ j - 1 \in Int /\ (j - 1) - i + 1 = j - i /\ (~(i <= j - 1) => j - i = 0)
  BY <1>0, <1>1
<1>3. \A x \in i .. j - 1 : s[x] \in Byte
  <2>1. \A x \in i .. j - 1 : x \in 1 .. L
    BY <1>0, <1>1
  <2>. QED  BY <1>0, <2>1
<1>4. /\ u \in Seq(Byte) /\ Len(u) = (IF i <= j - 1 THEN (j - 1) - i + 1 ELSE 0)
      /\ \A x \in 1 .. (j - 1) - i + 1 : u[x] = s[i + x - 1]
  BY <1>2, <1>3, SubSeqProperties
<1>. HIDE DEF u
<1>5. Len(u) = j - i
  BY <1>2, <1>4
<1>6. \A x \in 1 .. Len(u) : u[x] = s[(i - 1) + x]
  <2>1. \A x \in 1 .. Len(u) : x \in 1 .. (j - 1) - i + 1 /\ i + x - 1 = (i - 1) + x
    BY <1>1, <1>2, <1>5
  <2>. QED  BY <1>4, <2>1
<1>7. /\ i - 1 \in Nat /\ (i - 1) + Len(u) <= L
      /\ (i - 1) + 1 = i /\ ((i - 1) + Len(u)) + 1 = j
  BY <1>0, <1>1, <1>5
<1>8. Slice(u, s, i - 1)
  BY <1>4, <1>6, <1>7 DEF Slice, Text, L
<1>. QED  BY <1>5, <1>8 DEF u

(* The elements of m from the q-th to before the r-th are those of x.      *)
Part(m, q, r, x) ==
    /\ x \in Seq(Marked) /\ Len(x) = r - q
    /\ \A k \in 1 .. r - q : m[(q - 1) + k] = x[k]

(* Where the byte at each position of a pattern stands in what the pattern *)
(* means.  A byte of the pattern's own stands for itself, and it alone.    *)
Placed(s, m, E) ==
    /\ m \in Seq(Marked)
    /\ \A i \in Outside(s) : E[i] \in 1 .. Len(m) + 1
    /\ E[1] = 1 /\ E[Len(s) + 1] = Len(m) + 1
    /\ \A i, j \in Outside(s) : i <= j => E[i] <= E[j]
    /\ \A i \in Outside(s) : i <= Len(s) /\ ~Opens(s, i) =>
          i + 1 \in Outside(s) /\ E[i + 1] = E[i] + 1 /\ m[E[i]] = Own(s[i])
    /\ \A e \in 1 .. Len(m) : m[e].own =>
          \E i \in Outside(s) : i <= Len(s) /\ ~Opens(s, i) /\ E[i] = e

(* The elements of the pattern's own, counted from the end.                *)
OwnAt(s, M, i, e) ==
    \E j \in Outside(s) : j <= Len(s) /\ ~Opens(s, j) /\ Len(M[j]) = (Len(M[i]) - e) + 1

LEMMA OwnElements ==
    ASSUME NEW s \in Text, NEW keys, Fine(s, keys), NEW M, Means(s, keys, M)
    PROVE  \A i \in Outside(s) : \A e \in 1 .. Len(M[i]) : M[i][e].own => OwnAt(s, M, i, e)
<1>. DEFINE L == Len(s)
            P == { i \in 1 .. L + 1 : i \in Outside(s) /\
                      \A e \in 1 .. Len(M[i]) : M[i][e].own => OwnAt(s, M, i, e) }
<1>0. L \in Nat
  BY DEF Text
<1>1. \A r \in References(s) : Closing(s, r) # 0
  BY DEF Fine
<1>2. L + 1 \in P
  <2>1. M[L + 1] = << >> /\ Len(<< >>) = 0 /\ \A e \in 1 .. 0 : FALSE
    BY DEF Means
  <2>2. L + 1 \in Outside(s)
    BY <1>1, EndsOutside
  <2>3. L + 1 \in 1 .. L + 1
    BY <1>0
  <2>. QED  BY <2>1, <2>2, <2>3
(* The elements that come after the first ones, x.                         *)
<1>3. ASSUME NEW i \in Outside(s), NEW n \in P, NEW x \in Seq(Marked), M[i] = x \o M[n],
             NEW e \in 1 .. Len(M[i]), M[i][e].own, ~(e <= Len(x))
      PROVE  OwnAt(s, M, i, e)
  <2>. DEFINE a == Len(x)
              b == Len(M[n])
              f == e - a
  <2>0. n \in Outside(s) /\ M[n] \in Seq(Marked)
    BY DEF Means
  <2>1. Len(M[i]) = a + b /\ \A k \in 1 .. a + b : M[i][k] = IF k <= a THEN x[k] ELSE M[n][k - a]
    BY <1>3, <2>0, ConcatProperties
  <2>2. a \in Nat /\ b \in Nat
    BY <2>0
  <2>3. e \in 1 .. a + b
    BY <2>1
  <2>. HIDE DEF a, b
  <2>4. f \in 1 .. b /\ ~(e <= a) /\ (b - f) + 1 = ((a + b) - e) + 1
    <3>1. ~(e <= a)
      BY <1>3 DEF a
    <3>. QED  BY <2>2, <2>3, <3>1
  <2>5. M[n][f].own
    BY <1>3, <2>1, <2>3, <2>4
  <2>. HIDE DEF f
  <2>6. OwnAt(s, M, n, f)
    BY <2>4, <2>5 DEF b
  <2>. QED  BY <2>1, <2>4, <2>6 DEF OwnAt, b
<1>4. ASSUME NEW i \in 1 .. L, ~InVariable(s, i), ~Opens(s, i), i + 1 \in P
      PROVE  i \in P
  <2>0. i \in Outside(s) /\ i <= L /\ i \in 1 .. L + 1
    <3>1. i \in 1 .. L + 1 /\ i <= L
      BY <1>0
    <3>. QED  BY <1>4, <3>1 DEF Outside
  <2>1. M[i] = << Own(s[i]) >> \o M[i + 1] /\ s[i] \in Byte /\ M[i] \in Seq(Marked)
    BY <1>4, <2>0 DEF Means
  <2>2. << Own(s[i]) >> \in Seq(Marked) /\ Len(<< Own(s[i]) >>) = 1
    BY <2>1, OwnFacts
  <2>3. ASSUME NEW e \in 1 .. Len(M[i]), M[i][e].own
        PROVE  OwnAt(s, M, i, e)
    <3>1. CASE e = 1
      <4>1. Len(M[i]) \in Nat
        BY <2>1
      <4>2. Len(M[i]) = (Len(M[i]) - e) + 1
        BY <3>1, <4>1
      <4>. QED  BY <1>4, <2>0, <4>2 DEF OwnAt
    <3>2. CASE e # 1
      <4>1. ~(e <= Len(<< Own(s[i]) >>))
        <5>1. ~(e <= 1)
          BY <3>2
        <5>. QED  BY <2>2, <5>1
      <4>. HIDE DEF P
      <4>. QED  BY <1>3, <1>4, <2>0, <2>1, <2>2, <2>3, <4>1
    <3>. QED  BY <3>1, <3>2
  <2>. QED  BY <2>0, <2>3
<1>5. ASSUME NEW i \in 1 .. L, ~InVariable(s, i), Opens(s, i), Closing(s, i) + 1 \in P
      PROVE  i \in P
  <2>. DEFINE y == ValueOf(NameAt(s, i), keys)
  <2>0. i \in Outside(s) /\ i <= L /\ i \in 1 .. L + 1
    <3>1. i \in 1 .. L + 1 /\ i <= L
      BY <1>0
    <3>. QED  BY <1>5, <3>1 DEF Outside
  <2>1. M[i] = Substituted(y) \o M[Closing(s, i) + 1] /\ y \in Text /\ M[i] \in Seq(Marked)
    BY <1>5, <2>0 DEF Means
  <2>1a. Closing(s, i) + 1 \in Outside(s) /\ M[Closing(s, i) + 1] \in Seq(Marked)
    BY <1>5, <2>0 DEF Means
  <2>. HIDE DEF y
  <2>2. /\ Substituted(y) \in Seq(Marked) /\ Len(Substituted(y)) = Len(y)
        /\ \A k \in 1 .. Len(y) : ~Substituted(y)[k].own
    BY <2>1, SubstitutedFacts
  <2>3. ASSUME NEW e \in 1 .. Len(M[i]), M[i][e].own
        PROVE  OwnAt(s, M, i, e)
    <3>1. ASSUME e <= Len(y)
          PROVE  FALSE
      <4>. DEFINE z == Substituted(y)
                  w == M[Closing(s, i) + 1]
      <4>1. /\ Len(z \o w) = Len(z) + Len(w)
            /\ \A k \in 1 .. Len(z) + Len(w) : (z \o w)[k] = IF k <= Len(z) THEN z[k] ELSE w[k - Len(z)]
        BY <2>1a, <2>2, ConcatProperties
      <4>2. (z \o w)[e] = z[e]
        BY <2>1, <2>2, <2>3, <3>1, <4>1
      <4>3. e \in 1 .. Len(y)
        BY <2>1, <3>1 DEF Text
      <4>. QED  BY <2>1, <2>2, <2>3, <4>2, <4>3
    <3>2. ~(e <= Len(Substituted(y)))
      BY <2>2, <3>1
    <3>. HIDE DEF P
    <3>. QED  BY <1>3, <1>5, <2>0, <2>1, <2>2, <2>3, <3>2
  <2>. QED  BY <2>0, <2>3
<1>6. \A i \in Outside(s) : i \in P
  <2>. HIDE DEF P
  <2>. QED  BY <1>1, <1>2, <1>4, <1>5, OutsideInduction
<1>. QED  BY <1>6

(* A sequence and what it ends with.                                       *)
LEMMA Tails ==
    ASSUME NEW m \in Seq(Marked), NEW x \in Seq(Marked), NEW r \in Seq(Marked), m = x \o r
    PROVE  /\ Len(x) \in Nat /\ Len(r) \in Nat /\ Len(m) = Len(x) + Len(r)
           /\ \A k \in 1 .. Len(x) : m[k] = x[k]
           /\ \A k \in 1 .. Len(r) : m[Len(x) + k] = r[k]
<1>. DEFINE a == Len(x)
            b == Len(r)
<1>0. a \in Nat /\ b \in Nat
  OBVIOUS
<1>1. Len(m) = a + b /\ \A k \in 1 .. a + b : m[k] = IF k <= a THEN x[k] ELSE r[k - a]
  BY ConcatProperties
<1>. HIDE DEF a, b
<1>2. \A k \in 1 .. a : k \in 1 .. a + b /\ k <= a
  BY <1>0
<1>3. \A k \in 1 .. b : a + k \in 1 .. a + b /\ ~(a + k <= a) /\ (a + k) - a = k
  BY <1>0
<1>4. \A k \in 1 .. a : m[k] = x[k]
  BY <1>1, <1>2
<1>5. \A k \in 1 .. b : m[a + k] = r[k]
  BY <1>1, <1>3
<1>. QED  BY <1>0, <1>1, <1>4, <1>5 DEF a, b

LEMMA Places ==
    ASSUME NEW s \in Text, NEW keys, \A name \in DOMAIN keys : keys[name] \in Text,
           Fine(s, keys)
    PROVE  \E E : /\ Placed(s, Meaning(s, keys, FALSE), E)
                  /\ \A i, j \in Outside(s) : i <= j =>
                        Part(Meaning(s, keys, FALSE), E[i], E[j],
                             Meaning(SubSeq(s, i, j - 1), keys, FALSE))
<1>1. PICK M : Meaning(s, keys, FALSE) = M[1] /\ Means(s, keys, M)
  BY MeaningMeans
<1>. DEFINE L == Len(s)
            m == M[1]
            Z == Len(m)
            E == [i \in Outside(s) |-> (Z - Len(M[i])) + 1]
            Mid(i, j) == Meaning(SubSeq(s, i, j - 1), keys, FALSE)
<1>0. L \in Nat
  BY DEF Text
<1>2. 1 \in Outside(s) /\ L + 1 \in Outside(s)
  BY EndsOutside DEF Fine
<1>3. m \in Seq(Marked) /\ Z \in Nat /\ \A i \in Outside(s) : M[i] \in Seq(Marked)
  BY <1>1, <1>2 DEF Means
<1>4. \A i \in Outside(s) : Len(M[i]) \in Nat
  BY <1>3
<1>5. ASSUME NEW i \in Outside(s), NEW j \in Outside(s), i <= j
      PROVE  Mid(i, j) \in Seq(Marked) /\ M[i] = Mid(i, j) \o M[j]
  <2>. DEFINE u == SubSeq(s, i, j - 1)
              n == i - 1
  <2>1. Slice(u, s, n) /\ Len(u) = j - i
    BY <1>5, SliceOf
  <2>2. n + 1 = i /\ (n + Len(u)) + 1 = j
    <3>1. i \in 1 .. L + 1 /\ j \in 1 .. L + 1
      BY DEF Outside
    <3>. QED  BY <1>0, <2>1, <3>1
  <2>. HIDE DEF u, n
  <2>3. u \in Text /\ Fine(u, keys)
    BY <2>1, SliceFine DEF Slice
  <2>4. PICK W : Meaning(u, keys, FALSE) = W[1] /\ Means(u, keys, W)
    BY <2>3, MeaningMeans
  <2>5. M[i] = W[1] \o M[j]
    <3>1. Cuts(M, W, i, j)
      BY <1>1, <2>1, <2>2, <2>4, SliceMeaning
    <3>. QED  BY <3>1 DEF Cuts
  <2>6. W[1] \in Seq(Marked)
    <3>1. 1 \in Outside(u)
      BY <2>3, EndsOutside DEF Fine
    <3>. QED  BY <2>4, <3>1 DEF Means
  <2>. QED  BY <2>4, <2>5, <2>6 DEF u
<1>6. \A i \in Outside(s) : E[i] = (Z - Len(M[i])) + 1
  OBVIOUS
<1>. HIDE DEF E, Mid, Z
<1>7. ASSUME NEW i \in Outside(s)
      PROVE  /\ Len(M[i]) <= Z /\ E[i] \in 1 .. Z + 1
             /\ \A k \in 1 .. Len(M[i]) : m[(E[i] - 1) + k] = M[i][k]
  <2>0. 1 <= i
    <3>1. i \in 1 .. L + 1
      BY DEF Outside
    <3>. QED  BY <1>0, <3>1
  <2>1. Mid(1, i) \in Seq(Marked) /\ m = Mid(1, i) \o M[i]
    BY <1>2, <1>5, <2>0
  <2>. DEFINE a == Len(Mid(1, i))
              b == Len(M[i])
  <2>2. /\ a \in Nat /\ b \in Nat /\ Z = a + b
    BY <1>3, <2>1, Tails DEF Z
  <2>3. \A k \in 1 .. b : m[a + k] = M[i][k]
    BY <1>3, <2>1, Tails
  <2>4. E[i] = (Z - b) + 1
    BY <1>6
  <2>. HIDE DEF a, b
  <2>5. E[i] - 1 = a /\ b <= Z /\ E[i] \in 1 .. Z + 1
    BY <2>2, <2>4
  <2>. QED  BY <2>3, <2>5 DEF b
<1>8. ASSUME NEW i \in Outside(s), NEW j \in Outside(s), i <= j
      PROVE  E[i] <= E[j] /\ Part(m, E[i], E[j], Mid(i, j))
  <2>. DEFINE x == Mid(i, j)
              a == Len(x)
              b == Len(M[j])
  <2>1. x \in Seq(Marked) /\ M[i] = x \o M[j]
    BY <1>5, <1>8
  <2>2. a \in Nat /\ b \in Nat /\ Len(M[i]) = a + b
    BY <1>3, <2>1, Tails
  <2>3. \A k \in 1 .. a : M[i][k] = x[k]
    BY <1>3, <2>1, Tails
  <2>4. E[i] = (Z - (a + b)) + 1 /\ E[j] = (Z - b) + 1
    BY <1>6, <2>2
  <2>5. \A k \in 1 .. a + b : m[(E[i] - 1) + k] = M[i][k]
    BY <1>7, <2>2
  <2>. HIDE DEF x, a, b
  <2>6. E[j] - E[i] = a /\ E[i] <= E[j] /\ \A k \in 1 .. a : k \in 1 .. a + b
    BY <1>3, <2>2, <2>4
  <2>7. \A k \in 1 .. E[j] - E[i] : m[(E[i] - 1) + k] = x[k]
    BY <2>3, <2>5, <2>6
  <2>8. Part(m, E[i], E[j], x)
    BY <2>1, <2>6, <2>7 DEF Part, a
  <2>. QED  BY <2>6, <2>8 DEF x
<1>9. ASSUME NEW i \in Outside(s), i <= L, ~Opens(s, i)
      PROVE  i + 1 \in Outside(s) /\ E[i + 1] = E[i] + 1 /\ m[E[i]] = Own(s[i])
  <2>. DEFINE x == << Own(s[i]) >>
              b == Len(M[i + 1])
  <2>1. i + 1 \in Outside(s) /\ M[i] = x \o M[i + 1] /\ s[i] \in Byte
    BY <1>1, <1>9 DEF Means
  <2>2. x \in Seq(Marked) /\ Len(x) = 1 /\ x[1] = Own(s[i])
    BY <2>1, OwnFacts
  <2>. HIDE DEF x
  <2>3. b \in Nat /\ Len(M[i]) = 1 + b
    <3>. DEFINE r == M[i + 1]
    <3>0. r \in Seq(Marked) /\ M[i] \in Seq(Marked) /\ M[i] = x \o r
      BY <1>3, <2>1
    <3>. HIDE DEF r
    <3>1. Len(r) \in Nat /\ Len(M[i]) = Len(x) + Len(r)
      BY <2>2, <3>0, Tails
    <3>. QED  BY <2>2, <3>1 DEF r
  <2>4. M[i][1] = x[1]
    <3>1. \A k \in 1 .. Len(x) : M[i][k] = x[k]
      BY <1>3, <2>1, <2>2, Tails
    <3>2. 1 \in 1 .. Len(x)
      BY <2>2
    <3>. QED  BY <3>1, <3>2
  <2>5. E[i] = (Z - (1 + b)) + 1 /\ E[i + 1] = (Z - b) + 1
    BY <1>6, <2>1, <2>3
  <2>6. m[(E[i] - 1) + 1] = M[i][1]
    <3>1. 1 \in 1 .. Len(M[i])
      <4>. HIDE DEF b
      <4>. QED  BY <2>3
    <3>. QED  BY <1>7, <3>1
  <2>. HIDE DEF b
  <2>7. E[i + 1] = E[i] + 1 /\ (E[i] - 1) + 1 = E[i]
    BY <1>3, <2>3, <2>5
  <2>. QED  BY <2>1, <2>2, <2>4, <2>6, <2>7
<1>10. ASSUME NEW e \in 1 .. Z, m[e].own
       PROVE  \E i \in Outside(s) : i <= L /\ ~Opens(s, i) /\ E[i] = e
  <2>1. OwnAt(s, M, 1, e)
    BY <1>1, <1>2, <1>10, OwnElements DEF Z
  <2>2. PICK j \in Outside(s) : j <= L /\ ~Opens(s, j) /\ Len(M[j]) = (Z - e) + 1
    BY <2>1 DEF OwnAt, Z
  <2>3. E[j] = (Z - ((Z - e) + 1)) + 1
    BY <1>6, <2>2
  <2>4. E[j] = e
    BY <1>3, <2>3
  <2>. QED  BY <2>2, <2>4
<1>11. E[1] = 1 /\ E[L + 1] = Z + 1
  <2>1. M[L + 1] = << >> /\ Len(<< >>) = 0
    BY <1>1 DEF Means
  <2>2. E[1] = (Z - Z) + 1
    BY <1>2, <1>6 DEF Z
  <2>3. E[L + 1] = (Z - 0) + 1
    BY <1>2, <1>6, <2>1
  <2>. QED  BY <1>3, <2>2, <2>3
<1>12. Placed(s, m, E)
  <2>1. \A i \in Outside(s) : E[i] \in 1 .. Z + 1
    BY <1>7
  <2>2. \A i, j \in Outside(s) : i <= j => E[i] <= E[j]
    BY <1>8
  <2>3. \A i \in Outside(s) : i <= L /\ ~Opens(s, i) =>
          i + 1 \in Outside(s) /\ E[i + 1] = E[i] + 1 /\ m[E[i]] = Own(s[i])
    BY <1>9
  <2>. QED  BY <1>3, <1>10, <1>11, <2>1, <2>2, <2>3 DEF Placed, Z
<1>. QED  BY <1>1, <1>8, <1>12 DEF Mid
----------------------------------------------------------------------------
(* The colons that split a string, and the ends of the string.             *)
Rank(colons, i) == Cardinality({ j \in colons : j <= i })

Edge(colons, L, k) ==
    IF k = 0 THEN 0 ELSE IF k = ArnComponents THEN L + 1 ELSE Cut(colons, k)

LEMMA Ranks ==
    ASSUME NEW L \in Nat, NEW colons \in SUBSET (1 .. L)
    PROVE  /\ \A i \in colons : Rank(colons, i) \in Nat \ {0}
           /\ \A i, j \in colons : i < j => Rank(colons, i) < Rank(colons, j)
           /\ Cardinality(colons) \in Nat
           /\ \A i \in colons : i \in Nat /\ 1 <= i /\ i <= L
<1>. DEFINE R(i) == { j \in colons : j <= i }
<1>0. \A i \in colons : i \in Nat /\ 1 <= i /\ i <= L
  OBVIOUS
<1>1. IsFiniteSet(colons) /\ \A i \in colons : IsFiniteSet(R(i))
  <2>1. IsFiniteSet(1 .. L)
    BY FS_Interval
  <2>2. IsFiniteSet(colons)
    BY <2>1, FS_Subset
  <2>3. \A i \in colons : R(i) \subseteq colons
    OBVIOUS
  <2>. HIDE DEF R
  <2>. QED  BY <2>2, <2>3, FS_Subset
<1>2. \A i \in colons : i \in R(i)
  BY <1>0
<1>3. \A i \in colons : Rank(colons, i) = Cardinality(R(i))
  BY DEF Rank
<1>4. ASSUME NEW i \in colons, NEW j \in colons, i < j
      PROVE  R(i) \subseteq R(j) /\ R(i) # R(j)
  <2>1. \A x \in colons : x <= i => x <= j
    BY <1>0, <1>4
  <2>2. j \in R(j) /\ j \notin R(i)
    BY <1>0, <1>4
  <2>. QED  BY <2>1, <2>2
<1>. HIDE DEF R
<1>5. \A i \in colons : Rank(colons, i) \in Nat \ {0}
  <2>1. \A i \in colons : Cardinality(R(i)) \in Nat /\ Cardinality(R(i)) # 0
    BY <1>1, <1>2, FS_CardinalityType, FS_EmptySet
  <2>. QED  BY <1>3, <2>1
<1>6. \A i, j \in colons : i < j => Rank(colons, i) < Rank(colons, j)
  <2>1. ASSUME NEW i \in colons, NEW j \in colons, i < j
        PROVE  Rank(colons, i) < Rank(colons, j)
    <3>1. Cardinality(R(i)) < Cardinality(R(j))
      <4>1. /\ Cardinality(R(i)) <= Cardinality(R(j))
            /\ Cardinality(R(i)) = Cardinality(R(j)) => R(i) = R(j)
        BY <1>1, <1>4, <2>1, FS_Subset
      <4>2. Cardinality(R(i)) \in Nat /\ Cardinality(R(j)) \in Nat
        BY <1>1, FS_CardinalityType
      <4>. QED  BY <1>4, <2>1, <4>1, <4>2
    <3>. QED  BY <1>3, <3>1
  <2>. QED  BY <2>1
<1>. QED  BY <1>0, <1>1, <1>5, <1>6, FS_CardinalityType

(* The edges ascend, and the colons between them are none, so far as the   *)
(* first ArnComponents - 1 go.                                             *)
Ascends(colons, L) ==
    /\ Edge(colons, L, 0) = 0 /\ Edge(colons, L, ArnComponents) = L + 1
    /\ \A k \in 0 .. ArnComponents : Edge(colons, L, k) \in 0 .. L + 1
    /\ \A k \in 1 .. ArnComponents - 1 : Edge(colons, L, k) \in colons
    /\ \A k \in 1 .. ArnComponents : Edge(colons, L, k - 1) < Edge(colons, L, k)
    /\ \A k \in 1 .. ArnComponents - 1 : \A i \in colons :
          Edge(colons, L, k - 1) < i => Edge(colons, L, k) <= i
    /\ \A i \in colons : Rank(colons, i) < ArnComponents <=>
          \E k \in 1 .. ArnComponents - 1 : i = Edge(colons, L, k)

LEMMA Edges ==
    ASSUME NEW L \in Nat, NEW colons \in SUBSET (1 .. L), Splits(colons)
    PROVE  Ascends(colons, L)
<1>. DEFINE A == ArnComponents
            e(k) == Edge(colons, L, k)
            K == 1 .. A - 1
<1>0. A \in Nat \ {0, 1}
  BY ComponentsAssumption
<1>1. /\ \A i \in colons : Rank(colons, i) \in Nat \ {0}
      /\ \A i, j \in colons : i < j => Rank(colons, i) < Rank(colons, j)
      /\ Cardinality(colons) \in Nat
      /\ \A i \in colons : i \in Nat /\ 1 <= i /\ i <= L
  BY Ranks
<1>2. e(0) = 0 /\ e(A) = L + 1
  BY <1>0 DEF Edge
<1>3. ASSUME NEW k \in K
      PROVE  e(k) \in colons /\ Rank(colons, e(k)) = k
  <2>1. k \in Nat \ {0} /\ k # A /\ k <= A - 1
    BY <1>0
  <2>2. e(k) = Cut(colons, k)
    BY <2>1 DEF Edge
  <2>3. k <= Cardinality(colons)
    BY <1>0, <1>1, <2>1 DEF Splits
  <2>4. Cut(colons, k) \in colons /\ Cardinality({ x \in colons : x <= Cut(colons, k) }) = k
    BY <2>1, <2>3, CutExists
  <2>. QED  BY <2>2, <2>4 DEF Rank
<1>. HIDE DEF e
<1>4. ASSUME NEW i \in colons, NEW j \in colons, Rank(colons, i) <= Rank(colons, j)
      PROVE  i <= j
  <2>1. ~(Rank(colons, j) < Rank(colons, i))
    BY <1>1, <1>4
  <2>2. ~(j < i)
    BY <1>1, <2>1
  <2>. QED  BY <1>1, <2>2
<1>5. ASSUME NEW k \in K, NEW i \in colons, e(k - 1) < i
      PROVE  e(k) <= i
  <2>1. k <= Rank(colons, i)
    <3>1. CASE k = 1
      BY <1>1, <3>1
    <3>2. CASE k # 1
      <4>1. k - 1 \in K
        BY <1>0, <3>2
      <4>2. k - 1 < Rank(colons, i)
        BY <1>1, <1>3, <1>5, <4>1
      <4>. QED  BY <1>0, <1>1, <4>2
    <3>. QED  BY <3>1, <3>2
  <2>2. e(k) \in colons /\ Rank(colons, e(k)) <= Rank(colons, i)
    BY <1>3, <2>1
  <2>. QED  BY <1>4, <2>2
<1>6. ASSUME NEW k \in 1 .. A
      PROVE  e(k - 1) < e(k)
  <2>1. CASE k = A
    <3>1. k - 1 \in K
      BY <1>0, <2>1
    <3>2. e(k - 1) \in Nat /\ e(k - 1) <= L
      BY <1>1, <1>3, <3>1
    <3>. QED  BY <1>2, <2>1, <3>2
  <2>2. CASE k # A
    <3>1. k \in K
      BY <1>0, <2>2
    <3>2. CASE k = 1
      <4>1. e(k - 1) = 0
        BY <1>2, <3>2
      <4>2. e(k) \in Nat /\ 1 <= e(k)
        BY <1>1, <1>3, <3>1
      <4>. QED  BY <4>1, <4>2
    <3>3. CASE k # 1
      <4>1. k - 1 \in K
        BY <1>0, <3>1, <3>3
      <4>2. /\ e(k) \in colons /\ Rank(colons, e(k)) = k
            /\ e(k - 1) \in colons /\ Rank(colons, e(k - 1)) = k - 1
        BY <1>3, <3>1, <4>1
      <4>3. ~(k <= k - 1)
        BY <1>0
      <4>4. ~(e(k) < e(k - 1)) /\ e(k) # e(k - 1)
        <5>1. e(k) # e(k - 1)
          BY <4>2, <4>3
        <5>2. ~(k < k - 1)
          BY <1>0
        <5>. QED  BY <1>1, <4>2, <5>1, <5>2
      <4>5. e(k) \in Nat /\ e(k - 1) \in Nat
        BY <1>1, <4>2
      <4>. QED  BY <4>4, <4>5
    <3>. QED  BY <3>2, <3>3
  <2>. QED  BY <2>1, <2>2
<1>7. ASSUME NEW i \in colons
      PROVE  Rank(colons, i) < A <=> \E k \in K : i = e(k)
  <2>1. ASSUME Rank(colons, i) < A
        PROVE  \E k \in K : i = e(k)
    <3>. DEFINE k == Rank(colons, i)
    <3>1. k \in K
      BY <1>0, <1>1, <2>1
    <3>2. e(k) \in colons /\ Rank(colons, e(k)) = k
      <4>. HIDE DEF k
      <4>. QED  BY <1>3, <3>1
    <3>. DEFINE j == e(k)
    <3>3. j \in colons /\ Rank(colons, j) = Rank(colons, i)
      BY <3>2
    <3>. HIDE DEF j, k
    <3>4. j <= i /\ i <= j
      <4>1. Rank(colons, j) <= Rank(colons, i) /\ Rank(colons, i) <= Rank(colons, j)
        BY <1>1, <3>3
      <4>. QED  BY <1>4, <3>3, <4>1
    <3>5. j = i
      BY <1>1, <3>3, <3>4
    <3>. QED  BY <3>1, <3>5 DEF j
  <2>2. ASSUME NEW k \in K, i = e(k)
        PROVE  Rank(colons, i) < A
    <3>1. Rank(colons, i) = k
      BY <1>3, <2>2
    <3>. QED  BY <1>0, <3>1
  <2>. QED  BY <2>1, <2>2
<1>8. ASSUME NEW k \in 0 .. A
      PROVE  e(k) \in 0 .. L + 1
  <2>1. CASE k \in K
    <3>1. e(k) \in Nat /\ e(k) <= L
      BY <1>1, <1>3, <2>1
    <3>. QED  BY <3>1
  <2>2. CASE k \notin K
    <3>1. k = 0 \/ k = A
      BY <1>0, <2>2
    <3>2. e(k) = 0 \/ e(k) = L + 1
      BY <1>2, <3>1
    <3>. QED  BY <3>2
  <2>. QED  BY <2>1, <2>2
<1>. QED  BY <1>2, <1>3, <1>5, <1>6, <1>7, <1>8 DEF Ascends, e

LEMMA ComponentEdges ==
    ASSUME NEW s, NEW colons, NEW k \in 1 .. ArnComponents, Len(s) \in Nat
    PROVE  Component(s, colons, k) =
              SubSeq(s, Edge(colons, Len(s), k - 1) + 1, Edge(colons, Len(s), k) - 1)
<1>0. ArnComponents \in Nat \ {0, 1}
  BY ComponentsAssumption
<1>1. Edge(colons, Len(s), k - 1) + 1 = IF k = 1 THEN 1 ELSE Cut(colons, k - 1) + 1
  <2>1. CASE k = 1
    <3>1. Edge(colons, Len(s), k - 1) = 0
      BY <2>1 DEF Edge
    <3>. QED  BY <2>1, <3>1
  <2>2. CASE k # 1
    <3>1. k - 1 # 0 /\ k - 1 # ArnComponents
      BY <1>0, <2>2
    <3>. QED  BY <2>2, <3>1 DEF Edge
  <2>. QED  BY <2>1, <2>2
<1>2. Edge(colons, Len(s), k) - 1 = IF k = ArnComponents THEN Len(s) ELSE Cut(colons, k) - 1
  <2>1. k # 0
    BY <1>0
  <2>2. CASE k = ArnComponents
    <3>1. Edge(colons, Len(s), k) = Len(s) + 1
      BY <2>1, <2>2 DEF Edge
    <3>2. (Len(s) + 1) - 1 = Len(s)
      OBVIOUS
    <3>. QED  BY <2>2, <3>1, <3>2
  <2>3. CASE k # ArnComponents
    BY <2>1, <2>3 DEF Edge
  <2>. QED  BY <2>2, <2>3
<1>. QED  BY <1>1, <1>2 DEF Component
----------------------------------------------------------------------------
(* Numbers that never descend from one to the next never descend.          *)
LEMMA Monotone ==
    ASSUME NEW a \in Int, NEW b \in Int, NEW f,
           \A k \in a .. b : f[k] \in Int, \A k \in a .. b - 1 : f[k] <= f[k + 1]
    PROVE  \A i, j \in a .. b : i <= j => f[i] <= f[j]
<1>. SUFFICES ASSUME NEW i \in a .. b, NEW j \in a .. b, i <= j, ~(f[i] <= f[j])
              PROVE  FALSE
  OBVIOUS
<1>. DEFINE T == { n \in Nat : i + n \in a .. b /\ ~(f[i] <= f[i + n]) }
<1>1. j - i \in T
  <2>1. j - i \in Nat /\ i + (j - i) = j
    OBVIOUS
  <2>. QED  BY <2>1
<1>2. PICK n \in T : \A k \in T : n <= k
  <2>1. T \in SUBSET Nat /\ T # {}
    BY <1>1
  <2>. HIDE DEF T
  <2>. QED  BY <2>1, Least
<1>3. n \in Nat /\ i + n \in a .. b /\ ~(f[i] <= f[i + n])
  OBVIOUS
<1>4. n # 0
  <2>1. n = 0 => i + n = i
    OBVIOUS
  <2>2. f[i] <= f[i]
    OBVIOUS
  <2>. QED  BY <1>3, <2>1, <2>2
<1>5. n - 1 \in Nat /\ i + (n - 1) \in a .. b - 1 /\ i + (n - 1) \in a .. b
      /\ (i + (n - 1)) + 1 = i + n /\ ~(n <= n - 1)
  BY <1>3, <1>4
<1>6. n - 1 \notin T
  <2>. HIDE DEF T
  <2>. QED  BY <1>2, <1>5
<1>7. f[i] <= f[i + (n - 1)]
  BY <1>5, <1>6
<1>. DEFINE y == i + (n - 1)
            z == i + n
<1>8. f[y] <= f[z] /\ f[y] \in Int /\ f[z] \in Int /\ f[i] \in Int
  <2>1. f[y] <= f[y + 1]
    <3>1. y \in a .. b - 1
      BY <1>5
    <3>. HIDE DEF y
    <3>. QED  BY <3>1
  <2>2. f[y] \in Int /\ f[z] \in Int /\ f[i] \in Int
    <3>1. y \in a .. b /\ z \in a .. b
      BY <1>3, <1>5
    <3>. HIDE DEF y, z
    <3>. QED  BY <3>1
  <2>. QED  BY <1>5, <2>1, <2>2
<1>9. f[i] <= f[y] /\ ~(f[i] <= f[z])
  BY <1>3, <1>7
<1>. HIDE DEF y, z
<1>. QED  BY <1>8, <1>9

LEMMA CoverAscends ==
    ASSUME NEW t, Len(t) \in Nat, NEW s \in Text, NEW at, Covering(t, s, at)
    PROVE  /\ \A y, z \in 1 .. Len(t) + 1 : y <= z => at[y] <= at[z]
           /\ \A y \in 1 .. Len(t) + 1 : at[y] \in Nat /\ 1 <= at[y] /\ at[y] <= Len(s) + 1
<1>. DEFINE L == Len(t)
            M == Len(s)
            N == L + 1
<1>0. L \in Nat /\ M \in Nat /\ N \in Int /\ 1 \in Int
  BY DEF Text
<1>1. at \in [1 .. N -> 1 .. M + 1] /\ \A j \in 1 .. L : Fits(t, s, j, at)
  BY DEF Covering
<1>2. \A y \in 1 .. N : at[y] \in 1 .. M + 1
  <2>. HIDE DEF N
  <2>. QED  BY <1>1
<1>3. \A y \in 1 .. N : at[y] \in Int /\ at[y] \in Nat /\ 1 <= at[y] /\ at[y] <= M + 1
  BY <1>0, <1>2
<1>4. \A y \in 1 .. N - 1 : at[y] <= at[y + 1]
  <2>1. ASSUME NEW y \in 1 .. N - 1
        PROVE  at[y] <= at[y + 1]
    <3>1. y \in 1 .. L /\ y \in 1 .. N
      BY <1>0
    <3>2. at[y] \in Int
      BY <1>3, <3>1
    <3>3. at[y] <= at[y + 1] \/ at[y + 1] = at[y] + 1
      BY <1>1, <3>1 DEF Fits
    <3>. QED  BY <3>2, <3>3
  <2>. QED  BY <2>1
<1>. HIDE DEF N
<1>5. \A y, z \in 1 .. N : y <= z => at[y] <= at[z]
  BY <1>0, <1>3, <1>4, Monotone
<1>. QED  BY <1>3, <1>5 DEF N

(* Every byte lies in some element.                                        *)
LEMMA CoverFinds ==
    ASSUME NEW t, Len(t) \in Nat, NEW s \in Text, NEW at, Covering(t, s, at),
           NEW b \in 1 .. Len(s)
    PROVE  \E y \in 1 .. Len(t) : at[y] <= b /\ b < at[y + 1]
<1>. DEFINE L == Len(t)
            M == Len(s)
            T == { y \in 1 .. L + 1 : b < at[y] }
<1>0. L \in Nat /\ M \in Nat /\ b \in Nat /\ 1 <= b /\ b <= M
  BY DEF Text
<1>1. \A y \in 1 .. L + 1 : at[y] \in Nat
  BY CoverAscends
<1>2. at[1] = 1 /\ at[L + 1] = M + 1
  BY DEF Covering
<1>. HIDE DEF L, M
<1>3. L + 1 \in T
  <2>1. L + 1 \in 1 .. L + 1 /\ b < M + 1
    BY <1>0
  <2>. QED  BY <1>2, <2>1
<1>4. PICK z \in T : \A x \in T : z <= x
  <2>1. \A x \in T : x \in Nat
    BY <1>0
  <2>. HIDE DEF T
  <2>. QED  BY <1>3, <2>1, Least
<1>5. z \in 1 .. L + 1 /\ b < at[z]
  OBVIOUS
<1>6. z # 1
  <2>1. ~(b < 1)
    BY <1>0
  <2>. QED  BY <1>2, <1>5, <2>1
<1>7. z - 1 \in 1 .. L /\ z - 1 \in 1 .. L + 1 /\ (z - 1) + 1 = z /\ ~(z <= z - 1)
  BY <1>0, <1>5, <1>6
<1>8. z - 1 \notin T
  <2>. HIDE DEF T
  <2>. QED  BY <1>4, <1>7
<1>. DEFINE y == z - 1
<1>9. y \in 1 .. L /\ at[y] \in Nat /\ ~(b < at[y]) /\ y + 1 = z
  BY <1>1, <1>7, <1>8
<1>. HIDE DEF y, T
<1>10. at[y] <= b /\ b < at[y + 1]
  BY <1>0, <1>5, <1>9
<1>. QED  BY <1>9, <1>10 DEF L

(* The elements of m from the q-th to before the r-th cover the bytes of w *)
(* from the i-th to before the j-th.                                       *)
Between(m, w, q, r, i, j, at) ==
    /\ at \in [q .. r -> i .. j] /\ at[q] = i /\ at[r] = j
    /\ \A y \in q .. r - 1 : Fits(m, w, y, at)

(* They fit there as the elements alone fit the bytes alone: the y-th of m *)
(* is the k-th of x, and the bytes of u are those of w from the d-th on.   *)
Moved(m, w, y, at, x, u, k, bt, d) ==
    /\ d \in Nat /\ m[y] = x[k]
    /\ Len(u) \in Nat /\ Len(w) \in Nat /\ d + Len(u) <= Len(w)
    /\ \A z \in 1 .. Len(u) : u[z] = w[d + z]
    /\ bt[k] \in 1 .. Len(u) + 1 /\ bt[k + 1] \in 1 .. Len(u) + 1
    /\ at[y] = d + bt[k] /\ at[y + 1] = d + bt[k + 1]

LEMMA FitsAlone ==
    ASSUME NEW m, NEW w, NEW y, NEW at, NEW x, NEW u, NEW k, NEW bt, NEW d,
           Moved(m, w, y, at, x, u, k, bt, d)
    PROVE  Fits(m, w, y, at) <=> Fits(x, u, k, bt)
<1>. DEFINE b == bt[k]
            c == bt[k + 1]
            U == Len(u)
<1>0. b \in Nat /\ c \in Nat /\ 1 <= b /\ b <= U + 1 /\ c <= U + 1 /\ U \in Nat
      /\ d \in Nat /\ Len(w) \in Nat
  BY DEF Moved
<1>1. at[y] = d + b /\ at[y + 1] = d + c /\ d + U <= Len(w) /\ m[y] = x[k]
  BY DEF Moved
<1>. HIDE DEF b, c, U
<1>2. CASE IsStar(x[k])
  <2>1. d + b <= d + c <=> b <= c
    BY <1>0
  <2>. QED  BY <1>1, <1>2, <2>1 DEF Fits, b, c
<1>3. CASE ~IsStar(x[k])
  <2>1. d + c = (d + b) + 1 <=> c = b + 1
    BY <1>0
  <2>2. c = b + 1 => b <= U /\ d + b <= Len(w) /\ b \in 1 .. U
    <3>. DEFINE Z == Len(w)
    <3>1. Z \in Nat /\ d + U <= Z
      BY <1>0, <1>1
    <3>. HIDE DEF Z
    <3>2. c = b + 1 => b <= U /\ d + b <= Z /\ b \in 1 .. U
      BY <1>0, <3>1
    <3>. QED  BY <3>2 DEF Z
  <2>3. b \in 1 .. U => u[b] = w[d + b]
    BY DEF Moved, U
  <2>. QED  BY <1>1, <1>3, <2>1, <2>2, <2>3 DEF Fits, b, c, U
<1>. QED  BY <1>2, <1>3

(* A part of a pattern accepts a part of a value exactly if its elements   *)
(* cover the bytes where they stand.                                       *)
LEMMA BetweenAccepts ==
    ASSUME NEW m, NEW w \in Text, NEW x, NEW u \in Text,
           NEW q \in Nat, NEW r \in Nat, 1 <= q, q <= r, Part(m, q, r, x),
           NEW i \in Nat, NEW j \in Nat, 1 <= i, i <= j, j <= Len(w) + 1,
           Len(u) = j - i, \A z \in 1 .. Len(u) : u[z] = w[(i - 1) + z]
    PROVE  Accepts(x, u) <=> \E at : Between(m, w, q, r, i, j, at)
<1>. DEFINE n == r - q
            U == Len(u)
            d == i - 1
            e == q - 1
            Z == Len(w)
<1>0. /\ n \in Nat /\ U \in Nat /\ d \in Nat /\ e \in Nat /\ Z \in Nat
      /\ U = j - i /\ d + U <= Z /\ q = e + 1 /\ r = (e + n) + 1 /\ i = d + 1 /\ j = (d + U) + 1
  <2>1. U \in Nat /\ Z \in Nat
    BY DEF Text
  <2>2. U = j - i /\ j <= Z + 1
    OBVIOUS
  <2>. HIDE DEF U, Z
  <2>. QED  BY <2>1, <2>2
<1>1. Len(x) = n /\ \A k \in 1 .. n : m[e + k] = x[k]
  BY DEF Part
<1>2. \A z \in 1 .. U : u[z] = w[d + z]
  OBVIOUS
<1>3. Accepts(x, u) <=> \E bt : Covering(x, u, bt)
  <2>1. Len(x) \in Nat
    BY <1>0, <1>1
  <2>. QED  BY <2>1, AcceptsIff
<1>. DEFINE Along(at, bt) == \A k \in 1 .. n + 1 : bt[k] \in 1 .. U + 1 /\ at[e + k] = d + bt[k]
<1>. HIDE DEF n, U, d, e, Z
<1>4. ASSUME NEW at, NEW bt, Along(at, bt), NEW k \in 1 .. n
      PROVE  Fits(m, w, e + k, at) <=> Fits(x, u, k, bt)
  <2>. DEFINE y == e + k
  <2>1. k \in 1 .. n + 1 /\ k + 1 \in 1 .. n + 1 /\ y + 1 = e + (k + 1)
    BY <1>0
  <2>2. m[y] = x[k]
    BY <1>1
  <2>3. bt[k] \in 1 .. U + 1 /\ at[y] = d + bt[k]
    BY <1>4, <2>1
  <2>4. bt[k + 1] \in 1 .. U + 1 /\ at[y + 1] = d + bt[k + 1]
    BY <1>4, <2>1
  <2>. HIDE DEF y
  <2>5. /\ Len(u) \in Nat /\ Len(w) \in Nat /\ d + Len(u) <= Len(w)
        /\ \A z \in 1 .. Len(u) : u[z] = w[d + z]
        /\ bt[k] \in 1 .. Len(u) + 1 /\ bt[k + 1] \in 1 .. Len(u) + 1
    BY <1>0, <1>2, <2>3, <2>4 DEF U, Z
  <2>6. Moved(m, w, y, at, x, u, k, bt, d)
    BY <1>0, <2>2, <2>3, <2>4, <2>5 DEF Moved
  <2>7. Fits(m, w, y, at) <=> Fits(x, u, k, bt)
    BY <2>6, FitsAlone
  <2>. QED  BY <2>7 DEF y
<1>5. ASSUME NEW bt, Covering(x, u, bt)
      PROVE  \E at : Between(m, w, q, r, i, j, at)
  <2>1. /\ bt \in [1 .. n + 1 -> 1 .. U + 1] /\ bt[1] = 1 /\ bt[n + 1] = U + 1
        /\ \A k \in 1 .. n : Fits(x, u, k, bt)
    BY <1>1, <1>5 DEF Covering, U
  <2>. DEFINE at == [y \in q .. r |-> d + bt[y - e]]
  <2>2. \A k \in 1 .. n + 1 : e + k \in q .. r /\ (e + k) - e = k
    BY <1>0
  <2>3. \A k \in 1 .. n + 1 : at[e + k] = d + bt[k]
    BY <2>2
  <2>4. Along(at, bt)
    BY <2>1, <2>3
  <2>5. \A y \in q .. r : y - e \in 1 .. n + 1 /\ e + (y - e) = y
    BY <1>0
  <2>6. \A y \in q .. r : at[y] \in i .. j
    <3>1. ASSUME NEW y \in q .. r
          PROVE  at[y] \in i .. j
      <4>1. bt[y - e] \in 1 .. U + 1
        BY <2>1, <2>5
      <4>2. at[y] = d + bt[y - e]
        OBVIOUS
      <4>. QED  BY <1>0, <4>1, <4>2
    <3>. QED  BY <3>1
  <2>7. at \in [q .. r -> i .. j]
    BY <2>6
  <2>8. at[q] = i /\ at[r] = j
    <3>1. q - e = 1 /\ r - e = n + 1 /\ q \in q .. r /\ r \in q .. r
      BY <1>0
    <3>2. at[q] = d + 1 /\ at[r] = d + (U + 1)
      <4>1. at[q] = d + bt[q - e] /\ at[r] = d + bt[r - e]
        BY <3>1
      <4>. HIDE DEF at
      <4>. QED  BY <2>1, <3>1, <4>1
    <3>. QED  BY <1>0, <3>2
  <2>. HIDE DEF at
  <2>9. ASSUME NEW y \in q .. r - 1
        PROVE  Fits(m, w, y, at)
    <3>1. y - e \in 1 .. n /\ e + (y - e) = y
      BY <1>0
    <3>2. Fits(m, w, e + (y - e), at)
      BY <1>4, <2>1, <2>4, <3>1
    <3>. QED  BY <3>1, <3>2
  <2>. QED  BY <2>7, <2>8, <2>9 DEF Between
<1>6. ASSUME NEW at, Between(m, w, q, r, i, j, at)
      PROVE  \E bt : Covering(x, u, bt)
  <2>1. /\ at \in [q .. r -> i .. j] /\ at[q] = i /\ at[r] = j
        /\ \A y \in q .. r - 1 : Fits(m, w, y, at)
    BY <1>6 DEF Between
  <2>. DEFINE bt == [k \in 1 .. n + 1 |-> at[e + k] - d]
  <2>2. \A k \in 1 .. n + 1 : e + k \in q .. r
    BY <1>0
  <2>3. ASSUME NEW k \in 1 .. n + 1
        PROVE  bt[k] \in 1 .. U + 1 /\ at[e + k] = d + bt[k]
    <3>1. at[e + k] \in i .. j
      BY <2>1, <2>2
    <3>2. bt[k] = at[e + k] - d
      OBVIOUS
    <3>. HIDE DEF bt
    <3>. DEFINE a == at[e + k]
                b == bt[k]
    <3>3. a \in i .. j /\ b = a - d /\ i = d + 1 /\ j = (d + U) + 1 /\ d \in Nat /\ U \in Nat
      BY <1>0, <3>1, <3>2
    <3>. HIDE DEF a, b
    <3>4. b \in 1 .. U + 1 /\ a = d + b
      BY <3>3
    <3>. QED  BY <3>4 DEF a, b
  <2>4. Along(at, bt) /\ bt \in [1 .. n + 1 -> 1 .. U + 1]
    BY <2>3
  <2>5. bt[1] = 1 /\ bt[n + 1] = U + 1
    <3>1. e + 1 = q /\ e + (n + 1) = r /\ 1 \in 1 .. n + 1 /\ n + 1 \in 1 .. n + 1
      BY <1>0
    <3>2. bt[1] = i - d /\ bt[n + 1] = j - d
      BY <2>1, <3>1
    <3>. QED  BY <1>0, <3>2
  <2>. HIDE DEF bt
  <2>6. ASSUME NEW k \in 1 .. n
        PROVE  Fits(x, u, k, bt)
    <3>1. e + k \in q .. r - 1
      BY <1>0
    <3>. QED  BY <1>4, <2>1, <2>4, <3>1
  <2>. QED  BY <1>1, <2>4, <2>5, <2>6 DEF Covering, U
<1>. QED  BY <1>3, <1>5, <1>6

(* A cover that leaves no byte in `fixed' to a wildcard or to a            *)
(* substituted value.                                                      *)
Spares(m, at, fixed, y) ==
    ~m[y].own \/ m[y].meta => (at[y] .. at[y + 1] - 1) \cap fixed = {}

LEMMA AcceptsFixedIff ==
    ASSUME NEW t, Len(t) \in Nat, NEW s \in Text, NEW fixed
    PROVE  AcceptsFixed(t, s, fixed) <=>
              \E at : Covering(t, s, at) /\ \A y \in 1 .. Len(t) : Spares(t, at, fixed, y)
<1>1. ASSUME AcceptsFixed(t, s, fixed)
      PROVE  \E at : Covering(t, s, at) /\ \A y \in 1 .. Len(t) : Spares(t, at, fixed, y)
  <2>1. PICK inner \in [2 .. Len(t) -> 1 .. Len(s) + 1] :
           /\ Covers(t, s, 1, 1, Around(t, s, inner))
           /\ \A y \in 1 .. Len(t) : Spares(t, Around(t, s, inner), fixed, y)
    BY <1>1 DEF AcceptsFixed, Spares
  <2>2. Covering(t, s, Around(t, s, inner))
    BY <2>1, AroundCovers
  <2>. QED  BY <2>1, <2>2
<1>2. ASSUME NEW at, Covering(t, s, at), \A y \in 1 .. Len(t) : Spares(t, at, fixed, y)
      PROVE  AcceptsFixed(t, s, fixed)
  <2>1. PICK inner \in [2 .. Len(t) -> 1 .. Len(s) + 1] :
           Around(t, s, inner) = at /\ Covers(t, s, 1, 1, at)
    BY <1>2, AroundCovers
  <2>. QED  BY <1>2, <2>1 DEF AcceptsFixed, Spares
<1>. QED  BY <1>1, <1>2

(* The colons that split a pattern's meaning and those that split a value. *)
Seams(m, w, e, c) ==
    /\ m \in Seq(Marked) /\ w \in Text
    /\ \A k \in 0 .. ArnComponents : e[k] \in 0 .. Len(m) + 1 /\ c[k] \in 0 .. Len(w) + 1
    /\ e[0] = 0 /\ e[ArnComponents] = Len(m) + 1
    /\ c[0] = 0 /\ c[ArnComponents] = Len(w) + 1
    /\ \A k \in 1 .. ArnComponents : e[k - 1] < e[k] /\ c[k - 1] < c[k]
    /\ \A k \in 1 .. ArnComponents - 1 : m[e[k]] = Own(":") /\ w[c[k]] = ":"
    /\ \A k \in 1 .. ArnComponents - 1 : \A y \in OwnColons(m) : e[k - 1] < y => e[k] <= y
    /\ \A k \in 1 .. ArnComponents - 1 : \A i \in EveryColon(w) : c[k - 1] < i => c[k] <= i

Seam(c) == { c[k] : k \in 1 .. ArnComponents - 1 }

(* The k-th component of the pattern covers that of the value.             *)
Alone(m, w, e, c, k, at) == Between(m, w, e[k - 1] + 1, e[k], c[k - 1] + 1, c[k], at)

LEMMA ColonElement ==
    /\ ":" \in Byte /\ Own(":").own /\ ~Own(":").meta /\ ~IsStar(Own(":"))
    /\ \A b : Takes(Own(":"), b) <=> b = ":"
<1>1. ":" \in Byte /\ ":" \notin Metacharacters
  BY DEF Byte, Special, Metacharacters
<1>2. Own(":").own /\ Own(":").char = ":" /\ ~Own(":").meta
  BY <1>1, OwnFacts
<1>. QED  BY <1>1, <1>2 DEF IsStar, Takes

LEMMA SeamNumbers ==
    ASSUME NEW m, NEW w, NEW e, NEW c, Seams(m, w, e, c)
    PROVE  /\ Len(m) \in Nat /\ Len(w) \in Nat /\ ArnComponents \in Nat \ {0, 1}
           /\ \A k \in 0 .. ArnComponents : e[k] \in Nat /\ c[k] \in Nat
           /\ \A k, h \in 0 .. ArnComponents : k <= h => e[k] <= e[h] /\ c[k] <= c[h]
           /\ \A k \in 1 .. ArnComponents - 1 : e[k] \in 1 .. Len(m) /\ c[k] \in 1 .. Len(w)
<1>. DEFINE A == ArnComponents
            L == Len(m)
            M == Len(w)
<1>0. L \in Nat /\ M \in Nat /\ A \in Nat \ {0, 1} /\ 0 \in Int /\ A \in Int
  BY ComponentsAssumption DEF Seams, Text
<1>1. /\ \A k \in 0 .. A : e[k] \in 0 .. L + 1 /\ c[k] \in 0 .. M + 1
      /\ \A k \in 1 .. A : e[k - 1] < e[k] /\ c[k - 1] < c[k]
      /\ e[A] = L + 1 /\ c[A] = M + 1 /\ e[0] = 0 /\ c[0] = 0
  BY DEF Seams
<1>. HIDE DEF A, L, M
<1>2. \A k \in 0 .. A : e[k] \in Nat /\ c[k] \in Nat /\ e[k] \in Int /\ c[k] \in Int
  BY <1>0, <1>1
<1>3. ASSUME NEW k \in 0 .. A - 1
      PROVE  e[k] <= e[k + 1] /\ c[k] <= c[k + 1]
  <2>1. k + 1 \in 1 .. A /\ (k + 1) - 1 = k /\ k \in 0 .. A /\ k + 1 \in 0 .. A
    BY <1>0
  <2>2. e[(k + 1) - 1] < e[k + 1] /\ c[(k + 1) - 1] < c[k + 1]
    BY <1>1, <2>1
  <2>3. e[k] < e[k + 1] /\ c[k] < c[k + 1]
    BY <2>1, <2>2
  <2>. QED  BY <1>2, <2>1, <2>3
<1>4. \A k, h \in 0 .. A : k <= h => e[k] <= e[h]
  BY <1>0, <1>2, <1>3, Monotone
<1>5. \A k, h \in 0 .. A : k <= h => c[k] <= c[h]
  BY <1>0, <1>2, <1>3, Monotone
<1>6. ASSUME NEW k \in 1 .. A - 1
      PROVE  e[k] \in 1 .. L /\ c[k] \in 1 .. M
  <2>1. /\ k \in 1 .. A /\ k + 1 \in 1 .. A /\ (k + 1) - 1 = k /\ k \in 0 .. A
        /\ k - 1 \in 0 .. A /\ k + 1 \in 0 .. A
    BY <1>0
  <2>2. e[(k + 1) - 1] < e[k + 1] /\ c[(k + 1) - 1] < c[k + 1] /\ e[k - 1] < e[k] /\ c[k - 1] < c[k]
    BY <1>1, <2>1
  <2>3. e[k] < e[k + 1] /\ c[k] < c[k + 1]
    BY <2>1, <2>2
  <2>4. e[k + 1] \in 0 .. L + 1 /\ c[k + 1] \in 0 .. M + 1
    BY <1>1, <2>1
  <2>5. e[k] \in Nat /\ c[k] \in Nat /\ e[k - 1] \in Nat /\ c[k - 1] \in Nat
    BY <1>2, <2>1
  <2>6. e[k - 1] < e[k] /\ c[k - 1] < c[k]
    BY <2>2
  <2>. QED  BY <1>0, <2>3, <2>4, <2>5, <2>6
<1>. QED  BY <1>0, <1>2, <1>4, <1>5, <1>6 DEF A, L, M

(* A cover of the whole that spares the seams places each seam of the      *)
(* pattern on that of the value.                                           *)
LEMMA SeamsMeet ==
    ASSUME NEW m, NEW w, NEW e, NEW c, Seams(m, w, e, c),
           NEW at, Covering(m, w, at), \A y \in 1 .. Len(m) : Spares(m, at, Seam(c), y)
    PROVE  \A k \in 1 .. ArnComponents : at[e[k - 1] + 1] = c[k - 1] + 1 /\ at[e[k]] = c[k]
<1>. DEFINE A == ArnComponents
            L == Len(m)
            M == Len(w)
<1>0. /\ L \in Nat /\ M \in Nat /\ A \in Nat \ {0, 1}
      /\ \A k \in 0 .. A : e[k] \in Nat /\ c[k] \in Nat
      /\ \A k \in 1 .. A - 1 : e[k] \in 1 .. L /\ c[k] \in 1 .. M
  BY SeamNumbers
<1>1. /\ m \in Seq(Marked) /\ w \in Text
      /\ e[0] = 0 /\ e[A] = L + 1 /\ c[0] = 0 /\ c[A] = M + 1
      /\ \A k \in 1 .. A : e[k - 1] < e[k] /\ c[k - 1] < c[k]
      /\ \A k \in 1 .. A - 1 : m[e[k]] = Own(":") /\ w[c[k]] = ":"
      /\ \A k \in 1 .. A - 1 : \A y \in OwnColons(m) : e[k - 1] < y => e[k] <= y
      /\ \A k \in 1 .. A - 1 : \A i \in EveryColon(w) : c[k - 1] < i => c[k] <= i
  BY DEF Seams
<1>2. /\ at[1] = 1 /\ at[L + 1] = M + 1 /\ \A y \in 1 .. L : Fits(m, w, y, at)
  BY DEF Covering
<1>3. /\ \A y, z \in 1 .. L + 1 : y <= z => at[y] <= at[z]
      /\ \A y \in 1 .. L + 1 : at[y] \in Nat /\ 1 <= at[y] /\ at[y] <= M + 1
  BY <1>0, <1>1, CoverAscends
<1>. DEFINE Meets(k) == at[e[k]] = c[k]
            Starts(k) == at[e[k - 1] + 1] = c[k - 1] + 1
<1>4. ASSUME NEW k \in 1 .. A, k # 1 => Meets(k - 1)
      PROVE  Starts(k)
  <2>1. CASE k = 1
    BY <1>1, <1>2, <2>1
  <2>2. CASE k # 1
    <3>. DEFINE y == e[k - 1]
    <3>1. k - 1 \in 1 .. A - 1
      BY <1>0, <2>2
    <3>2. y \in 1 .. L /\ m[y] = Own(":") /\ at[y] = c[k - 1]
      BY <1>0, <1>1, <1>4, <2>2, <3>1
    <3>. HIDE DEF y
    <3>3. at[y + 1] = at[y] + 1
      <4>1. Fits(m, w, y, at) /\ ~IsStar(m[y])
        BY <1>2, <3>2, ColonElement
      <4>. QED  BY <4>1 DEF Fits
    <3>. QED  BY <3>2, <3>3 DEF y
  <2>. QED  BY <2>1, <2>2
<1>5. ASSUME NEW k \in 1 .. A - 1, k # 1 => Meets(k - 1)
      PROVE  Meets(k)
  <2>. DEFINE q == e[k]
              b == c[k]
              d == c[k - 1]
              f == e[k - 1]
  <2>0. k \in 1 .. A /\ k \in 0 .. A /\ k - 1 \in 0 .. A
    BY <1>0
  <2>1. /\ q \in 1 .. L /\ b \in 1 .. M /\ d \in Nat /\ f \in Nat /\ f < q /\ d < b
        /\ m[q] = Own(":") /\ w[b] = ":"
        /\ \A y \in OwnColons(m) : f < y => q <= y
        /\ \A i \in EveryColon(w) : d < i => b <= i
    BY <1>0, <1>1, <2>0
  <2>2. at[f + 1] = d + 1
    BY <1>4, <1>5, <2>0
  <2>3. f # 0 => f \in 1 .. L /\ at[f] = d
    <3>1. CASE k = 1
      BY <1>1, <3>1
    <3>2. CASE k # 1
      <4>1. k - 1 \in 1 .. A - 1
        BY <1>0, <3>2
      <4>. QED  BY <1>0, <1>5, <3>2, <4>1
    <3>. QED  BY <3>1, <3>2
  <2>4. b \in Seam(c)
    BY DEF Seam
  <2>. HIDE DEF q, b, d, f, L, M, Seam
  <2>5. b <= at[q]
    <3>1. f + 1 \in 1 .. L + 1 /\ q \in 1 .. L + 1 /\ f + 1 <= q
      BY <1>0, <2>1
    <3>2. at[f + 1] <= at[q] /\ at[q] \in Nat /\ 1 <= at[q]
      BY <1>3, <3>1
    <3>3. d < at[q]
      BY <2>1, <2>2, <3>2
    <3>4. at[q] <= M /\ w[at[q]] = ":"
      <4>1. Fits(m, w, q, at) /\ ~IsStar(m[q]) /\ \A x : Takes(m[q], x) <=> x = ":"
        BY <1>2, <2>1, ColonElement
      <4>. QED  BY <4>1 DEF Fits, M
    <3>5. at[q] \in EveryColon(w)
      <4>1. at[q] \in 1 .. M
        BY <1>0, <3>2, <3>4
      <4>. QED  BY <3>4, <4>1 DEF EveryColon, M
    <3>. QED  BY <2>1, <3>3, <3>5
  <2>6. PICK y \in 1 .. L : at[y] <= b /\ b < at[y + 1]
    <3>1. b \in 1 .. Len(w) /\ Len(m) \in Nat
      BY <1>0, <2>1 DEF M, L
    <3>. QED  BY <1>1, <3>1, CoverFinds DEF L
  <2>7. y \in 1 .. L + 1 /\ y + 1 \in 1 .. L + 1 /\ at[y] \in Nat /\ at[y + 1] \in Nat /\ b \in Nat
    <3>1. y \in 1 .. L + 1 /\ y + 1 \in 1 .. L + 1 /\ b \in Nat
      BY <1>0, <2>1
    <3>. QED  BY <1>3, <3>1
  <2>8. m[y].own /\ ~m[y].meta
    <3>1. b \in at[y] .. at[y + 1] - 1
      BY <2>6, <2>7
    <3>2. Spares(m, at, Seam(c), y)
      BY DEF L
    <3>. QED  BY <2>4, <3>1, <3>2 DEF Spares
  <2>9. at[y] = b /\ m[y].char = ":"
    <3>1. Fits(m, w, y, at) /\ ~IsStar(m[y])
      BY <1>2, <2>8 DEF IsStar
    <3>2. at[y + 1] = at[y] + 1 /\ Takes(m[y], w[at[y]])
      BY <3>1 DEF Fits
    <3>3. at[y] = b
      BY <2>6, <2>7, <3>2
    <3>. QED  BY <2>1, <2>8, <3>2, <3>3 DEF Takes
  <2>10. y \in OwnColons(m)
    BY <2>8, <2>9 DEF OwnColons, L
  <2>11. f < y
    <3>1. ASSUME ~(f < y)
          PROVE  FALSE
      <4>1. f # 0 /\ y <= f
        BY <2>1, <2>6, <3>1
      <4>2. f \in 1 .. L + 1
        BY <1>0, <2>3, <4>1
      <4>3. at[y] <= at[f] /\ at[f] = d
        BY <1>3, <2>3, <2>7, <4>1, <4>2
      <4>. QED  BY <2>1, <2>7, <2>9, <4>3
    <3>. QED  BY <3>1
  <2>12. q <= y
    BY <2>1, <2>10, <2>11
  <2>13. at[q] <= b /\ at[q] \in Nat
    <3>1. q \in 1 .. L + 1
      BY <1>0, <2>1
    <3>. QED  BY <1>3, <2>7, <2>9, <2>12, <3>1
  <2>14. at[q] = b
    BY <2>5, <2>7, <2>13
  <2>. QED  BY <2>14 DEF q, b
<1>. HIDE DEF A, Meets, Starts
<1>6. \A k \in 1 .. A - 1 : Meets(k)
  <2>. DEFINE T == { k \in 1 .. A - 1 : ~Meets(k) }
  <2>1. SUFFICES ASSUME T # {}
                 PROVE  FALSE
    OBVIOUS
  <2>2. \A k \in T : k \in Nat
    BY <1>0
  <2>3. PICK k \in T : \A h \in T : k <= h
    <3>. HIDE DEF T
    <3>. QED  BY <2>1, <2>2, Least
  <2>4. k \in 1 .. A - 1 /\ ~Meets(k)
    OBVIOUS
  <2>5. k # 1 => Meets(k - 1)
    <3>1. k # 1 => k - 1 \in 1 .. A - 1 /\ ~(k <= k - 1)
      BY <1>0, <2>4
    <3>2. k # 1 => k - 1 \notin T
      <4>. HIDE DEF T
      <4>. QED  BY <2>3, <3>1
    <3>. QED  BY <3>1, <3>2
  <2>. QED  BY <1>5, <2>4, <2>5
<1>7. Meets(A)
  BY <1>1, <1>2 DEF Meets
<1>8. ASSUME NEW k \in 1 .. A
      PROVE  Starts(k) /\ Meets(k)
  <2>1. (k = A \/ k \in 1 .. A - 1) /\ (k # 1 => k - 1 \in 1 .. A - 1)
    BY <1>0
  <2>. QED  BY <1>4, <1>6, <1>7, <2>1
<1>. QED  BY <1>8 DEF Starts, Meets, A

(* So each component is covered on its own.                                *)
LEMMA Apart ==
    ASSUME NEW m, NEW w, NEW e, NEW c, Seams(m, w, e, c), AcceptsFixed(m, w, Seam(c)),
           NEW k \in 1 .. ArnComponents
    PROVE  \E bt : Alone(m, w, e, c, k, bt)
<1>. DEFINE A == ArnComponents
            L == Len(m)
            q == e[k - 1] + 1
            r == e[k]
            i == c[k - 1] + 1
            j == c[k]
<1>0. m \in Seq(Marked) /\ w \in Text /\ L \in Nat /\ A \in Nat \ {0, 1}
  BY SeamNumbers DEF Seams
<1>1. PICK at : Covering(m, w, at) /\ \A y \in 1 .. L : Spares(m, at, Seam(c), y)
  BY <1>0, AcceptsFixedIff
<1>2. at[q] = i /\ at[r] = j
  BY <1>1, SeamsMeet
<1>3. /\ \A y, z \in 1 .. L + 1 : y <= z => at[y] <= at[z]
      /\ \A y \in 1 .. L + 1 : at[y] \in Nat
      /\ \A y \in 1 .. L : Fits(m, w, y, at)
  BY <1>0, <1>1, CoverAscends DEF Covering
<1>4. q \in Nat /\ r \in Nat /\ i \in Nat /\ j \in Nat /\ 1 <= q /\ q <= r /\ r <= L + 1
  <2>1. k \in 0 .. A /\ k - 1 \in 0 .. A
    BY <1>0
  <2>2. e[k - 1] \in Nat /\ r \in Nat /\ c[k - 1] \in Nat /\ j \in Nat
    BY <2>1, SeamNumbers
  <2>3. e[k - 1] < r /\ r \in 0 .. L + 1
    BY <2>1 DEF Seams
  <2>. QED  BY <1>0, <2>2, <2>3
<1>. DEFINE bt == [y \in q .. r |-> at[y]]
<1>. HIDE DEF q, r, i, j, L
<1>5. ASSUME NEW y \in q .. r
      PROVE  bt[y] = at[y] /\ at[y] \in i .. j
  <2>1. y \in 1 .. L + 1 /\ q \in 1 .. L + 1 /\ r \in 1 .. L + 1 /\ q <= y /\ y <= r
    BY <1>0, <1>4
  <2>2. at[q] <= at[y] /\ at[y] <= at[r] /\ at[y] \in Nat
    BY <1>3, <2>1
  <2>. QED  BY <1>2, <1>4, <2>2
<1>6. bt \in [q .. r -> i .. j] /\ bt[q] = i /\ bt[r] = j
  <2>1. q \in q .. r /\ r \in q .. r
    BY <1>4
  <2>. QED  BY <1>2, <1>5, <2>1
<1>. HIDE DEF bt
<1>7. ASSUME NEW y \in q .. r - 1
      PROVE  Fits(m, w, y, bt)
  <2>1. y \in q .. r /\ y + 1 \in q .. r /\ y \in 1 .. L
    BY <1>0, <1>4
  <2>2. bt[y] = at[y] /\ bt[y + 1] = at[y + 1] /\ Fits(m, w, y, at)
    BY <1>3, <1>5, <2>1
  <2>. QED  BY <2>2 DEF Fits
<1>8. Between(m, w, q, r, i, j, bt)
  BY <1>6, <1>7 DEF Between
<1>. QED  BY <1>8 DEF Alone, q, r, i, j

(* Covers of the components are one of the whole.                          *)
LEMMA Together ==
    ASSUME NEW m, NEW w, NEW e, NEW c, Seams(m, w, e, c),
           \A k \in 1 .. ArnComponents : \E bt : Alone(m, w, e, c, k, bt)
    PROVE  AcceptsFixed(m, w, Seam(c))
<1>. DEFINE A == ArnComponents
            L == Len(m)
            M == Len(w)
            B == [k \in 1 .. A |-> CHOOSE bt : Alone(m, w, e, c, k, bt)]
            In(y, k) == e[k - 1] < y /\ y <= e[k]
            K == [y \in 1 .. L + 1 |-> CHOOSE k \in 1 .. A : In(y, k)]
            at == [y \in 1 .. L + 1 |-> B[K[y]][y]]
<1>0. /\ L \in Nat /\ M \in Nat /\ A \in Nat \ {0, 1}
      /\ \A k \in 0 .. A : e[k] \in Nat /\ c[k] \in Nat
      /\ \A k, h \in 0 .. A : k <= h => e[k] <= e[h] /\ c[k] <= c[h]
      /\ \A k \in 1 .. A - 1 : e[k] \in 1 .. L /\ c[k] \in 1 .. M
  BY SeamNumbers
<1>1. /\ m \in Seq(Marked) /\ w \in Text
      /\ e[0] = 0 /\ e[A] = L + 1 /\ c[0] = 0 /\ c[A] = M + 1
      /\ \A k \in 0 .. A : e[k] \in 0 .. L + 1 /\ c[k] \in 0 .. M + 1
      /\ \A k \in 1 .. A : e[k - 1] < e[k] /\ c[k - 1] < c[k]
      /\ \A k \in 1 .. A - 1 : m[e[k]] = Own(":") /\ w[c[k]] = ":"
  BY DEF Seams
<1>2. \A k \in 1 .. A : Alone(m, w, e, c, k, B[k])
  OBVIOUS
<1>. HIDE DEF B, A, L, M
<1>3. ASSUME NEW k \in 1 .. A
      PROVE  /\ B[k] \in [e[k - 1] + 1 .. e[k] -> c[k - 1] + 1 .. c[k]]
             /\ B[k][e[k - 1] + 1] = c[k - 1] + 1 /\ B[k][e[k]] = c[k]
             /\ \A y \in e[k - 1] + 1 .. e[k] - 1 : Fits(m, w, y, B[k])
  BY <1>2 DEF Alone, Between
<1>4. ASSUME NEW k \in 1 .. A
      PROVE  /\ k - 1 \in 0 .. A /\ k \in 0 .. A
             /\ e[k - 1] \in Nat /\ e[k] \in Nat /\ c[k - 1] \in Nat /\ c[k] \in Nat
             /\ e[k - 1] < e[k] /\ c[k - 1] < c[k] /\ e[k] <= L + 1 /\ c[k] <= M + 1
  <2>1. k - 1 \in 0 .. A /\ k \in 0 .. A
    BY <1>0
  <2>2. e[k] \in 0 .. L + 1 /\ c[k] \in 0 .. M + 1 /\ e[k - 1] < e[k] /\ c[k - 1] < c[k]
    BY <1>1, <2>1
  <2>3. e[k - 1] \in Nat /\ e[k] \in Nat /\ c[k - 1] \in Nat /\ c[k] \in Nat
    BY <1>0, <2>1
  <2>4. e[k] <= L + 1 /\ c[k] <= M + 1
    BY <1>0, <2>2
  <2>. QED  BY <2>1, <2>2, <2>3, <2>4
<1>5. ASSUME NEW y \in 1 .. L + 1
      PROVE  \E k \in 1 .. A : In(y, k)
  <2>. DEFINE T == { k \in 1 .. A : y <= e[k] }
  <2>1. A \in T
    <3>1. A \in 1 .. A /\ y <= L + 1
      BY <1>0
    <3>. QED  BY <1>1, <3>1
  <2>2. \A k \in T : k \in Nat
    BY <1>0
  <2>3. PICK k \in T : \A h \in T : k <= h
    <3>. HIDE DEF T
    <3>. QED  BY <2>1, <2>2, Least
  <2>4. k \in 1 .. A /\ y <= e[k] /\ y \in Nat /\ 1 <= y
    BY <1>0
  <2>5. e[k - 1] < y
    <3>1. CASE k = 1
      BY <1>1, <2>4, <3>1
    <3>2. CASE k # 1
      <4>1. k - 1 \in 1 .. A /\ ~(k <= k - 1)
        BY <1>0, <2>4, <3>2
      <4>2. k - 1 \notin T
        <5>. HIDE DEF T
        <5>. QED  BY <2>3, <4>1
      <4>3. ~(y <= e[k - 1]) /\ e[k - 1] \in Nat
        BY <1>4, <2>4, <4>1, <4>2
      <4>. QED  BY <2>4, <4>3
    <3>. QED  BY <3>1, <3>2
  <2>. QED  BY <2>4, <2>5
<1>6. ASSUME NEW y \in 1 .. L + 1, NEW k \in 1 .. A, NEW h \in 1 .. A, In(y, k), In(y, h)
      PROVE  k = h
  <2>1. ASSUME NEW a \in 1 .. A, NEW b \in 1 .. A, In(y, a), In(y, b), a < b
        PROVE  FALSE
    <3>1. a \in 0 .. A /\ b - 1 \in 0 .. A /\ a <= b - 1
      BY <1>0, <2>1
    <3>2. e[a] <= e[b - 1] /\ e[a] \in Nat /\ e[b - 1] \in Nat
      BY <1>0, <3>1
    <3>3. e[b - 1] < y /\ y <= e[a] /\ y \in Nat
      BY <1>0, <2>1
    <3>. QED  BY <3>2, <3>3
  <2>2. ~(k < h) /\ ~(h < k)
    <3>. HIDE DEF In
    <3>. QED  BY <1>6, <2>1
  <2>. QED  BY <1>0, <2>2
<1>. HIDE DEF In
<1>7. ASSUME NEW y \in 1 .. L + 1
      PROVE  K[y] \in 1 .. A /\ In(y, K[y])
  BY <1>5
<1>. HIDE DEF K
<1>8. ASSUME NEW k \in 1 .. A, NEW y \in e[k - 1] + 1 .. e[k]
      PROVE  y \in 1 .. L + 1 /\ at[y] = B[k][y] /\ at[y] \in c[k - 1] + 1 .. c[k]
  <2>1. y \in 1 .. L + 1 /\ e[k - 1] < y /\ y <= e[k]
    BY <1>0, <1>4
  <2>2. K[y] = k
    BY <1>6, <1>7, <2>1 DEF In
  <2>. QED  BY <1>3, <2>1, <2>2
<1>9. ASSUME NEW y \in 1 .. L + 1
      PROVE  at[y] \in 1 .. M + 1
  <2>. DEFINE k == K[y]
  <2>1. k \in 1 .. A /\ e[k - 1] < y /\ y <= e[k]
    BY <1>7 DEF In
  <2>. HIDE DEF k, at
  <2>2. y \in e[k - 1] + 1 .. e[k]
    BY <1>0, <1>4, <2>1
  <2>3. at[y] \in c[k - 1] + 1 .. c[k]
    BY <1>8, <2>1, <2>2
  <2>. QED  BY <1>0, <1>4, <2>1, <2>3
<1>10. at \in [1 .. L + 1 -> 1 .. M + 1]
  BY <1>9
<1>. HIDE DEF at
<1>11. at[1] = 1 /\ at[L + 1] = M + 1
  <2>1. 1 \in 1 .. A /\ A \in 1 .. A /\ 1 - 1 = 0
    BY <1>0
  <2>2. 1 \in e[1 - 1] + 1 .. e[1] /\ e[1 - 1] + 1 = 1 /\ c[1 - 1] + 1 = 1
    <3>1. e[1 - 1] < e[1] /\ e[1 - 1] = 0 /\ c[1 - 1] = 0 /\ e[1] \in Nat
      BY <1>1, <1>4, <2>1
    <3>. QED  BY <3>1
  <2>3. e[A] \in e[A - 1] + 1 .. e[A]
    <3>1. e[A - 1] < e[A] /\ e[A - 1] \in Nat /\ e[A] \in Nat
      BY <1>4, <2>1
    <3>. QED  BY <3>1
  <2>4. at[1] = B[1][1] /\ at[e[A]] = B[A][e[A]]
    BY <1>8, <2>1, <2>2, <2>3
  <2>5. B[1][e[1 - 1] + 1] = c[1 - 1] + 1 /\ B[A][e[A]] = c[A]
    BY <1>3, <2>1
  <2>. QED  BY <1>1, <2>2, <2>4, <2>5
<1>. DEFINE Spared(y) == Spares(m, at, Seam(c), y)
<1>12. ASSUME NEW k \in 1 .. A, NEW y \in e[k - 1] + 1 .. e[k] - 1
       PROVE  Fits(m, w, y, at) /\ Spared(y)
  <2>1. y \in e[k - 1] + 1 .. e[k] /\ y + 1 \in e[k - 1] + 1 .. e[k]
    BY <1>4
  <2>2. /\ at[y] = B[k][y] /\ at[y + 1] = B[k][y + 1]
        /\ at[y] \in c[k - 1] + 1 .. c[k] /\ at[y + 1] \in c[k - 1] + 1 .. c[k]
    BY <1>8, <2>1
  <2>3. Fits(m, w, y, at)
    BY <1>3, <2>2 DEF Fits
  <2>4. ASSUME NEW x \in at[y] .. at[y + 1] - 1, x \in Seam(c)
        PROVE  FALSE
    <3>1. PICK h \in 1 .. A - 1 : x = c[h]
      BY <2>4 DEF Seam, A
    <3>2. h \in 0 .. A /\ (h <= k - 1 \/ k <= h)
      BY <1>0, <3>1
    <3>3. c[h] <= c[k - 1] \/ c[k] <= c[h]
      BY <1>0, <1>4, <3>2
    <3>4. c[h] \in Nat /\ c[k - 1] \in Nat /\ c[k] \in Nat
      BY <1>0, <1>4, <3>2
    <3>5. c[k - 1] < x /\ x < c[k]
      BY <2>2, <2>4, <3>4
    <3>. QED  BY <3>1, <3>3, <3>4, <3>5
  <2>5. (at[y] .. at[y + 1] - 1) \cap Seam(c) = {}
    BY <2>4
  <2>. QED  BY <2>3, <2>5 DEF Spares
<1>13. ASSUME NEW k \in 1 .. A - 1
       PROVE  Fits(m, w, e[k], at) /\ Spared(e[k])
  <2>. DEFINE y == e[k]
              h == k + 1
  <2>1. k \in 1 .. A /\ h \in 1 .. A /\ h - 1 = k
    BY <1>0
  <2>2. y \in 1 .. L /\ c[k] \in 1 .. M /\ m[y] = Own(":") /\ w[c[k]] = ":"
    BY <1>0, <1>1
  <2>3. at[y] = c[k]
    <3>1. y \in e[k - 1] + 1 .. e[k]
      BY <1>4, <2>1
    <3>. QED  BY <1>3, <1>8, <2>1, <3>1
  <2>4. at[y + 1] = c[k] + 1
    <3>1. y + 1 \in e[h - 1] + 1 .. e[h] /\ e[h - 1] = y /\ c[h - 1] = c[k]
      <4>1. e[h - 1] < e[h] /\ e[h - 1] \in Nat /\ e[h] \in Nat
        BY <1>4, <2>1
      <4>2. e[h - 1] = y /\ c[h - 1] = c[k]
        BY <2>1
      <4>. HIDE DEF h, y
      <4>. QED  BY <4>1, <4>2
    <3>2. B[h][e[h - 1] + 1] = c[h - 1] + 1
      <4>. HIDE DEF h
      <4>. QED  BY <1>3, <2>1
    <3>3. at[y + 1] = B[h][y + 1]
      <4>. HIDE DEF h, y
      <4>. QED  BY <1>8, <2>1, <3>1
    <3>. HIDE DEF h, y
    <3>. QED  BY <3>1, <3>2, <3>3
  <2>. HIDE DEF y
  <2>5. Fits(m, w, y, at)
    <3>1. c[k] <= M
      BY <1>0, <2>2
    <3>. QED  BY <2>2, <2>3, <2>4, <3>1, ColonElement DEF Fits, M
  <2>6. Spares(m, at, Seam(c), y)
    BY <2>2, ColonElement DEF Spares
  <2>. QED  BY <2>5, <2>6 DEF y
<1>14. ASSUME NEW y \in 1 .. L
       PROVE  Fits(m, w, y, at) /\ Spared(y)
  <2>0. y \in 1 .. L + 1
    BY <1>0
  <2>1. PICK k \in 1 .. A : e[k - 1] < y /\ y <= e[k]
    BY <1>7, <2>0 DEF In
  <2>2. CASE y = e[k]
    <3>1. k # A
      BY <1>0, <1>1, <2>2
    <3>2. k \in 1 .. A - 1
      BY <1>0, <3>1
    <3>. QED  BY <1>13, <2>2, <3>2
  <2>3. CASE y # e[k]
    <3>1. y \in e[k - 1] + 1 .. e[k] - 1
      BY <1>4, <2>0, <2>1, <2>3
    <3>. HIDE DEF Spared
    <3>. QED  BY <1>12, <3>1
  <2>. QED  BY <2>2, <2>3
<1>15. Covering(m, w, at) /\ \A y \in 1 .. Len(m) : Spares(m, at, Seam(c), y)
  BY <1>10, <1>11, <1>14 DEF Covering, L, M
<1>. QED  BY <1>0, <1>1, <1>15, AcceptsFixedIff DEF L
----------------------------------------------------------------------------
(* A part of a pattern is read as what it means.                           *)
LEMMA ReadMeans ==
    ASSUME NEW u \in Text, NEW keys, \A name \in DOMAIN keys : keys[name] \in Text,
           Fine(u, keys)
    PROVE  ~Fails(u, keys) /\ Same(Read(u, keys), Meaning(u, keys, FALSE))
<1>1. CASE HasReference(u)
  <2>1. ExpandVariables(u, keys).ok
    BY ExpandMeans DEF Fine
  <2>2. Same(Token(ExpandVariables(u, keys).text, TRUE), Meaning(u, keys, FALSE))
    BY ExpandSame DEF Fine
  <2>. QED  BY <1>1, <2>1, <2>2 DEF Read, Fails
<1>2. CASE ~HasReference(u)
  <2>1. Token(u, FALSE) = Plain(u) /\ Same(Plain(u), Meaning(u, keys, FALSE))
    BY <1>2, PlainMeaning
  <2>. QED  BY <1>2, <2>1 DEF Read, Fails
<1>. QED  BY <1>1, <1>2

LEMMA ReadFine ==
    ASSUME NEW u \in Text, NEW keys, \A name \in DOMAIN keys : keys[name] \in Text,
           ~Fails(u, keys)
    PROVE  Fine(u, keys)
<1>1. CASE HasReference(u)
  BY <1>1, ExpandMeans DEF Fine, Fails
<1>2. CASE ~HasReference(u)
  BY <1>2 DEF Fine, References, HasReference
<1>. QED  BY <1>1, <1>2

(* Two readings of a pattern that differ only in which bytes are its own,  *)
(* and in no colon.                                                        *)
Alike(m, t) ==
    /\ m \in Seq(Marked) /\ t \in Seq(Marked) /\ Len(m) = Len(t)
    /\ \A y \in 1 .. Len(m) :
          /\ m[y].char = t[y].char /\ m[y].meta = t[y].meta
          /\ m[y].own => t[y].own
          /\ ~m[y].own /\ t[y].own => ~m[y].meta /\ m[y].char # ":"

LEMMA AlikeFixed ==
    ASSUME NEW m, NEW t, Alike(m, t), NEW w \in Text, NEW fixed \in SUBSET EveryColon(w)
    PROVE  /\ OwnColons(m) = OwnColons(t)
           /\ AcceptsFixed(m, w, fixed) <=> AcceptsFixed(t, w, fixed)
<1>. DEFINE L == Len(m)
<1>0. L \in Nat /\ Len(t) = L
  BY DEF Alike
<1>1. ASSUME NEW y \in 1 .. L
      PROVE  /\ m[y].char = t[y].char /\ m[y].meta = t[y].meta
             /\ m[y].own => t[y].own
             /\ ~m[y].own /\ t[y].own => ~m[y].meta /\ m[y].char # ":"
  BY DEF Alike
<1>. HIDE DEF L
<1>2. OwnColons(m) = OwnColons(t)
  BY <1>0, <1>1 DEF OwnColons, L
<1>3. ASSUME NEW at, NEW y \in 1 .. L
      PROVE  Fits(m, w, y, at) <=> Fits(t, w, y, at)
  BY <1>1 DEF Fits, IsStar, Takes
<1>4. \A at : Covering(m, w, at) <=> Covering(t, w, at)
  <2>1. \A at : (\A y \in 1 .. L : Fits(m, w, y, at)) <=> (\A y \in 1 .. L : Fits(t, w, y, at))
    BY <1>3
  <2>. QED  BY <1>0, <2>1 DEF Covering, L
<1>5. ASSUME NEW at, Covering(m, w, at), NEW y \in 1 .. L
      PROVE  Spares(m, at, fixed, y) <=> Spares(t, at, fixed, y)
  <2>1. CASE m[y].own \/ ~t[y].own
    BY <1>1, <2>1 DEF Spares
  <2>2. CASE ~m[y].own /\ t[y].own
    <3>1. Spares(t, at, fixed, y)
      BY <1>1, <2>2 DEF Spares
    <3>2. Fits(m, w, y, at) /\ ~IsStar(m[y]) /\ ~m[y].meta /\ m[y].char # ":"
      BY <1>1, <1>5, <2>2 DEF Covering, IsStar, L
    <3>3. at[y + 1] = at[y] + 1 /\ w[at[y]] # ":"
      BY <3>2 DEF Fits, Takes
    <3>4. at[y] \in Nat
      <4>1. y \in 1 .. L + 1
        BY <1>0
      <4>. QED  BY <1>0, <1>5, <4>1, CoverAscends DEF L
    <3>5. \A x \in at[y] .. at[y + 1] - 1 : x = at[y]
      BY <3>3, <3>4
    <3>6. \A x \in fixed : w[x] = ":"
      BY DEF EveryColon
    <3>7. (at[y] .. at[y + 1] - 1) \cap fixed = {}
      BY <3>3, <3>5, <3>6
    <3>. QED  BY <3>1, <3>7 DEF Spares
  <2>. QED  BY <2>1, <2>2
<1>6. /\ AcceptsFixed(m, w, fixed) <=>
            \E at : Covering(m, w, at) /\ \A y \in 1 .. L : Spares(m, at, fixed, y)
      /\ AcceptsFixed(t, w, fixed) <=>
            \E at : Covering(t, w, at) /\ \A y \in 1 .. L : Spares(t, at, fixed, y)
  BY <1>0, AcceptsFixedIff DEF L
<1>. QED  BY <1>2, <1>4, <1>5, <1>6

(* In an older document the pattern that is read refers to the characters  *)
(* of ${*}, ${?} and ${$} alone.                                           *)
LEMMA LiteralNames ==
    ASSUME NEW s \in Text
    PROVE  \A r \in References(LiteralReference(s)) :
              NameAt(LiteralReference(s), r) \in LiteralVariables
<1>. DEFINE none == [name \in {} |-> << >>]
            l == LiteralReference(s)
<1>1. DOMAIN none = {} /\ \A name \in DOMAIN none : none[name] \in Text
  OBVIOUS
<1>2. l \in Text
  BY LiteralReferenceType
<1>. HIDE DEF none
<1>3. ExpandVariables(l, none).ok
  BY <1>1, OldSame
<1>4. \A r \in References(l) : Resolvable(NameAt(l, r), none)
  <2>. HIDE DEF l
  <2>. QED  BY <1>1, <1>2, <1>3, ExpandMeans
<1>. QED  BY <1>1, <1>4 DEF Resolvable

(* What a reference to a literal variable stands for is no colon.          *)
Harmless == { x \in Marked : ~x.own => ~x.meta /\ x.char # ":" }

LEMMA LiteralHarmless ==
    ASSUME NEW name \in LiteralVariables, NEW keys
    PROVE  Substituted(ValueOf(name, keys)) \in Seq(Harmless)
<1>1. ValueOf(name, keys) = name
  BY DEF ValueOf
<1>2. PICK a \in {"*", "?", "$"} : name = << a >>
  BY DEF LiteralVariables
<1>3. a # ":" /\ a \in Byte
  BY <1>2 DEF Byte, Special
<1>4. << a >> \in Text /\ Len(<< a >>) = 1 /\ << a >>[1] = a
  BY <1>3 DEF Text
<1>. DEFINE x == << a >>
            S == Substituted(x)
<1>5. /\ S \in Seq(Marked) /\ Len(S) = 1
      /\ S[1].meta = FALSE /\ S[1].char = a
  <2>1. x \in Text /\ Len(x) = 1 /\ x[1] = a /\ 1 \in 1 .. Len(x)
    BY <1>4
  <2>. HIDE DEF x
  <2>. QED  BY <2>1, SubstitutedFacts
<1>. HIDE DEF S, x
<1>6. S[1] \in Harmless
  <2>1. S[1] \in Marked
    <3>1. 1 \in 1 .. Len(S)
      BY <1>5
    <3>. QED  BY <1>5, <3>1, ElementOfSeq
  <2>. QED  BY <1>3, <1>5, <2>1 DEF Harmless
<1>7. \A k \in 1 .. Len(S) : S[k] \in Harmless
  BY <1>5, <1>6
<1>8. S \in Seq(Harmless)
  <2>. DEFINE H == Harmless
  <2>. HIDE DEF H
  <2>1. \A k \in 1 .. Len(S) : S[k] \in H
    BY <1>7 DEF H
  <2>2. S \in [1 .. Len(S) -> H] /\ Len(S) \in Nat
    <3>1. S \in [1 .. Len(S) -> Marked] /\ Len(S) \in Nat
      BY <1>5, LenProperties
    <3>. QED  BY <2>1, <3>1
  <2>3. S \in Seq(H)
    BY <2>2, SeqDef
  <2>. QED  BY <2>3 DEF H
<1>. QED  BY <1>1, <1>2, <1>8 DEF S, x

LEMMA OldHarmless ==
    ASSUME NEW s \in Text, NEW keys, \A name \in DOMAIN keys : keys[name] \in Text
    PROVE  Meaning(LiteralReference(s), keys, FALSE) \in Seq(Harmless)
<1>. DEFINE l == LiteralReference(s)
            L == Len(l)
            H == Harmless
<1>0. l \in Text
  BY LiteralReferenceType
<1>1. \A r \in References(l) : Closing(l, r) # 0 /\ Resolvable(NameAt(l, r), keys)
  <2>1. ExpandVariables(l, keys).ok
    BY OldSame
  <2>. HIDE DEF l
  <2>. QED  BY <1>0, <2>1, ExpandMeans
<1>2. \A r \in References(l) : NameAt(l, r) \in LiteralVariables
  BY LiteralNames
<1>. HIDE DEF l
<1>3. PICK M : Meaning(l, keys, FALSE) = M[1] /\ Means(l, keys, M)
  BY <1>0, <1>1, MeaningMeans DEF Fine
<1>. DEFINE P == { i \in 1 .. L + 1 : M[i] \in Seq(H) }
<1>4. L \in Nat /\ M[L + 1] = << >>
  BY <1>0, <1>3 DEF Means, Text
<1>5. \A x, y \in Seq(H) : x \o y \in Seq(H)
  <2>. HIDE DEF H
  <2>. QED  BY ConcatProperties
<1>6. L + 1 \in P
  <2>1. << >> \in Seq(H)
    BY EmptySeq
  <2>2. L + 1 \in 1 .. L + 1
    BY <1>4
  <2>. HIDE DEF H
  <2>. QED  BY <1>4, <2>1, <2>2
<1>7. ASSUME NEW i \in 1 .. L, ~InVariable(l, i)
      PROVE  i \in Outside(l) /\ i <= L /\ i \in 1 .. L + 1
  <2>1. i <= L /\ i \in 1 .. L + 1
    BY <1>4
  <2>. QED  BY <1>7, <2>1 DEF Outside
<1>8. ASSUME NEW i \in 1 .. L, ~InVariable(l, i), ~Opens(l, i), i + 1 \in P
      PROVE  i \in P
  <2>1. l[i] \in Byte /\ M[i] = << Own(l[i]) >> \o M[i + 1] /\ M[i + 1] \in Seq(H)
    BY <1>3, <1>7, <1>8 DEF Means
  <2>2. Own(l[i]) \in H
    BY <2>1, OwnFacts DEF Harmless
  <2>3. << Own(l[i]) >> \in Seq(H)
    <3>. HIDE DEF H
    <3>. QED  BY <2>2
  <2>. HIDE DEF H
  <2>. QED  BY <1>5, <1>7, <1>8, <2>1, <2>3
<1>9. ASSUME NEW i \in 1 .. L, ~InVariable(l, i), Opens(l, i), Closing(l, i) + 1 \in P
      PROVE  i \in P
  <2>1. /\ M[i] = Substituted(ValueOf(NameAt(l, i), keys)) \o M[Closing(l, i) + 1]
        /\ M[Closing(l, i) + 1] \in Seq(H)
    BY <1>3, <1>7, <1>9 DEF Means
  <2>2. i \in References(l)
    BY <1>9 DEF References
  <2>3. Substituted(ValueOf(NameAt(l, i), keys)) \in Seq(H)
    BY <1>2, <2>2, LiteralHarmless
  <2>. HIDE DEF H
  <2>. QED  BY <1>5, <1>7, <1>9, <2>1, <2>3
<1>10. 1 \in P
  <2>1. 1 \in Outside(l)
    BY <1>0, <1>1, EndsOutside
  <2>. HIDE DEF P
  <2>2. \A i \in Outside(l) : i \in P
    BY <1>0, <1>1, <1>6, <1>8, <1>9, OutsideInduction
  <2>. QED  BY <2>1, <2>2
<1>. QED  BY <1>3, <1>10 DEF l

(* Of an older document every byte is its own.                             *)
LEMMA OldOwn ==
    ASSUME NEW s \in Text, NEW keys
    PROVE  /\ Meaning(s, keys, TRUE) \in Seq(Marked)
           /\ \A y \in 1 .. Len(Meaning(s, keys, TRUE)) : Meaning(s, keys, TRUE)[y].own
<1>. DEFINE L == Len(s)
            O == { x \in Marked : x.own }
            piece == MeaningPiece(s, keys, TRUE)
            next == MeaningNext(s, TRUE)
<1>0. L \in Nat
  BY DEF Text
<1>1. PICK M : Meaning(s, keys, TRUE) = M[1] /\ Joins(M, L, next, piece)
  BY MeaningJoins
<1>2. next = [i \in 1 .. L |-> i + 1] /\ piece = [i \in 1 .. L |-> << Own(s[i]) >>]
  BY DEF MeaningNext, MeaningPiece
<1>. HIDE DEF next, piece
<1>3. Ahead(next, L)
  BY <1>2, OneByOneAhead DEF OneByOne
<1>4. ASSUME NEW i \in 1 .. L
      PROVE  << Own(s[i]) >> \in Seq(O)
  <2>1. s[i] \in Byte
    BY DEF Text
  <2>2. Own(s[i]) \in O
    BY <2>1, OwnFacts
  <2>. HIDE DEF O
  <2>. QED  BY <2>2
<1>. HIDE DEF O, L
<1>5. piece \in [1 .. L -> Seq(O)]
  BY <1>2, <1>4
<1>6. M[1] \in Seq(O)
  <2>1. \A i \in 1 .. L + 1 : M[i] \in Seq(O)
    BY <1>1, <1>3, <1>5, PiecesType
  <2>2. 1 \in 1 .. L + 1
    BY <1>0
  <2>. QED  BY <2>1, <2>2
<1>. DEFINE m == M[1]
<1>7. m \in Seq(O)
  BY <1>6
<1>. HIDE DEF m
<1>8. \A y \in 1 .. Len(m) : m[y] \in O
  BY <1>7, ElementOfSeq
<1>9. O \subseteq Marked
  BY DEF O
<1>10. m \in Seq(Marked)
  BY <1>7, <1>9, SeqMonotonic
<1>11. \A y \in 1 .. Len(m) : m[y].own
  BY <1>8 DEF O
<1>. QED  BY <1>1, <1>10, <1>11 DEF m

LEMMA AlikeRead ==
    ASSUME NEW c \in Calls, ~Meaningless(c)
    PROVE  /\ Fine(AsRead(c), c.keys)
           /\ Alike(Meaning(AsRead(c), c.keys, FALSE), Meaning(c.pattern, c.keys, c.old))
<1>. DEFINE s == AsRead(c)
            keys == c.keys
            m == Meaning(s, keys, FALSE)
            t == Meaning(c.pattern, keys, c.old)
            R == Read(s, keys)
<1>0. /\ s \in Text /\ c.pattern \in Text /\ c.old \in BOOLEAN
      /\ \A name \in DOMAIN keys : keys[name] \in Text
  BY CallStrings
<1>1. ~Fails(s, keys) /\ Same(R, t)
  BY ReadSame
<1>2. Fine(s, keys)
  <2>. HIDE DEF s, keys
  <2>. QED  BY <1>0, <1>1, ReadFine
<1>3. Same(R, m)
  <2>. HIDE DEF s, keys
  <2>. QED  BY <1>0, <1>2, ReadMeans
<1>4. /\ m \in Seq(Marked) /\ t \in Seq(Marked) /\ Len(m) = Len(t) /\ Len(m) \in Nat
      /\ \A y \in 1 .. Len(m) : m[y].char = t[y].char /\ m[y].meta = t[y].meta
  <2>. HIDE DEF R, m, t
  <2>. QED  BY <1>1, <1>3 DEF Same
<1>5. CASE ~c.old
  <2>1. m = t
    BY <1>0, <1>5 DEF AsRead
  <2>. HIDE DEF m, t
  <2>. QED  BY <1>2, <1>4, <2>1 DEF Alike, m, t
<1>6. CASE c.old
  <2>1. m = Meaning(LiteralReference(c.pattern), keys, FALSE) /\ t = Meaning(c.pattern, keys, TRUE)
    BY <1>0, <1>6 DEF AsRead
  <2>2. m \in Seq(Harmless)
    <3>. HIDE DEF keys, m
    <3>. QED  BY <1>0, <2>1, OldHarmless
  <2>3. \A y \in 1 .. Len(t) : t[y].own
    <3>. HIDE DEF keys, t
    <3>. QED  BY <1>0, <2>1, OldOwn
  <2>. HIDE DEF m, t
  <2>4. \A y \in 1 .. Len(m) : m[y] \in Harmless
    BY <2>2, ElementOfSeq
  <2>5. \A y \in 1 .. Len(m) : ~m[y].own => ~m[y].meta /\ m[y].char # ":"
    BY <2>4 DEF Harmless
  <2>6. Alike(m, t)
    BY <1>4, <2>3, <2>5 DEF Alike
  <2>. QED  BY <1>2, <2>6 DEF m, t
<1>. QED  BY <1>5, <1>6

(* The colons of a pattern's own are those that split it.                  *)
LEMMA ColonsPlaced ==
    ASSUME NEW s \in Text, NEW m, NEW E, Placed(s, m, E), NEW i \in PatternColons(s)
    PROVE  /\ i \in 1 .. Len(s) /\ i \in Outside(s) /\ i + 1 \in Outside(s)
           /\ E[i] \in 1 .. Len(m) /\ E[i + 1] = E[i] + 1 /\ m[E[i]] = Own(":")
           /\ E[i] \in OwnColons(m)
<1>. DEFINE L == Len(s)
            Z == Len(m)
<1>0. L \in Nat /\ Z \in Nat
  BY DEF Placed, Text
<1>1. i \in 1 .. L /\ s[i] = ":" /\ ~InVariable(s, i)
  BY DEF PatternColons, EveryColon
<1>2. i \in Outside(s) /\ i <= L /\ ~Opens(s, i)
  <2>1. i \in 1 .. L + 1 /\ i <= L
    BY <1>0, <1>1
  <2>2. ~Opens(s, i)
    BY <1>1 DEF Opens
  <2>. QED  BY <1>1, <2>1, <2>2 DEF Outside
<1>3. i + 1 \in Outside(s) /\ E[i + 1] = E[i] + 1 /\ m[E[i]] = Own(s[i])
  BY <1>2 DEF Placed
<1>4. E[i] \in 1 .. Z + 1 /\ E[i + 1] \in 1 .. Z + 1
  BY <1>2, <1>3 DEF Placed
<1>5. E[i] \in 1 .. Z
  BY <1>0, <1>3, <1>4
<1>6. m[E[i]].own /\ m[E[i]].char = ":"
  <2>1. ":" \in Byte
    BY DEF Byte, Special
  <2>. QED  BY <1>1, <1>3, <2>1, OwnFacts
<1>. QED  BY <1>1, <1>2, <1>3, <1>5, <1>6 DEF OwnColons

LEMMA ColonsFound ==
    ASSUME NEW s \in Text, NEW m, NEW E, Placed(s, m, E), NEW y \in OwnColons(m)
    PROVE  \E i \in PatternColons(s) : E[i] = y
<1>1. y \in 1 .. Len(m) /\ m[y].own /\ m[y].char = ":"
  BY DEF OwnColons
<1>2. PICK i \in Outside(s) : i <= Len(s) /\ ~Opens(s, i) /\ E[i] = y
  BY <1>1 DEF Placed
<1>3. m[y] = Own(s[i])
  BY <1>2 DEF Placed
<1>4. i \in 1 .. Len(s) /\ ~InVariable(s, i)
  <2>1. i \in 1 .. Len(s) + 1 /\ ~InVariable(s, i) /\ Len(s) \in Nat
    BY DEF Outside, Text
  <2>. QED  BY <1>2, <2>1
<1>5. s[i] = ":"
  <2>1. s[i] \in Byte
    BY <1>4 DEF Text
  <2>. QED  BY <1>1, <1>3, <2>1, OwnFacts
<1>. QED  BY <1>2, <1>4, <1>5 DEF PatternColons, EveryColon

LEMMA SplitsSame ==
    ASSUME NEW s \in Text, NEW m, NEW E, Placed(s, m, E)
    PROVE  Splits(OwnColons(m)) <=> Splits(PatternColons(s))
<1>. DEFINE P == PatternColons(s)
            C == OwnColons(m)
            f == [i \in P |-> E[i]]
<1>1. \A i \in P : E[i] \in C /\ f[i] = E[i]
  BY ColonsPlaced
<1>2. f \in [P -> C]
  BY <1>1
<1>3. ASSUME NEW i \in P, NEW j \in P, i < j
      PROVE  E[i] # E[j]
  <2>1. /\ i \in 1 .. Len(s) /\ j \in 1 .. Len(s) /\ i + 1 \in Outside(s) /\ j \in Outside(s)
        /\ E[i] \in 1 .. Len(m) /\ E[j] \in 1 .. Len(m) /\ E[i + 1] = E[i] + 1
    BY ColonsPlaced
  <2>2. i + 1 <= j
    BY <1>3, <2>1
  <2>3. E[i + 1] <= E[j]
    BY <2>1, <2>2 DEF Placed
  <2>. QED  BY <2>1, <2>3
<1>4. \A i, j \in P : E[i] = E[j] => i = j
  <2>1. \A i \in P : i \in Nat
    BY ColonsPlaced
  <2>. HIDE DEF P
  <2>2. \A i, j \in P : i < j \/ j < i \/ i = j
    BY <2>1
  <2>. QED  BY <1>3, <2>2
<1>5. \A y \in C : \E i \in P : E[i] = y
  BY ColonsFound
<1>6. IsFiniteSet(P)
  <2>1. P \subseteq 1 .. Len(s) /\ Len(s) \in Nat
    BY DEF PatternColons, EveryColon, Text
  <2>2. IsFiniteSet(1 .. Len(s))
    BY <2>1, FS_Interval
  <2>. QED  BY <2>1, <2>2, FS_Subset
<1>7. /\ \A i, j \in P : f[i] = f[j] => i = j
      /\ \A y \in C : \E i \in P : f[i] = y
  <2>. HIDE DEF f, P, C
  <2>. QED  BY <1>1, <1>4, <1>5
<1>. HIDE DEF f, P, C
<1>8. f \in Bijection(P, C)
  BY <1>2, <1>7, Fun_IsBij
<1>9. ExistsBijection(P, C)
  BY <1>8, Fun_ExistsBij
<1>10. Cardinality(C) = Cardinality(P)
  BY <1>6, <1>9, FS_Bijection
<1>. QED  BY <1>10 DEF Splits, P, C

(* Where the components of a pattern end, in what it means, and where      *)
(* those of a value end.                                                   *)
PatternSeam(s, E) ==
    [k \in 0 .. ArnComponents |-> IF k = 0 THEN 0 ELSE E[Edge(PatternColons(s), Len(s), k)]]
ValueSeam(w) ==
    [k \in 0 .. ArnComponents |-> Edge(EveryColon(w), Len(w), k)]

LEMMA PatternEdges ==
    ASSUME NEW s \in Text, \A r \in References(s) : Closing(s, r) # 0,
           NEW m, NEW E, Placed(s, m, E), Splits(PatternColons(s)),
           NEW k \in 1 .. ArnComponents, NEW i, i = Edge(PatternColons(s), Len(s), k - 1) + 1,
           NEW j, j = Edge(PatternColons(s), Len(s), k)
    PROVE  /\ i \in Outside(s) /\ j \in Outside(s) /\ i <= j
           /\ E[i] = PatternSeam(s, E)[k - 1] + 1 /\ E[j] = PatternSeam(s, E)[k]
<1>. DEFINE A == ArnComponents
            L == Len(s)
            P == PatternColons(s)
            g(h) == Edge(P, L, h)
            e == PatternSeam(s, E)
<1>0. A \in Nat \ {0, 1} /\ L \in Nat /\ P \subseteq 1 .. L
  BY ComponentsAssumption DEF Text, PatternColons, EveryColon
<1>1. Ascends(P, L)
  <2>. HIDE DEF P, L
  <2>. QED  BY <1>0, Edges DEF P
<1>2. /\ g(0) = 0 /\ g(A) = L + 1
      /\ \A h \in 0 .. A : g(h) \in 0 .. L + 1
      /\ \A h \in 1 .. A - 1 : g(h) \in P
      /\ \A h \in 1 .. A : g(h - 1) < g(h)
  BY <1>1 DEF Ascends
<1>3. e[0] = 0 /\ \A h \in 1 .. A : e[h] = E[g(h)]
  <2>1. 0 \in 0 .. A /\ \A h \in 1 .. A : h \in 0 .. A /\ h # 0
    BY <1>0
  <2>. QED  BY <2>1 DEF PatternSeam
<1>4. i = g(k - 1) + 1 /\ j = g(k)
  OBVIOUS
<1>. HIDE DEF g, e, P, A, L
<1>5. k \in 0 .. A /\ k - 1 \in 0 .. A /\ (k = A \/ k \in 1 .. A - 1) /\ (k = 1 \/ k - 1 \in 1 .. A - 1)
      /\ k \in 1 .. A
  BY <1>0 DEF A
<1>6. i <= j
  <2>1. g(k - 1) < g(k) /\ g(k - 1) \in 0 .. L + 1 /\ g(k) \in 0 .. L + 1
    BY <1>2, <1>5
  <2>. QED  BY <1>0, <1>4, <2>1
<1>7. 1 \in Outside(s) /\ L + 1 \in Outside(s)
  BY EndsOutside DEF L
<1>8. j \in Outside(s) /\ E[j] = e[k]
  <2>1. j \in Outside(s)
    <3>1. CASE k = A
      BY <1>2, <1>4, <1>7, <3>1
    <3>2. CASE k \in 1 .. A - 1
      <4>1. j \in PatternColons(s)
        BY <1>2, <1>4, <3>2 DEF P
      <4>. QED  BY <4>1, ColonsPlaced
    <3>. QED  BY <1>5, <3>1, <3>2
  <2>. QED  BY <1>3, <1>4, <1>5, <2>1
<1>9. i \in Outside(s) /\ E[i] = e[k - 1] + 1
  <2>1. CASE k = 1
    <3>1. i = 1 /\ e[k - 1] = 0
      <4>1. k - 1 = 0
        BY <2>1
      <4>. QED  BY <1>2, <1>3, <1>4, <4>1
    <3>2. E[1] = 1
      BY DEF Placed
    <3>. QED  BY <1>7, <3>1, <3>2
  <2>2. CASE k # 1
    <3>. DEFINE b == g(k - 1)
    <3>1. b \in P /\ e[k - 1] = E[b] /\ i = b + 1
      <4>1. k - 1 \in 1 .. A - 1 /\ k - 1 \in 1 .. A
        BY <1>0, <1>5, <2>2
      <4>. QED  BY <1>2, <1>3, <1>4, <4>1
    <3>. HIDE DEF b
    <3>2. b \in PatternColons(s)
      BY <3>1 DEF P
    <3>3. b + 1 \in Outside(s) /\ E[b + 1] = E[b] + 1
      BY <3>2, ColonsPlaced
    <3>. QED  BY <3>1, <3>3
  <2>. QED  BY <2>1, <2>2
<1>. QED  BY <1>6, <1>8, <1>9 DEF e

LEMMA SeamsPlaced ==
    ASSUME NEW s \in Text, \A r \in References(s) : Closing(s, r) # 0,
           NEW m, NEW E, Placed(s, m, E), Splits(PatternColons(s)),
           NEW w \in Text, Splits(EveryColon(w))
    PROVE  Seams(m, w, PatternSeam(s, E), ValueSeam(w))
<1>. DEFINE A == ArnComponents
            L == Len(s)
            Z == Len(m)
            W == Len(w)
            P == PatternColons(s)
            V == EveryColon(w)
            g(h) == Edge(P, L, h)
            e == PatternSeam(s, E)
            c == ValueSeam(w)
<1>0. A \in Nat \ {0, 1} /\ L \in Nat /\ W \in Nat /\ Z \in Nat /\ m \in Seq(Marked)
      /\ P \subseteq 1 .. L /\ V \subseteq 1 .. W
  BY ComponentsAssumption DEF Text, PatternColons, EveryColon, Placed
<1>1. Ascends(P, L) /\ Ascends(V, W)
  <2>1. Splits(P) /\ Splits(V)
    OBVIOUS
  <2>. HIDE DEF P, V, L, W
  <2>. QED  BY <1>0, <2>1, Edges
<1>2. /\ c[0] = 0 /\ c[A] = W + 1
      /\ \A k \in 0 .. A : c[k] \in 0 .. W + 1
      /\ \A k \in 1 .. A : c[k - 1] < c[k]
      /\ \A k \in 1 .. A - 1 : w[c[k]] = ":"
      /\ \A k \in 1 .. A - 1 : \A i \in V : c[k - 1] < i => c[k] <= i
  <2>1. \A k \in 0 .. A : c[k] = Edge(V, W, k)
    BY DEF ValueSeam
  <2>. HIDE DEF V, W, c, A
  <2>2. 0 \in 0 .. A /\ A \in 0 .. A
    BY <1>0
  <2>3. \A k \in 1 .. A : k \in 0 .. A /\ k - 1 \in 0 .. A
    BY <1>0
  <2>4. \A k \in 1 .. A - 1 : k \in 0 .. A /\ k - 1 \in 0 .. A
    BY <1>0
  <2>5. /\ Edge(V, W, 0) = 0 /\ Edge(V, W, A) = W + 1
        /\ \A k \in 0 .. A : Edge(V, W, k) \in 0 .. W + 1
        /\ \A k \in 1 .. A - 1 : Edge(V, W, k) \in V
        /\ \A k \in 1 .. A : Edge(V, W, k - 1) < Edge(V, W, k)
        /\ \A k \in 1 .. A - 1 : \A i \in V : Edge(V, W, k - 1) < i => Edge(V, W, k) <= i
    BY <1>1 DEF Ascends, A
  <2>6. c[0] = 0 /\ c[A] = W + 1 /\ \A k \in 0 .. A : c[k] \in 0 .. W + 1
    BY <2>1, <2>2, <2>5
  <2>7. \A k \in 1 .. A : c[k - 1] < c[k]
    BY <2>1, <2>3, <2>5
  <2>8. \A k \in 1 .. A - 1 : c[k] \in V
    BY <2>1, <2>4, <2>5
  <2>9. \A k \in 1 .. A - 1 : w[c[k]] = ":"
    BY <2>8 DEF V, EveryColon
  <2>10. \A k \in 1 .. A - 1 : \A i \in V : c[k - 1] < i => c[k] <= i
    BY <2>1, <2>4, <2>5
  <2>. QED  BY <2>6, <2>7, <2>9, <2>10
<1>3. /\ g(0) = 0 /\ g(A) = L + 1
      /\ \A h \in 0 .. A : g(h) \in 0 .. L + 1
      /\ \A h \in 1 .. A - 1 : g(h) \in P
      /\ \A h \in 1 .. A - 1 : \A i \in P : g(h - 1) < i => g(h) <= i
  BY <1>1 DEF Ascends
<1>4. e[0] = 0 /\ \A h \in 1 .. A : e[h] = E[g(h)]
  <2>1. 0 \in 0 .. A /\ \A h \in 1 .. A : h \in 0 .. A /\ h # 0
    BY <1>0
  <2>. QED  BY <2>1 DEF PatternSeam
<1>5. ASSUME NEW k \in 1 .. A
      PROVE  /\ g(k - 1) + 1 \in Outside(s) /\ g(k) \in Outside(s) /\ g(k - 1) + 1 <= g(k)
             /\ E[g(k - 1) + 1] = e[k - 1] + 1 /\ E[g(k)] = e[k]
  BY PatternEdges
<1>6. \A i \in Outside(s) : E[i] \in 1 .. Z + 1
  BY DEF Placed
<1>7. \A i, j \in Outside(s) : i <= j => E[i] <= E[j]
  BY DEF Placed
<1>8. E[L + 1] = Z + 1
  BY DEF Placed
<1>. HIDE DEF g, e, P, V, L, Z, W, A, c
<1>9. \A k \in 0 .. A : e[k] \in 0 .. Z + 1
  <2>1. ASSUME NEW k \in 1 .. A
        PROVE  e[k] \in 1 .. Z + 1
    BY <1>4, <1>5, <1>6
  <2>2. \A k \in 0 .. A : k = 0 \/ k \in 1 .. A
    BY <1>0
  <2>3. \A x \in 1 .. Z + 1 : x \in 0 .. Z + 1
    BY <1>0
  <2>4. 0 \in 0 .. Z + 1
    BY <1>0
  <2>. QED  BY <1>4, <2>1, <2>2, <2>3, <2>4
<1>10. e[A] = Z + 1
  <2>1. A \in 1 .. A
    BY <1>0
  <2>. QED  BY <1>3, <1>4, <1>8, <2>1
<1>11. ASSUME NEW k \in 1 .. A
       PROVE  e[k - 1] < e[k]
  <2>1. e[k - 1] + 1 <= e[k]
    BY <1>5, <1>7
  <2>2. k - 1 \in 0 .. A /\ k \in 0 .. A
    BY <1>0
  <2>3. e[k - 1] \in Nat /\ e[k] \in Nat
    BY <1>0, <1>9, <2>2
  <2>. QED  BY <2>1, <2>3
<1>12. ASSUME NEW k \in 1 .. A - 1
       PROVE  m[e[k]] = Own(":")
  <2>1. k \in 1 .. A
    BY <1>0
  <2>2. g(k) \in PatternColons(s) /\ e[k] = E[g(k)]
    BY <1>3, <1>4, <2>1 DEF P
  <2>. QED  BY <2>2, ColonsPlaced
<1>13. ASSUME NEW k \in 1 .. A - 1, NEW y \in OwnColons(m), e[k - 1] < y
       PROVE  e[k] <= y
  <2>1. PICK i \in P : E[i] = y
    BY ColonsFound DEF P
  <2>2. i \in Outside(s) /\ i \in 1 .. L /\ y \in 1 .. Z
    BY <2>1, ColonsPlaced DEF P, L, Z
  <2>3. k \in 1 .. A /\ k - 1 \in 0 .. A /\ (k = 1 \/ k - 1 \in 1 .. A - 1) /\ (k = 1 \/ k - 1 \in 1 .. A)
    BY <1>0
  <2>4. g(k - 1) < i
    <3>1. CASE k = 1
      <4>1. k - 1 = 0
        BY <3>1
      <4>. QED  BY <1>3, <2>2, <4>1
    <3>2. CASE k # 1
      <4>. DEFINE b == g(k - 1)
      <4>1. b \in P /\ e[k - 1] = E[b]
        BY <1>3, <1>4, <2>3, <3>2
      <4>. HIDE DEF b
      <4>2. b \in Outside(s) /\ b \in 1 .. L /\ E[b] \in 1 .. Z
        BY <4>1, ColonsPlaced DEF P, L, Z
      <4>3. ~(E[i] <= E[b])
        BY <1>13, <2>1, <2>2, <4>1, <4>2
      <4>4. ~(i <= b)
        BY <1>7, <2>2, <4>2, <4>3
      <4>5. b < i
        BY <2>2, <4>2, <4>4
      <4>. QED  BY <4>5 DEF b
    <3>. QED  BY <3>1, <3>2
  <2>5. g(k) <= i
    BY <1>3, <2>4
  <2>6. E[g(k)] <= E[i]
    BY <1>5, <1>7, <2>2, <2>3, <2>5
  <2>. QED  BY <1>4, <2>1, <2>3, <2>6
<1>. QED  BY <1>0, <1>2, <1>4, <1>9, <1>10, <1>11, <1>12, <1>13 DEF Seams, e, c, A, Z, W, V

LEMMA SeamIsFirst ==
    ASSUME NEW w \in Text, Splits(EveryColon(w))
    PROVE  Seam(ValueSeam(w)) = FirstColons(w)
<1>. DEFINE A == ArnComponents
            W == Len(w)
            V == EveryColon(w)
            c == ValueSeam(w)
<1>0. A \in Nat \ {0, 1} /\ W \in Nat /\ V \subseteq 1 .. W
  BY ComponentsAssumption DEF Text, EveryColon
<1>1. Ascends(V, W)
  <2>. HIDE DEF V, W
  <2>. QED  BY <1>0, Edges DEF V
<1>2. \A k \in 1 .. A - 1 : c[k] = Edge(V, W, k)
  <2>1. \A k \in 1 .. A - 1 : k \in 0 .. A
    BY <1>0
  <2>. QED  BY <2>1 DEF ValueSeam
<1>3. /\ \A k \in 1 .. A - 1 : Edge(V, W, k) \in V
      /\ \A i \in V : Rank(V, i) < A <=> \E k \in 1 .. A - 1 : i = Edge(V, W, k)
  BY <1>1 DEF Ascends
<1>4. FirstColons(w) = { i \in V : Rank(V, i) < A }
  BY DEF FirstColons, Rank
<1>5. Seam(c) = { c[k] : k \in 1 .. A - 1 }
  BY DEF Seam
<1>. HIDE DEF V, W, c, A
<1>6. \A i : i \in Seam(c) <=> i \in FirstColons(w)
  BY <1>2, <1>3, <1>4, <1>5
<1>. QED  BY <1>6 DEF c

(* The k-th components of a pattern and of a value, as matchARN pairs them.*)
Paired(s, w, k) ==
    [pattern |-> Component(s, PatternColons(s), k), value |-> Component(w, EveryColon(w), k)]

LEMMA ComponentMatches ==
    ASSUME NEW c \in Calls, NEW s \in Text, Fine(s, c.keys),
           NEW m, NEW E, Placed(s, m, E),
           \A i, j \in Outside(s) : i <= j =>
              Part(m, E[i], E[j], Meaning(SubSeq(s, i, j - 1), c.keys, FALSE)),
           NEW w \in Text, Splits(PatternColons(s)), Splits(EveryColon(w)),
           NEW k \in 1 .. ArnComponents
    PROVE  Matches(Paired(s, w, k), c) <=>
              \E at : Alone(m, w, PatternSeam(s, E), ValueSeam(w), k, at)
<1>. DEFINE A == ArnComponents
            keys == c.keys
            P == PatternColons(s)
            V == EveryColon(w)
            e == PatternSeam(s, E)
            d == ValueSeam(w)
            a == Edge(P, Len(s), k - 1) + 1
            b == Edge(P, Len(s), k)
            u == SubSeq(s, a, b - 1)
            i == d[k - 1] + 1
            j == d[k]
            v1 == SubSeq(w, i, j - 1)
            q == e[k - 1] + 1
            r == e[k]
<1>0. /\ A \in Nat \ {0, 1} /\ Len(s) \in Nat /\ Len(w) \in Nat
      /\ \A name \in DOMAIN keys : keys[name] \in Text
      /\ \A x \in References(s) : Closing(s, x) # 0
  BY ComponentsAssumption, CallStrings DEF Text, Fine
<1>1. a \in Outside(s) /\ b \in Outside(s) /\ a <= b /\ E[a] = q /\ E[b] = r
  <2>1. a = Edge(PatternColons(s), Len(s), k - 1) + 1 /\ b = Edge(PatternColons(s), Len(s), k)
    OBVIOUS
  <2>. HIDE DEF a, b
  <2>2. /\ a \in Outside(s) /\ b \in Outside(s) /\ a <= b
        /\ E[a] = PatternSeam(s, E)[k - 1] + 1 /\ E[b] = PatternSeam(s, E)[k]
    BY <1>0, <2>1, PatternEdges
  <2>. QED  BY <2>2
<1>2. Seams(m, w, e, d)
  BY <1>0, SeamsPlaced
<1>3. Component(s, P, k) = u
  BY <1>0, ComponentEdges
<1>4. Component(w, V, k) = v1
  <2>1. k \in 0 .. A /\ k - 1 \in 0 .. A
    BY <1>0
  <2>2. d[k - 1] = Edge(V, Len(w), k - 1) /\ d[k] = Edge(V, Len(w), k)
    BY <2>1 DEF ValueSeam
  <2>. QED  BY <1>0, <2>2, ComponentEdges
<1>. HIDE DEF a, b, d, e, P, V
<1>5. u \in Text /\ Fine(u, keys)
  <2>1. Slice(u, s, a - 1)
    BY <1>1, SliceOf
  <2>2. u \in Text
    BY <2>1 DEF Slice
  <2>. HIDE DEF u
  <2>. QED  BY <2>1, <2>2, SliceFine
<1>. DEFINE x == Meaning(u, keys, FALSE)
<1>6. Part(m, q, r, x)
  BY <1>1
<1>7. ~Fails(u, keys) /\ Same(Read(u, keys), x)
  <2>. HIDE DEF u
  <2>. QED  BY <1>0, <1>5, ReadMeans
<1>8. Matches(Paired(s, w, k), c) <=> Accepts(x, v1)
  <2>1. Paired(s, w, k).pattern = u /\ Paired(s, w, k).value = v1
    BY <1>3, <1>4 DEF Paired, P, V
  <2>. HIDE DEF u, v1
  <2>2. Matches(Paired(s, w, k), c) <=> Accepts(Read(u, keys), v1)
    BY <1>7, <2>1 DEF Matches
  <2>3. Accepts(Read(u, keys), v1) <=> Accepts(x, v1)
    <3>. DEFINE R == Read(u, keys)
    <3>1. Same(R, x)
      BY <1>7
    <3>. HIDE DEF R, x
    <3>2. Accepts(R, v1) <=> Accepts(x, v1)
      BY <3>1, AcceptsSame
    <3>. QED  BY <3>2 DEF R
  <2>. QED  BY <2>2, <2>3
<1>9. /\ q \in Nat /\ r \in Nat /\ 1 <= q /\ q <= r
      /\ i \in Nat /\ j \in Nat /\ 1 <= i /\ i <= j /\ j <= Len(w) + 1
  <2>1. k \in 0 .. A /\ k - 1 \in 0 .. A
    BY <1>0
  <2>2. e[k - 1] \in Nat /\ e[k] \in Nat /\ d[k - 1] \in Nat /\ d[k] \in Nat
    BY <1>2, <2>1, SeamNumbers
  <2>3. e[k - 1] < e[k] /\ d[k - 1] < d[k] /\ d[k] \in 0 .. Len(w) + 1
    BY <1>2, <2>1 DEF Seams
  <2>4. q \in Nat /\ r \in Nat /\ 1 <= q /\ q <= r
    BY <2>2, <2>3
  <2>5. i \in Nat /\ j \in Nat /\ 1 <= i /\ i <= j
    BY <2>2, <2>3
  <2>6. j <= Len(w) + 1
    BY <1>0, <2>3
  <2>. QED  BY <2>4, <2>5, <2>6
<1>. HIDE DEF q, r, i, j, x, u
<1>10. v1 \in Text /\ Len(v1) = j - i /\ \A z \in 1 .. Len(v1) : v1[z] = w[(i - 1) + z]
  <2>. DEFINE B == Byte
              h == j - 1
  <2>1. w \in Seq(B) /\ i \in 1 .. Len(w) + 1 /\ h \in i - 1 .. Len(w) /\ h \in Int
    <3>1. w \in Seq(B)
      BY DEF Text
    <3>. HIDE DEF B
    <3>. QED  BY <1>0, <1>9, <3>1
  <2>. HIDE DEF B, h
  <2>2. /\ SubSeq(w, i, h) \in Seq(B)
        /\ Len(SubSeq(w, i, h)) = IF i <= h THEN h - i + 1 ELSE 0
        /\ \A z \in 1 .. h - i + 1 : SubSeq(w, i, h)[z] = w[i + z - 1]
    BY <1>0, <1>9, <2>1, SubSeqProperties
  <2>3. h = j - 1
    BY DEF h
  <2>. HIDE DEF v1
  <2>4. v1 = SubSeq(w, i, h)
    BY <2>3 DEF v1
  <2>5. Len(v1) = j - i /\ h - i + 1 = j - i
    BY <1>9, <2>2, <2>3, <2>4
  <2>6. \A z \in 1 .. Len(v1) : i + z - 1 = (i - 1) + z
    BY <1>9, <2>5
  <2>. QED  BY <2>2, <2>4, <2>5, <2>6 DEF Text, B
<1>. HIDE DEF v1
<1>11. Accepts(x, v1) <=> \E at : Between(m, w, q, r, i, j, at)
  BY <1>6, <1>9, <1>10, BetweenAccepts
<1>. QED  BY <1>8, <1>11 DEF Alone, q, r, i, j, e, d

(* matchARN's components decide what the whole pattern means.              *)
LEMMA ArnMatches ==
    ASSUME NEW c \in Calls, c.kind = "arn", ~Meaningless(c),
           NEW s, s = AsRead(c), NEW w, w = c.value
    PROVE  Selects(c) <=>
              IF ~Splits(PatternColons(s)) THEN FALSE
              ELSE IF ~Splits(EveryColon(w)) THEN c.failClosed
              ELSE \A k \in 1 .. ArnComponents : Matches(Paired(s, w, k), c)
<1>. DEFINE keys == c.keys
            m == Meaning(s, keys, FALSE)
            t == Meaning(c.pattern, keys, c.old)
            d == ValueSeam(w)
<1>0. s \in Text /\ w \in Text /\ \A name \in DOMAIN keys : keys[name] \in Text
  BY CallStrings
<1>1. Fine(s, keys) /\ Alike(m, t)
  BY AlikeRead
<1>2. PICK E : /\ Placed(s, m, E)
               /\ \A i, j \in Outside(s) : i <= j =>
                     Part(m, E[i], E[j], Meaning(SubSeq(s, i, j - 1), keys, FALSE))
  BY <1>0, <1>1, Places
<1>3. \A r \in References(s) : Closing(s, r) # 0
  BY <1>1 DEF Fine
<1>. DEFINE e == PatternSeam(s, E)
            F == FirstColons(w)
<1>. HIDE DEF t
<1>4. OwnColons(m) = OwnColons(t) /\ (AcceptsFixed(m, w, F) <=> AcceptsFixed(t, w, F))
  <2>1. F \in SUBSET EveryColon(w)
    BY DEF FirstColons
  <2>. HIDE DEF m, F
  <2>. QED  BY <1>0, <1>1, <2>1, AlikeFixed
<1>5. Splits(OwnColons(t)) <=> Splits(PatternColons(s))
  <2>. HIDE DEF m
  <2>. QED  BY <1>0, <1>2, <1>4, SplitsSame
<1>6. ASSUME Splits(PatternColons(s)), Splits(EveryColon(w))
      PROVE  AcceptsFixed(m, w, F) <=> \A k \in 1 .. ArnComponents : Matches(Paired(s, w, k), c)
  <2>1. \A k \in 1 .. ArnComponents :
           Matches(Paired(s, w, k), c) <=> \E at : Alone(m, w, e, d, k, at)
    <3>1. m = Meaning(s, c.keys, FALSE)
      OBVIOUS
    <3>. HIDE DEF m
    <3>. QED  BY <1>0, <1>1, <1>2, <1>6, <3>1, ComponentMatches
  <2>. HIDE DEF m, F, e, d
  <2>2. Seams(m, w, e, d)
    BY <1>0, <1>2, <1>3, <1>6, SeamsPlaced DEF e, d
  <2>3. Seam(d) = F
    BY <1>0, <1>6, SeamIsFirst DEF d, F
  <2>4. AcceptsFixed(m, w, Seam(d)) <=> \A k \in 1 .. ArnComponents : \E at : Alone(m, w, e, d, k, at)
    BY <2>2, Apart, Together
  <2>. QED  BY <2>1, <2>3, <2>4
<1>7. Selects(c) <=> IF ~Splits(OwnColons(t)) THEN FALSE
                     ELSE IF ~Splits(EveryColon(w)) THEN c.failClosed
                     ELSE AcceptsFixed(t, w, F)
  BY DEF Selects, t
<1>. HIDE DEF F, m
<1>. QED  BY <1>4, <1>5, <1>6, <1>7

(* What is decided, while a call is matched: the components that are left  *)
(* decide it, and the elements under the scan decide the first of these.   *)
Left == \A k \in 1 .. Len(todo) : Matches(todo[k], call)

Deciding ==
    /\ pc = "split" => call.kind = "arn"
    /\ pc \in {"next", "scan"} => (Left <=> Selects(call))
    /\ pc = "scan" => (Accepts(tokens, Value) <=> Matches(Head(todo), call))
    /\ pc = "done" => answer = Selects(call)

LEMMA SelectsType ==
    ASSUME NEW c \in Calls
    PROVE  Selects(c) \in BOOLEAN
<1>1. c.failClosed \in BOOLEAN
  BY CallStrings
<1>2. \A t, w : Accepts(t, w) \in BOOLEAN
  BY DEF Accepts
<1>3. \A t, w, fixed : AcceptsFixed(t, w, fixed) \in BOOLEAN
  BY DEF AcceptsFixed
<1>. QED  BY <1>1, <1>2, <1>3 DEF Selects

(* A component that has been matched decides as its meaning does.          *)
LEMMA MatchedDecides ==
    ASSUME Typed, Deciding, NEW yes, Matched(yes), yes <=> Matches(Head(todo), call)
    PROVE  Deciding'
<1>1. call \in Calls /\ call' = call /\ pc \in {"next", "scan"} /\ todo \in Seq(Pairs) /\ todo # << >>
  BY DEF Matched, Typed, TypeOK
<1>2. /\ Head(todo) = todo[1] /\ Tail(todo) \in Seq(Pairs) /\ Len(todo) \in Nat \ {0}
      /\ Len(Tail(todo)) = Len(todo) - 1
      /\ \A k \in 1 .. Len(Tail(todo)) : Tail(todo)[k] = todo[k + 1]
  BY <1>1
<1>3. CASE yes
  <2>1. pc' = "next" /\ todo' = Tail(todo)
    BY <1>3 DEF Matched
  <2>2. Left <=> Left'
    <3>. DEFINE T == Tail(todo)
                n == Len(todo)
    <3>1. Len(T) = n - 1 /\ n \in Nat \ {0} /\ \A k \in 1 .. Len(T) : T[k] = todo[k + 1]
      BY <1>2
    <3>2. Left' <=> \A k \in 1 .. Len(T) : Matches(T[k], call)
      BY <1>1, <2>1 DEF Left
    <3>3. Left <=> \A k \in 1 .. n : Matches(todo[k], call)
      BY DEF Left
    <3>4. Matches(todo[1], call)
      BY <1>2, <1>3
    <3>. HIDE DEF T, n
    <3>5. ASSUME NEW k \in 1 .. Len(T)
          PROVE  k + 1 \in 1 .. n
      BY <3>1
    <3>6. ASSUME NEW k \in 1 .. n, k # 1
          PROVE  k - 1 \in 1 .. Len(T) /\ (k - 1) + 1 = k
      BY <3>1, <3>6
    <3>. QED  BY <3>1, <3>2, <3>3, <3>4, <3>5, <3>6
  <2>. QED  BY <1>1, <2>1, <2>2 DEF Deciding
<1>4. CASE ~yes
  <2>1. pc' = "done" /\ answer' = FALSE
    BY <1>4 DEF Matched, Answer
  <2>2. ~Left
    <3>1. 1 \in 1 .. Len(todo) /\ ~Matches(todo[1], call)
      BY <1>2, <1>4
    <3>. QED  BY <3>1 DEF Left
  <2>3. Selects(call) = FALSE
    BY <1>1, <2>2, SelectsType DEF Deciding
  <2>. QED  BY <1>1, <2>1, <2>3 DEF Deciding
<1>. QED  BY <1>3, <1>4

(* So do the elements that a component is read as.                         *)
LEMMA ScanDecides ==
    ASSUME Typed, Deciding, NEW elements, Scan(elements), pc = "next",
           Accepts(elements, Value) <=> Matches(Head(todo), call)
    PROVE  Deciding'
<1>1. /\ pc' = "scan" /\ tokens' = elements /\ call' = call /\ todo' = todo
      /\ Value' = Value /\ (Left <=> Left')
  BY DEF Scan, Value, Left
<1>. HIDE DEF Value
<1>. QED  BY <1>1 DEF Deciding

LEMMA RefuseDecides ==
    ASSUME Typed, Deciding, RefuseARN
    PROVE  Deciding'
<1>. DEFINE s == AsRead(call)
            w == call.value
<1>1. pc = "split" /\ call \in Calls /\ call.kind = "arn" /\ call' = call
  BY DEF RefuseARN, Typed, TypeOK, Deciding
<1>2. Unresolved(s) <=> Meaningless(call)
  BY <1>1, ReadSame DEF Unresolved, Fails
<1>3. Selects(call) \in BOOLEAN /\ call.failClosed \in BOOLEAN
  BY <1>1, SelectsType, CallStrings
<1>. HIDE DEF s, w
<1>4. CASE Unresolved(s) /\ Answer(call.failClosed)
  <2>1. Selects(call) = call.failClosed
    BY <1>2, <1>4 DEF Selects
  <2>. QED  BY <1>1, <1>4, <2>1 DEF Answer, Deciding
<1>5. ASSUME ~Unresolved(s)
      PROVE  Selects(call) <=>
                IF ~Splits(PatternColons(s)) THEN FALSE
                ELSE IF ~Splits(EveryColon(w)) THEN call.failClosed
                ELSE \A k \in 1 .. ArnComponents : Matches(Paired(s, w, k), call)
  BY <1>1, <1>2, <1>5, ArnMatches DEF s, w
<1>6. CASE ~Unresolved(s) /\ ~Splits(PatternColons(s)) /\ Answer(FALSE)
  <2>1. Selects(call) = FALSE
    BY <1>3, <1>5, <1>6
  <2>. QED  BY <1>1, <1>6, <2>1 DEF Answer, Deciding
<1>7. CASE ~Unresolved(s) /\ Splits(PatternColons(s)) /\ ~Splits(EveryColon(w))
             /\ Answer(call.failClosed)
  <2>1. Selects(call) = call.failClosed
    BY <1>3, <1>5, <1>7
  <2>. QED  BY <1>1, <1>7, <2>1 DEF Answer, Deciding
<1>. QED  BY <1>4, <1>6, <1>7 DEF RefuseARN, s, w

LEMMA SplitDecides ==
    ASSUME Typed, Deciding, SplitARN
    PROVE  Deciding'
<1>. DEFINE s == AsRead(call)
            w == call.value
            A == ArnComponents
            T == [k \in 1 .. A |-> Paired(s, w, k)]
<1>1. pc = "split" /\ call \in Calls /\ call.kind = "arn" /\ call' = call /\ pc' = "next"
  BY DEF SplitARN, Typed, TypeOK, Deciding
<1>2. ~Unresolved(s) /\ Splits(PatternColons(s)) /\ Splits(EveryColon(w)) /\ todo' = T
  BY DEF SplitARN, Paired
<1>3. ~Meaningless(call)
  BY <1>1, <1>2, ReadSame DEF Unresolved, Fails
<1>4. Selects(call) <=> \A k \in 1 .. A : Matches(Paired(s, w, k), call)
  <2>1. s = AsRead(call) /\ w = call.value
    OBVIOUS
  <2>. HIDE DEF s, w
  <2>. QED  BY <1>1, <1>2, <1>3, <2>1, ArnMatches
<1>5. Len(T) = A /\ \A k \in 1 .. A : T[k] = Paired(s, w, k)
  <2>1. A \in Nat
    BY ComponentsAssumption
  <2>. QED  BY <2>1
<1>. HIDE DEF s, w, T
<1>6. Left' <=> \A k \in 1 .. A : Matches(Paired(s, w, k), call)
  BY <1>1, <1>2, <1>5 DEF Left
<1>. QED  BY <1>1, <1>4, <1>6 DEF Deciding

LEMMA DecidingStep ==
    ASSUME Typed, Scanned, Deciding, [Next]_vars
    PROVE  Deciding'
<1>1. CASE Call
  <2>1. PICK c \in Calls :
           /\ call' = c
           /\ \/ /\ c.kind = "pattern" /\ pc' = "next"
                 /\ todo' = << [pattern |-> AsRead(c), value |-> c.value] >>
              \/ c.kind = "arn" /\ pc' = "split" /\ UNCHANGED todo
    BY <1>1 DEF Call
  <2>2. CASE c.kind = "pattern"
    <3>. DEFINE pair == [pattern |-> AsRead(c), value |-> c.value]
    <3>1. pc' = "next" /\ todo' = << pair >> /\ call' = c
      BY <2>1, <2>2
    <3>2. Matches(pair, c) <=> Selects(c)
      BY <2>2, PatternMatches
    <3>. HIDE DEF pair
    <3>3. Len(<< pair >>) = 1 /\ << pair >>[1] = pair /\ \A k \in 1 .. 1 : k = 1
      OBVIOUS
    <3>4. Left' <=> Matches(pair, c)
      BY <3>1, <3>3 DEF Left
    <3>. QED  BY <3>1, <3>2, <3>4 DEF Deciding
  <2>3. CASE c.kind # "pattern"
    BY <2>1, <2>3 DEF Deciding
  <2>. QED  BY <2>2, <2>3
<1>2. CASE RefuseARN \/ SplitARN
  BY <1>2, RefuseDecides, SplitDecides
<1>3. CASE Literal
  <2>. DEFINE s == Head(todo).pattern
              w == Head(todo).value
  <2>1. pc = "next" /\ todo # << >> /\ ~HasReference(s)
    BY <1>3 DEF Literal
  <2>2. s \in Text /\ w \in Text
    <3>1. Head(todo) \in Pairs
      BY <2>1, HeadTailProperties DEF Typed
    <3>. QED  BY <3>1 DEF Pairs
  <2>3. Matches(Head(todo), call) <=> Accepts(Token(s, FALSE), w)
    BY <2>1 DEF Matches, Fails, Read
  <2>4. CASE s = << "*" >> /\ Matched(TRUE)
    BY <2>2, <2>3, <2>4, FastPaths, MatchedDecides
  <2>5. CASE (\A i \in 1 .. Len(s) : s[i] \notin Metacharacters) /\ Matched(s = w)
    <3>1. s = w <=> Matches(Head(todo), call)
      BY <2>2, <2>3, <2>5, FastPaths
    <3>. QED  BY <2>5, <3>1, MatchedDecides
  <2>6. CASE Scan(Token(s, FALSE))
    BY <2>1, <2>3, <2>6, ScanDecides DEF Value
  <2>. QED  BY <1>3, <2>4, <2>5, <2>6 DEF Literal
<1>4. CASE Unresolvable
  <2>1. Matched(call.failClosed) /\ Fails(Head(todo).pattern, call.keys)
    BY <1>4 DEF Unresolvable, Unresolved, Fails
  <2>2. call.failClosed <=> Matches(Head(todo), call)
    BY <2>1 DEF Matches
  <2>. QED  BY <2>1, <2>2, MatchedDecides
<1>5. CASE Resolved
  <2>. DEFINE s == Head(todo).pattern
              t == Token(ExpandVariables(s, call.keys).text, TRUE)
  <2>1. pc = "next" /\ HasReference(s) /\ ExpandVariables(s, call.keys).ok /\ Scan(t)
    BY <1>5 DEF Resolved
  <2>2. Accepts(t, Value) <=> Matches(Head(todo), call)
    BY <2>1 DEF Matches, Fails, Read, Value
  <2>. HIDE DEF t, Value
  <2>. QED  BY <2>1, <2>2, ScanDecides
<1>6. CASE AllMatched
  <2>1. pc = "next" /\ todo = << >> /\ call' = call /\ pc' = "done" /\ answer' = TRUE
    BY <1>6 DEF AllMatched, Answer
  <2>2. Left /\ call \in Calls
    BY <2>1 DEF Left, Typed, TypeOK
  <2>3. Selects(call) = TRUE
    BY <2>1, <2>2, SelectsType DEF Deciding
  <2>. QED  BY <2>1, <2>3 DEF Deciding
<1>7. CASE Mismatch \/ ScanEnds
  <2>1. PICK yes : Matched(yes) /\ pc = "scan"
    BY <1>7 DEF Mismatch, ScanEnds, MoreValue
  <2>2. yes <=> pc' = "next"
    BY <2>1 DEF Matched, Answer
  <2>3. pc' # "scan"
    BY <2>1 DEF Matched, Answer
  <2>4. pc' = "next" <=> Accepts(tokens, Value)
    BY <2>1, <2>3, GlobStep
  <2>5. yes <=> Matches(Head(todo), call)
    BY <2>1, <2>2, <2>4 DEF Deciding
  <2>. QED  BY <2>1, <2>5, MatchedDecides
<1>8. CASE Star \/ One \/ Restart \/ TrailingStar \/ UNCHANGED vars
  <2>1. UNCHANGED << pc, call, todo, tokens, answer >>
    BY <1>8 DEF Star, One, Restart, TrailingStar, vars, scanVars
  <2>. QED  BY <2>1 DEF Deciding, Left, Value
<1>9. CASE Return
  BY <1>9 DEF Return, Deciding
<1>. QED  BY <1>1, <1>2, <1>3, <1>4, <1>5, <1>6, <1>7, <1>8, <1>9 DEF Next, Step

LEMMA DecidingAlways == Spec => [](Typed /\ Scanned /\ Deciding)
<1>1. Init => Deciding
  BY DEF Init, Deciding
<1>2. Typed /\ Scanned /\ Deciding /\ [Next]_vars => Deciding'
  BY DecidingStep
<1>. QED  BY <1>1, <1>2, ScannedAlways, PTL DEF Spec

(* Whatever expansion, escapes, fast paths and backtracking do, and        *)
(* whatever the keys hold, matchPattern answers what the pattern means, in *)
(* documents of every version (match.go, matchPattern; variables.go).      *)
PatternDecides == pc = "done" /\ call.kind = "pattern" => answer = Selects(call)

THEOREM PatternIsRight == Spec => []PatternDecides
<1>1. Deciding => PatternDecides
  BY DEF Deciding, PatternDecides
<1>. QED  BY <1>1, DecidingAlways, PTL

(* What a step does to the question and to its answer.                     *)
LEMMA DecisionStep ==
    ASSUME Typed, Typed', Deciding', [Next]_vars
    PROVE  [D!Next]_<< call, answer >>
<1>1. CASE Call
  <2>1. pc = "idle" /\ call' \in Calls /\ answer' = answer
    BY <1>1 DEF Call
  <2>2. call = NoCall /\ call' # NoCall
    BY <2>1, CallsAssumption DEF Typed, TypeOK
  <2>. QED  BY <2>1, <2>2 DEF D!Next, D!Ask
<1>2. CASE Step
  <2>1. pc \notin {"idle", "done"} /\ call' = call
    BY <1>2 DEF Step, RefuseARN, SplitARN, Literal, Unresolvable, Resolved, AllMatched,
               Matched, Scan, Star, One, Restart, Mismatch, TrailingStar, ScanEnds, MoreValue
  <2>2. call \in Calls /\ call # NoCall /\ answer = NoAnswer
    BY <2>1, CallsAssumption DEF Typed, TypeOK
  <2>3. CASE pc' = "done"
    <3>1. answer' \in BOOLEAN /\ answer' = Selects(call)
      BY <2>1, <2>3 DEF Typed, TypeOK, Deciding
    <3>2. answer' # NoAnswer
      BY <3>1, CallsAssumption
    <3>. QED  BY <2>1, <2>2, <3>1, <3>2 DEF D!Next, D!Reply
  <2>4. CASE pc' # "done"
    <3>1. answer' = NoAnswer
      BY <2>4 DEF Typed, TypeOK
    <3>. QED  BY <2>1, <2>2, <3>1
  <2>. QED  BY <2>3, <2>4
<1>3. CASE Return
  <2>1. pc = "done" /\ call' = NoCall /\ answer' = NoAnswer
    BY <1>3 DEF Return
  <2>2. answer # NoAnswer
    BY <2>1, CallsAssumption DEF Typed, TypeOK
  <2>. QED  BY <2>1, <2>2 DEF D!Next, D!Return
<1>4. CASE UNCHANGED vars
  BY <1>4 DEF vars
<1>. QED  BY <1>1, <1>2, <1>3, <1>4 DEF Next

(* The matcher implements Decision, in an ARN as in a plain pattern:       *)
(* splitting at the colons, expanding and scanning one component at a      *)
(* time answers what the whole pattern means, for every pattern, value and *)
(* set of keys and in documents of every version (match.go, matchPattern,  *)
(* matchARN and matchGlob; variables.go).                                  *)
THEOREM MatcherImplementsDecision == Spec => ImplementsDecision
<1>1. Init => D!Init
  BY DEF Init, D!Init
<1>2. Typed /\ Typed' /\ Deciding' /\ [Next]_vars => [D!Next]_<< call, answer >>
  BY DecisionStep
<1>. QED  BY <1>1, <1>2, DecidingAlways, PTL DEF Spec, ImplementsDecision, D!Spec
=============================================================================
