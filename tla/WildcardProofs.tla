--------------------------- MODULE WildcardProofs ---------------------------
(***************************************************************************)
(* The wildcard matcher for every pattern and every text.                   *)
(***************************************************************************)
EXTENDS Wildcard, Integers, WellFoundedInduction, NaturalsInduction, TLAPS

-----------------------------------------------------------------------------
(* Numbers. *)

\* A set of naturals that has a member has a least one.
LEMMA LeastNat ==
    ASSUME NEW T, T \subseteq Nat, T # {}
    PROVE  \E x \in T : \A y \in T : x <= y
<1>. DEFINE R == OpToRel(<, Nat)
<1>1. \E x \in T : \A y \in T : ~ (<<y, x>> \in R)
  BY NatLessThanWellFounded, WFMin
<1>2. \A x, y \in Nat : y < x => <<y, x>> \in R
  BY DEF OpToRel
<1>. HIDE DEF R
<1>3. PICK x \in T : \A y \in T : ~ (<<y, x>> \in R)
  BY <1>1
<1>4. \A y \in T : x <= y
  <2>. TAKE y \in T
  <2>1. x \in Nat /\ y \in Nat
    OBVIOUS
  <2>2. ~(y < x)
    BY <2>1, <1>2, <1>3, Zenon
  <2>. QED
    BY <2>1, <2>2
<1>. QED
  BY <1>4

\* A bounded set of naturals that has a member has a greatest one.
LEMMA GreatestNat ==
    ASSUME NEW n \in Nat, NEW T, T \subseteq 0..n, T # {}
    PROVE  \E x \in T : \A y \in T : y <= x
<1>. DEFINE U == {n - x : x \in T}
<1>1. U \subseteq Nat /\ U # {}
  <2>1. \A x \in T : x \in Int /\ n - x \in Nat
    OBVIOUS
  <2>. QED
    BY <2>1
<1>. HIDE DEF U
<1>2. PICK u \in U : \A v \in U : u <= v
  BY <1>1, LeastNat
<1>3. PICK x \in T : u = n - x
  BY DEF U
<1>4. ASSUME NEW y \in T
      PROVE  y <= x
  <2>1. n - y \in U
    BY DEF U
  <2>2. n - x <= n - y /\ x \in Int /\ y \in Int
    BY <1>2, <1>3, <2>1
  <2>. QED
    BY <2>2
<1>. QED
  BY <1>4

-----------------------------------------------------------------------------
(* What the recursive definition of MatchFrom defines. *)

Rows    == 1..(Len(pattern) + 1)
Columns == 1..(Len(text) + 1)

Inputs == pattern \in Seq(Bytes \cup Special) /\ text \in Seq(Bytes)

\* The body of MatchFrom.
Unfold(M, i) ==
    IF i > Len(pattern)
    THEN {Len(text) + 1}
    ELSE {j \in Columns :
            IF pattern[i] = "*"
            THEN \E k \in j..(Len(text) + 1) : k \in M[i + 1]
            ELSE /\ j <= Len(text) /\ pattern[i] \in {"?", text[j]}
                 /\ j + 1 \in M[i + 1]}

\* A split: byte k of the pattern takes the text from at[k] up to at[k + 1].
Split(at, i, j) ==
    /\ at \in [i..(Len(pattern) + 1) -> Columns]
    /\ at[i] = j /\ at[Len(pattern) + 1] = Len(text) + 1
    /\ \A k \in i..Len(pattern) :
          IF pattern[k] = "*" THEN at[k] <= at[k + 1]
          ELSE /\ at[k] <= Len(text) /\ at[k + 1] = at[k] + 1
               /\ pattern[k] \in {"?", text[at[k]]}

Splits == [i \in Rows |-> {j \in Columns : \E at : Split(at, i, j)}]

\* Having a split satisfies the recursive equation, ...
LEMMA SplitsUnfold ==
    ASSUME Inputs, NEW i \in Rows
    PROVE  Splits[i] = Unfold(Splits, i)
<1>t. Len(pattern) \in Nat /\ Len(text) \in Nat
  BY DEF Inputs
<1>s. \A k \in Rows, l \in Columns : l \in Splits[k] <=> \E at : Split(at, k, l)
  BY DEF Splits
<1>u. Splits[i] \subseteq Columns
  BY DEF Splits
<1>1. CASE i > Len(pattern)
  <2>1. i = Len(pattern) + 1 /\ Len(text) + 1 \in Columns
    BY <1>t, <1>1 DEF Rows, Columns
  <2>2. \A at, j : Split(at, i, j) => j = Len(text) + 1
    BY <1>t, <2>1 DEF Split
  <2>3. Split([k \in i..(Len(pattern) + 1) |-> Len(text) + 1], i, Len(text) + 1)
    BY <1>t, <2>1 DEF Split
  <2>4. Splits[i] = {Len(text) + 1}
    BY <1>s, <1>u, <2>1, <2>2, <2>3
  <2>. QED
    BY <1>1, <2>4 DEF Unfold
<1>2. CASE i <= Len(pattern) /\ pattern[i] = "*"
  <2>1. i + 1 \in Rows /\ i \in Nat
    BY <1>t, <1>2 DEF Rows
  <2>2. ASSUME NEW j \in Columns, NEW at, Split(at, i, j)
        PROVE  \E k \in j..(Len(text) + 1) : k \in Splits[i + 1]
    <3>0. i \in i..Len(pattern) /\ i + 1 \in i..(Len(pattern) + 1)
      BY <1>t, <1>2, <2>1
    <3>1. at[i + 1] \in Columns /\ j <= at[i + 1]
      BY <1>2, <2>2, <3>0 DEF Split
    <3>2. Split([k \in (i + 1)..(Len(pattern) + 1) |-> at[k]], i + 1, at[i + 1])
      BY <1>t, <1>2, <2>1, <2>2, <3>1 DEF Split
    <3>3. at[i + 1] \in j..(Len(text) + 1)
      BY <1>t, <3>1 DEF Columns
    <3>. QED
      BY <1>s, <2>1, <3>1, <3>2, <3>3
  <2>3. ASSUME NEW j \in Columns, NEW k \in j..(Len(text) + 1), k \in Splits[i + 1]
        PROVE  \E a : Split(a, i, j)
    <3>1. k \in Columns /\ j <= k
      BY <1>t DEF Columns
    <3>2. PICK at : Split(at, i + 1, k)
      BY <1>s, <2>1, <2>3, <3>1
    <3>. DEFINE a == [l \in i..(Len(pattern) + 1) |-> IF l = i THEN j ELSE at[l]]
    <3>3. Split(a, i, j)
      BY <1>t, <1>2, <2>1, <3>1, <3>2 DEF Split
    <3>. QED
      BY <3>3
  <2>4. \A j \in Columns : j \in Splits[i] <=> \E k \in j..(Len(text) + 1) : k \in Splits[i + 1]
    BY <1>s, <2>2, <2>3
  <2>5. ~(i > Len(pattern))
    BY <1>t, <1>2, <2>1
  <2>. QED
    BY <1>u, <1>2, <2>4, <2>5 DEF Unfold
<1>3. CASE i <= Len(pattern) /\ pattern[i] # "*"
  <2>1. i + 1 \in Rows /\ i \in Nat
    BY <1>t, <1>3 DEF Rows
  <2>2. ASSUME NEW j \in Columns, NEW at, Split(at, i, j)
        PROVE  j <= Len(text) /\ pattern[i] \in {"?", text[j]} /\ j + 1 \in Splits[i + 1]
    <3>1. j <= Len(text) /\ pattern[i] \in {"?", text[j]} /\ at[i + 1] = j + 1
      BY <1>t, <1>3, <2>1, <2>2 DEF Split
    <3>2. Split([k \in (i + 1)..(Len(pattern) + 1) |-> at[k]], i + 1, j + 1)
      BY <1>t, <1>3, <2>1, <2>2, <3>1 DEF Split
    <3>3. j + 1 \in Columns
      BY <1>t, <3>1 DEF Columns
    <3>. QED
      BY <1>s, <2>1, <3>1, <3>2, <3>3
  <2>3. ASSUME NEW j \in Columns, j <= Len(text), pattern[i] \in {"?", text[j]},
               j + 1 \in Splits[i + 1]
        PROVE  \E a : Split(a, i, j)
    <3>1. j + 1 \in Columns
      BY <1>t, <2>3 DEF Columns
    <3>2. PICK at : Split(at, i + 1, j + 1)
      BY <1>s, <2>1, <2>3, <3>1
    <3>. DEFINE a == [k \in i..(Len(pattern) + 1) |-> IF k = i THEN j ELSE at[k]]
    <3>3. Split(a, i, j)
      BY <1>t, <1>3, <2>1, <2>3, <3>2 DEF Split
    <3>. QED
      BY <3>3
  <2>4. \A j \in Columns :
           j \in Splits[i] <=> /\ j <= Len(text) /\ pattern[i] \in {"?", text[j]}
                               /\ j + 1 \in Splits[i + 1]
    BY <1>s, <2>2, <2>3
  <2>5. ~(i > Len(pattern))
    BY <1>t, <1>3, <2>1
  <2>. QED
    BY <1>u, <1>3, <2>4, <2>5 DEF Unfold
<1>. QED
  BY <1>t, <1>1, <1>2, <1>3 DEF Rows

\* ... so the definition of MatchFrom is one, and MatchFrom satisfies its equation.
LEMMA MatchUnfold ==
    ASSUME Inputs
    PROVE  MatchFrom = [i \in Rows |-> Unfold(MatchFrom, i)]
<1>1. Splits = [i \in Rows |-> Unfold(Splits, i)]
  BY SplitsUnfold DEF Splits
<1>2. \E M : M = [i \in Rows |-> Unfold(M, i)]
  BY <1>1
<1>3. MatchFrom = CHOOSE M : M = [i \in Rows |-> Unfold(M, i)]
  BY DEF MatchFrom, Unfold, Rows, Columns
<1>. QED
  BY <1>2, <1>3, Zenon

\* MatchFrom by the cases of the pattern's byte.
LEMMA MatchFacts ==
    ASSUME Inputs
    PROVE  /\ Len(pattern) \in Nat /\ Len(text) \in Nat
           /\ \A i \in Rows : MatchFrom[i] \subseteq Columns
           /\ MatchFrom[Len(pattern) + 1] = {Len(text) + 1}
           /\ \A i \in 1..Len(pattern), j \in Columns : pattern[i] = "*" =>
                (j \in MatchFrom[i] <=> \E k \in j..(Len(text) + 1) : k \in MatchFrom[i + 1])
           /\ \A i \in 1..Len(pattern), j \in Columns : pattern[i] # "*" =>
                (j \in MatchFrom[i] <=> /\ j <= Len(text) /\ pattern[i] \in {"?", text[j]}
                                        /\ j + 1 \in MatchFrom[i + 1])
<1>t. Len(pattern) \in Nat /\ Len(text) \in Nat
  BY DEF Inputs
<1>1. \A i \in Rows : MatchFrom[i] = Unfold(MatchFrom, i)
  BY MatchUnfold
<1>2. Len(pattern) + 1 \in Rows /\ \A i \in 1..Len(pattern) : i \in Rows /\ ~(i > Len(pattern))
  BY <1>t DEF Rows
<1>3. Len(text) + 1 \in Columns /\ Len(pattern) + 1 > Len(pattern)
  BY <1>t DEF Columns
<1>4. \A i \in Rows : MatchFrom[i] \subseteq Columns
  BY <1>1, <1>3 DEF Unfold
<1>5. MatchFrom[Len(pattern) + 1] = {Len(text) + 1}
  BY <1>1, <1>2, <1>3 DEF Unfold
<1>6. \A i \in 1..Len(pattern), j \in Columns : pattern[i] = "*" =>
        (j \in MatchFrom[i] <=> \E k \in j..(Len(text) + 1) : k \in MatchFrom[i + 1])
  BY <1>1, <1>2 DEF Unfold
<1>7. \A i \in 1..Len(pattern), j \in Columns : pattern[i] # "*" =>
        (j \in MatchFrom[i] <=> /\ j <= Len(text) /\ pattern[i] \in {"?", text[j]}
                                /\ j + 1 \in MatchFrom[i + 1])
  BY <1>1, <1>2 DEF Unfold
<1>. QED
  BY <1>t, <1>4, <1>5, <1>6, <1>7

\* At the end of the text the rest of the pattern matches exactly when it is stars.
LEMMA StarsMatchNothing ==
    ASSUME Inputs
    PROVE  \A q \in Rows :
              Len(text) + 1 \in MatchFrom[q] <=> \A i \in q..Len(pattern) : pattern[i] = "*"
<1>. DEFINE Agree(q) ==
       Len(text) + 1 \in MatchFrom[q] <=> \A i \in q..Len(pattern) : pattern[i] = "*"
            Bad == {q \in Rows : ~Agree(q)}
<1>t. Len(pattern) \in Nat /\ Len(text) \in Nat /\ Len(text) + 1 \in Columns
  BY MatchFacts DEF Columns
<1>1. SUFFICES ASSUME Bad # {} PROVE FALSE
  OBVIOUS
<1>2. Bad \subseteq 0..(Len(pattern) + 1)
  BY <1>t DEF Rows
<1>3. PICK q \in Bad : \A r \in Bad : r <= q
  <2>1. Len(pattern) + 1 \in Nat
    BY <1>t
  <2>. HIDE DEF Bad
  <2>. QED
    BY <1>1, <1>2, <2>1, GreatestNat
<1>4. CASE q = Len(pattern) + 1
  BY <1>t, <1>4, MatchFacts
<1>5. CASE q # Len(pattern) + 1
  <2>1. q \in 1..Len(pattern) /\ q + 1 \in Rows /\ q + 1 \notin Bad
    BY <1>t, <1>3, <1>5 DEF Rows
  <2>2. Agree(q + 1)
    BY <2>1
  <2>3. (\A i \in q..Len(pattern) : pattern[i] = "*")
          <=> pattern[q] = "*" /\ \A i \in (q + 1)..Len(pattern) : pattern[i] = "*"
    BY <1>t, <2>1
  <2>4. Len(text) + 1 \in MatchFrom[q] <=> pattern[q] = "*" /\ Len(text) + 1 \in MatchFrom[q + 1]
    <3>1. CASE pattern[q] = "*"
      <4>1. \A k : k \in (Len(text) + 1)..(Len(text) + 1) <=> k = Len(text) + 1
        BY <1>t
      <4>. QED
        BY <1>t, <2>1, <3>1, <4>1, MatchFacts
    <3>2. CASE pattern[q] # "*"
      BY <1>t, <2>1, <3>2, MatchFacts
    <3>. QED
      BY <3>1, <3>2
  <2>. QED
    BY <2>2, <2>3, <2>4
<1>. QED
  BY <1>4, <1>5

-----------------------------------------------------------------------------
(* The loop. *)

\* Between the most recent star and p there are bytes and `?'s alone, one for each byte of
\* the text from where the star was given up to t.
Level ==
    star # <<>> =>
        /\ star = <<star[1], star[2]>>
        /\ star[1] \in 1..Len(pattern) /\ pattern[star[1]] = "*"
        /\ star[2] \in 1..t /\ star[1] < p
        /\ t - star[2] = p - star[1] - 1

\* The text matches if and only if it does from here on, or with a longer run of the most
\* recent star: no earlier star needs to be tried again.
Undecided ==
    1 \in MatchFrom[1] <=>
        \/ t \in MatchFrom[p]
        \/ star # <<>> /\ \E j \in (star[2] + 1)..(Len(text) + 1) : j \in MatchFrom[star[1] + 1]

\* A longer run of the most recent star also gets to p, and that much later.
Later ==
    star # <<>> =>
        \A j \in (star[2] + 1)..(Len(text) + 1) :
            j \in MatchFrom[star[1] + 1] => j + (t - star[2]) \in MatchFrom[p]

\* The turns so far: at most one for each byte of the pattern at each place of the star.
Paced ==
    /\ star = <<>> => turns < p
    /\ star # <<>> => turns < (star[2] - 1) * (Len(pattern) + 1) + p

IInv ==
    /\ Inputs /\ TypeOK /\ turns \in Nat
    /\ result = "running" => Level /\ Undecided /\ Later /\ Paced
    /\ AsEverySplit /\ TurnsBounded

\* The turns of a matcher that resumed at the last place of the text are within the bound.
LEMMA PaceBounded ==
    ASSUME NEW n \in Nat, NEW m \in Nat, NEW u \in 1..(m + 1)
    PROVE  (u - 1) * (n + 1) + n <= (n + 1) * (m + 1) /\ n + 1 <= (n + 1) * (m + 1)
<1>1. \A a, b, c \in Nat : a <= b => a * c <= b * c
  OBVIOUS
<1>2. (u - 1) * (n + 1) <= m * (n + 1)
  BY <1>1
<1>3. m * (n + 1) + (n + 1) = (n + 1) * (m + 1) /\ m * (n + 1) \in Nat
  OBVIOUS
<1>. QED
  BY <1>2, <1>3

\* The matcher starts with nothing decided.
LEMMA InitIInv == Init => IInv
<1>. SUFFICES ASSUME Init PROVE IInv
  OBVIOUS
<1>1. Inputs
  BY DEF Init, BoundedSeq, SeqOf, Inputs
<1>2. Len(pattern) \in Nat /\ Len(text) \in Nat
  BY <1>1, MatchFacts
<1>3. TypeOK
  BY <1>2 DEF Init, TypeOK
<1>4. Level /\ Undecided /\ Later /\ Paced
  BY <1>2 DEF Init, Level, Undecided, Later, Paced
<1>5. TurnsBounded
  BY <1>2 DEF Init, TurnsBounded
<1>. QED
  BY <1>1, <1>3, <1>4, <1>5 DEF Init, IInv, AsEverySplit

\* What every step of the loop starts from.
Here ==
    /\ Inputs /\ result = "running" /\ t \in 1..Len(text) /\ p \in Rows
    /\ Len(pattern) \in Nat /\ Len(text) \in Nat /\ turns \in Nat
    /\ Level /\ Undecided /\ Later /\ Paced

\* A star is noted and passed: it takes nothing yet.
LEMMA StarStep ==
    ASSUME Here, Star
    PROVE  Level' /\ Undecided' /\ Later' /\ Paced'
<1>. USE DEF Here
<1>1. /\ star' = <<p, t>> /\ p' = p + 1 /\ p \in 1..Len(pattern) /\ pattern[p] = "*"
      /\ turns' = turns + 1 /\ UNCHANGED <<t, pattern, text>>
  BY DEF Star, Turn, Rows
<1>m. MatchFrom' = MatchFrom
  BY <1>1 DEF MatchFrom
<1>2. star' # <<>> /\ star'[1] = p /\ star'[2] = t
  BY <1>1
<1>3. t \in MatchFrom[p] <=> \E k \in t..(Len(text) + 1) : k \in MatchFrom[p + 1]
  BY <1>1, MatchFacts DEF Columns
<1>4. Level'
  BY <1>1, <1>2 DEF Level
<1>5. Undecided'
  <2>1. ASSUME star # <<>>, NEW j \in (star[2] + 1)..(Len(text) + 1),
               j \in MatchFrom[star[1] + 1]
        PROVE  t \in MatchFrom[p]
    <3>. DEFINE k == j + (t - star[2])
    <3>1. k \in MatchFrom[p] /\ star[2] \in 1..t
      BY <2>1 DEF Later, Level
    <3>2. k \in Columns /\ k > t
      BY <1>1, <3>1, MatchFacts
    <3>3. \E l \in k..(Len(text) + 1) : l \in MatchFrom[p + 1]
      BY <1>1, <3>1, <3>2, MatchFacts
    <3>4. \E l \in t..(Len(text) + 1) : l \in MatchFrom[p + 1]
      BY <3>2, <3>3 DEF Columns
    <3>. QED
      BY <1>3, <3>4
  <2>2. 1 \in MatchFrom[1] <=> t \in MatchFrom[p]
    BY <2>1 DEF Undecided
  <2>3. (\E k \in t..(Len(text) + 1) : k \in MatchFrom[p + 1])
          <=> \/ t \in MatchFrom[p + 1]
              \/ \E k \in (t + 1)..(Len(text) + 1) : k \in MatchFrom[p + 1]
    OBVIOUS
  <2>. QED
    BY <1>1, <1>2, <1>3, <1>m, <2>2, <2>3 DEF Undecided
<1>6. Later'
  BY <1>1, <1>2, <1>m DEF Later
<1>7. Paced'
  <2>1. (t - 1) * (Len(pattern) + 1) \in Nat
    OBVIOUS
  <2>2. turns < (t - 1) * (Len(pattern) + 1) + p
    <3>1. CASE star = <<>>
      BY <2>1, <3>1, <1>1 DEF Paced
    <3>2. CASE star # <<>>
      <4>1. \A a, b, c \in Nat : a <= b => a * c <= b * c
        OBVIOUS
      <4>2. star[2] - 1 \in Nat /\ star[2] - 1 <= t - 1 /\ t - 1 \in Nat /\ Len(pattern) + 1 \in Nat
        BY <3>2 DEF Level
      <4>3. (star[2] - 1) * (Len(pattern) + 1) <= (t - 1) * (Len(pattern) + 1)
        BY <4>1, <4>2
      <4>4. (star[2] - 1) * (Len(pattern) + 1) \in Nat
        BY <4>2
      <4>5. turns < (star[2] - 1) * (Len(pattern) + 1) + p
        BY <3>2 DEF Paced
      <4>. QED
        BY <1>1, <2>1, <4>3, <4>4, <4>5
    <3>. QED
      BY <3>1, <3>2
  <2>. QED
    BY <1>1, <1>2, <2>1, <2>2 DEF Paced
<1>. QED
  BY <1>4, <1>5, <1>6, <1>7

\* A byte that fits is passed in the pattern and in the text.
LEMMA ByteStep ==
    ASSUME Here, Byte
    PROVE  Level' /\ Undecided' /\ Later' /\ Paced'
<1>. USE DEF Here
<1>1. /\ p' = p + 1 /\ t' = t + 1 /\ p \in 1..Len(pattern) /\ pattern[p] # "*"
      /\ pattern[p] \in {"?", text[t]}
      /\ turns' = turns + 1 /\ UNCHANGED <<star, pattern, text>>
  BY DEF Byte, Fits, Turn, Rows
<1>m. MatchFrom' = MatchFrom
  BY <1>1 DEF MatchFrom
<1>2. t \in MatchFrom[p] <=> t + 1 \in MatchFrom[p + 1]
  BY <1>1, MatchFacts DEF Columns
<1>3. Level'
  <2>1. SUFFICES ASSUME star # <<>>
                 PROVE  /\ star = <<star[1], star[2]>>
                        /\ star[1] \in 1..Len(pattern) /\ pattern[star[1]] = "*"
                        /\ star[2] \in 1..(t + 1) /\ star[1] < p + 1
                        /\ t + 1 - star[2] = p + 1 - star[1] - 1
    BY <1>1 DEF Level
  <2>2. /\ star = <<star[1], star[2]>>
        /\ star[1] \in 1..Len(pattern) /\ pattern[star[1]] = "*"
        /\ star[2] \in 1..t /\ star[1] < p /\ t - star[2] = p - star[1] - 1
    BY <2>1 DEF Level
  <2>3. star[1] \in Nat /\ star[2] \in Nat /\ p \in Nat /\ t \in Nat
    BY <1>1, <2>2
  <2>. HIDE DEF Here
  <2>. QED
    BY <2>2, <2>3
<1>4. Undecided'
  BY <1>1, <1>2, <1>m DEF Undecided
<1>5. Later'
  <2>1. ASSUME star # <<>>, NEW j \in (star[2] + 1)..(Len(text) + 1),
               j \in MatchFrom[star[1] + 1]
        PROVE  j + (t + 1 - star[2]) \in MatchFrom[p + 1]
    <3>. DEFINE k == j + (t - star[2])
    <3>1. k \in MatchFrom[p] /\ star[2] \in 1..t
      BY <2>1 DEF Later, Level
    <3>2. k \in Columns
      BY <1>1, <3>1, MatchFacts
    <3>3. k + 1 \in MatchFrom[p + 1]
      BY <1>1, <3>1, <3>2, MatchFacts
    <3>4. k + 1 = j + (t + 1 - star[2])
      BY <3>1
    <3>. QED
      BY <3>3, <3>4
  <2>2. star' = star /\ text' = text /\ p' = p + 1 /\ t' = t + 1
    BY <1>1
  <2>3. ASSUME star # <<>>, NEW j \in (star'[2] + 1)..(Len(text') + 1),
               j \in MatchFrom'[star'[1] + 1]
        PROVE  j + (t' - star'[2]) \in MatchFrom'[p']
    <3>1. j \in (star[2] + 1)..(Len(text) + 1) /\ j \in MatchFrom[star[1] + 1]
      BY <1>m, <2>2, <2>3
    <3>2. j + (t + 1 - star[2]) \in MatchFrom[p + 1]
      BY <2>1, <2>3, <3>1
    <3>3. star[2] \in Int /\ t \in Int
      BY <2>3 DEF Level
    <3>4. t' - star'[2] = t + 1 - star[2]
      BY <2>2, <3>3
    <3>. QED
      BY <1>m, <2>2, <3>2, <3>4
  <2>. QED
    BY <2>2, <2>3 DEF Later
<1>6. Paced'
  <2>1. star # <<>> => (star[2] - 1) * (Len(pattern) + 1) \in Nat
    BY DEF Level
  <2>. QED
    BY <1>1, <2>1 DEF Paced
<1>. QED
  BY <1>3, <1>4, <1>5, <1>6

\* A byte that neither the pattern nor a star takes is no match from here.
\* A matcher that can pass no byte has no match from where it is.
LEMMA StuckNoMatch ==
    ASSUME Here, Stuck
    PROVE  t \notin MatchFrom[p]
<1>1. CASE p = Len(pattern) + 1
  BY <1>1, MatchFacts DEF Here
<1>2. CASE p # Len(pattern) + 1
  <2>1. p \in 1..Len(pattern) /\ pattern[p] # "*" /\ pattern[p] \notin {"?", text[t]}
    BY <1>2 DEF Here, Rows, Stuck, Fits
  <2>. QED
    BY <2>1, MatchFacts DEF Here, Columns
<1>. QED
  BY <1>1, <1>2

\* The last star takes one more byte: earlier stars need not be tried again.
LEMMA BacktrackStep ==
    ASSUME Here, Backtrack, star # <<>>
    PROVE  Level' /\ Undecided' /\ Later' /\ Paced'
<1>. USE DEF Here
<1>1. /\ p' = star[1] + 1 /\ t' = star[2] + 1 /\ star' = <<star[1], star[2] + 1>>
      /\ turns' = turns + 1 /\ UNCHANGED <<pattern, text>>
  BY DEF Backtrack, Resume, Turn
<1>m. MatchFrom' = MatchFrom
  BY <1>1 DEF MatchFrom
<1>2. star' # <<>> /\ star'[1] = star[1] /\ star'[2] = star[2] + 1
  BY <1>1
<1>3. star[1] \in 1..Len(pattern) /\ star[2] \in 1..t /\ pattern[star[1]] = "*"
  BY DEF Level
<1>4. Level'
  <2>1. star' = <<star'[1], star'[2]>>
    BY <1>1, <1>2
  <2>2. /\ star'[1] \in 1..Len(pattern') /\ pattern'[star'[1]] = "*"
        /\ star'[2] \in 1..t' /\ star'[1] < p' /\ t' - star'[2] = p' - star'[1] - 1
    BY <1>1, <1>2, <1>3
  <2>. QED
    BY <2>1, <2>2 DEF Level
<1>5. Undecided'
  <2>1. 1 \in MatchFrom[1] <=>
          \E j \in (star[2] + 1)..(Len(text) + 1) : j \in MatchFrom[star[1] + 1]
    BY StuckNoMatch DEF Undecided, Backtrack
  <2>0. Len(text) \in Nat /\ star[2] \in Nat /\ star[2] <= Len(text)
    BY <1>3
  <2>. HIDE DEF Here
  <2>2. (\E j \in (star[2] + 1)..(Len(text) + 1) : j \in MatchFrom[star[1] + 1]) <=>
          \/ star[2] + 1 \in MatchFrom[star[1] + 1]
          \/ \E j \in (star[2] + 2)..(Len(text) + 1) : j \in MatchFrom[star[1] + 1]
    BY <2>0
  <2>3. star[2] + 1 + 1 = star[2] + 2
    BY <2>0
  <2>. QED
    BY <1>1, <1>2, <1>m, <2>1, <2>2, <2>3 DEF Undecided
<1>6. Later'
  BY <1>1, <1>2, <1>3, <1>m DEF Later
<1>7. Paced'
  <2>1. turns < (star[2] - 1) * (Len(pattern) + 1) + p /\ p - 1 <= Len(pattern)
    BY DEF Paced, Rows
  <2>2. /\ (star[2] - 1) * (Len(pattern) + 1) \in Nat
        /\ (star[2] - 1) * (Len(pattern) + 1) + (Len(pattern) + 1)
             = star[2] * (Len(pattern) + 1)
    BY <1>3
  <2>3. turns + 1 <= star[2] * (Len(pattern) + 1)
    BY <2>1, <2>2 DEF Rows
  <2>4. star[2] * (Len(pattern) + 1) \in Nat
    BY <1>3
  <2>5. turns + 1 < star[2] * (Len(pattern) + 1) + (star[1] + 1)
    BY <1>3, <2>3, <2>4
  <2>6. turns' = turns + 1 /\ star'[2] - 1 = star[2] /\ p' = star[1] + 1 /\ pattern' = pattern
    BY <1>1, <1>2, <1>3
  <2>. HIDE DEF Here
  <2>. QED
    BY <1>2, <2>5, <2>6 DEF Paced
<1>. QED
  BY <1>4, <1>5, <1>6, <1>7

\* Every turn of the loop keeps the invariant.
LEMMA StepIInv == IInv /\ [Next]_vars => IInv'
<1>. SUFFICES ASSUME IInv, [Next]_vars PROVE IInv'
  OBVIOUS
<1>0. Inputs' /\ UNCHANGED <<pattern, text>> /\ Len(pattern) \in Nat /\ Len(text) \in Nat
  <2>1. UNCHANGED <<pattern, text>>
    BY DEF Next, Star, Byte, Backtrack, Finish, Turn, vars
  <2>. QED
    BY <2>1, MatchFacts DEF IInv, Inputs
<1>m. MatchFrom' = MatchFrom
  BY <1>0 DEF MatchFrom
<1>h. Looping => Here
  BY <1>0 DEF IInv, Looping, Here, TypeOK, Rows
<1>t. turns' \in Nat
  BY DEF IInv, Next, Star, Byte, Backtrack, Finish, Turn, vars
<1>l. Len(pattern) \in Nat /\ Len(text) \in Nat
  BY <1>0
\* While the loop goes on, the pace bounds the turns.
<1>g. ASSUME Level', Paced', p' \in Rows, t' \in 1..(Len(text) + 1)
      PROVE  TurnsBounded'
  <2>1. CASE star' = <<>>
    <3>1. turns' <= Len(pattern) + 1
      <4>1. p' \in Nat /\ p' <= Len(pattern) + 1
        BY <1>0, <1>g DEF Rows
      <4>2. turns' < p'
        BY <1>g, <2>1 DEF Paced
      <4>. QED
        BY <1>l, <1>t, <4>1, <4>2
    <3>2. Len(pattern) + 1 <= (Len(pattern) + 1) * (Len(text) + 1)
      BY <1>0, PaceBounded
    <3>3. (Len(pattern) + 1) * (Len(text) + 1) \in Nat
      BY <1>0
    <3>4. turns' <= (Len(pattern) + 1) * (Len(text) + 1)
      BY <1>0, <1>t, <3>1, <3>2, <3>3
    <3>. QED
      BY <1>0, <3>4 DEF TurnsBounded
  <2>2. CASE star' # <<>>
    <3>1. star'[2] \in 1..(Len(text) + 1)
      BY <1>0, <1>g, <2>2 DEF Level
    <3>2. /\ turns' < (star'[2] - 1) * (Len(pattern) + 1) + p'
          /\ p' <= Len(pattern) + 1 /\ p' \in Nat
      BY <1>0, <1>g, <2>2 DEF Paced, Rows
    <3>3. (star'[2] - 1) * (Len(pattern) + 1) + Len(pattern)
            <= (Len(pattern) + 1) * (Len(text) + 1)
      BY <1>0, <3>1, PaceBounded
    <3>4. /\ (star'[2] - 1) * (Len(pattern) + 1) \in Nat
          /\ (Len(pattern) + 1) * (Len(text) + 1) \in Nat
      BY <1>0, <3>1
    <3>5. turns' <= (Len(pattern) + 1) * (Len(text) + 1)
      BY <1>0, <1>t, <3>2, <3>3, <3>4
    <3>. QED
      BY <1>0, <3>5 DEF TurnsBounded
  <2>. QED
    BY <2>1, <2>2
<1>1. ASSUME Level', Undecided', Later', Paced', result' = "running",
             p' \in Rows, t' \in 1..(Len(text) + 1)
      PROVE  IInv'
  <2>1. TurnsBounded'
    BY <1>1, <1>g
  <2>2. TypeOK'
    BY <1>0, <1>1 DEF TypeOK, Level, Rows
  <2>. QED
    BY <1>0, <1>1, <1>t, <2>1, <2>2 DEF IInv, AsEverySplit
<1>2. CASE Star
  <2>1. Level' /\ Undecided' /\ Later' /\ Paced'
    BY <1>2, <1>h, StarStep DEF Star
  <2>2. result' = "running" /\ p' \in Rows /\ t' \in 1..(Len(text) + 1)
    BY <1>0, <1>2, <1>h DEF Star, Looping, Here, Rows
  <2>. QED
    BY <1>1, <2>1, <2>2
<1>3. CASE Byte
  <2>1. Level' /\ Undecided' /\ Later' /\ Paced'
    BY <1>3, <1>h, ByteStep DEF Byte
  <2>2. result' = "running" /\ p' \in Rows /\ t' \in 1..(Len(text) + 1)
    BY <1>0, <1>3, <1>h DEF Byte, Fits, Looping, Here, Rows
  <2>. QED
    BY <1>1, <2>1, <2>2
<1>4. CASE Backtrack /\ star # <<>>
  <2>1. Level' /\ Undecided' /\ Later' /\ Paced'
    BY <1>4, <1>h, BacktrackStep DEF Backtrack
  <2>2. result' = "running" /\ p' \in Rows /\ t' \in 1..(Len(text) + 1)
    <3>1. /\ Here /\ p' = star[1] + 1 /\ t' = star[2] + 1 /\ result' = result
      BY <1>4, <1>h DEF Backtrack, Resume
    <3>2. star[1] \in 1..Len(pattern) /\ star[2] \in 1..t /\ t \in 1..Len(text) /\ result = "running"
      BY <1>4, <3>1 DEF Here, Level
    <3>. QED
      BY <1>0, <3>1, <3>2 DEF Rows
  <2>. QED
    BY <1>1, <2>1, <2>2
<1>5. CASE Backtrack /\ star = <<>>
  <2>1. /\ result' = "no" /\ UNCHANGED <<p, t, star>> /\ turns' = turns + 1 /\ Here
        /\ t \notin MatchFrom[p]
    BY <1>5, <1>h, StuckNoMatch DEF Backtrack, Turn
  <2>2. ~(1 \in MatchFrom[1])
    BY <1>5, <2>1 DEF Here, Undecided
  <2>3. AsEverySplit'
    BY <1>m, <2>1, <2>2 DEF AsEverySplit, Match
  <2>4. TypeOK'
    BY <1>0, <2>1 DEF TypeOK, IInv
  <2>5. TurnsBounded'
    <3>1. turns + 1 <= Len(pattern) + 1
      BY <1>5, <2>1 DEF Here, Paced, Rows
    <3>2. /\ Len(pattern) + 1 <= (Len(pattern) + 1) * (Len(text) + 1)
          /\ (Len(pattern) + 1) * (Len(text) + 1) \in Nat
      BY <1>0, PaceBounded
    <3>. QED
      BY <1>0, <1>t, <2>1, <3>1, <3>2 DEF TurnsBounded
  <2>. QED
    BY <1>0, <1>t, <2>1, <2>3, <2>4, <2>5 DEF IInv
<1>6. CASE Finish
  <2>1. /\ t = Len(text) + 1 /\ p \in Rows /\ result = "running"
        /\ UNCHANGED <<p, t, star, turns>>
        /\ result' = IF RestStars THEN "yes" ELSE "no"
    BY <1>0, <1>6 DEF Finish, IInv, TypeOK, Rows
  <2>2. RestStars <=> t \in MatchFrom[p]
    BY <2>1, StarsMatchNothing DEF RestStars, IInv
  <2>3. ASSUME star # <<>>, NEW j \in (star[2] + 1)..(Len(text) + 1)
        PROVE  j \notin MatchFrom[star[1] + 1]
    <3>1. star[2] \in 1..t /\ (j \in MatchFrom[star[1] + 1] => j + (t - star[2]) \in MatchFrom[p])
      BY <2>1, <2>3 DEF IInv, Level, Later
    <3>2. j + (t - star[2]) \notin Columns
      BY <1>0, <2>1, <3>1 DEF Columns
    <3>. QED
      BY <2>1, <3>1, <3>2, MatchFacts DEF IInv
  <2>4. 1 \in MatchFrom[1] <=> t \in MatchFrom[p]
    BY <2>1, <2>3 DEF IInv, Undecided
  <2>5. AsEverySplit'
    BY <1>m, <2>1, <2>2, <2>4 DEF AsEverySplit, Match
  <2>6. TypeOK' /\ TurnsBounded'
    BY <1>0, <2>1 DEF IInv, TypeOK, TurnsBounded
  <2>. QED
    BY <1>0, <1>t, <2>1, <2>5, <2>6 DEF IInv
<1>7. CASE UNCHANGED vars
  BY <1>7, <1>m
  DEF vars, IInv, Inputs, TypeOK, Level, Undecided, Later, Paced, AsEverySplit, Match,
      TurnsBounded
<1>. QED
  BY <1>2, <1>3, <1>4, <1>5, <1>6, <1>7 DEF Next

\* matches_bytes returns what trying every run of every `*' would find, for every pattern and
\* every text, within as many turns as the product of their lengths allows.
THEOREM WildcardMatches == Spec => []MatchesAsEverySplit
<1>1. IInv => MatchesAsEverySplit
  BY DEF IInv, MatchesAsEverySplit
<1>. QED
  BY <1>1, InitIInv, StepIInv, PTL DEF Spec

=============================================================================
