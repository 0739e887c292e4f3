---------------------------- MODULE PlannerProofs ----------------------------
(***************************************************************************)
(* Proofs about Planner, for any inventory and any policies: the loops of  *)
(* Plan, by an inductive invariant, and the loop over the characters of a  *)
(* server name, by induction over its turns.                               *)
(***************************************************************************)
EXTENDS Planner, WellFoundedInduction, TLAPS

-----------------------------------------------------------------------------
\* Induction and recursion.

\* A set of numbers that is not empty has a least one.
LEMMA LeastNumber ==
  ASSUME NEW S \in SUBSET Nat, S # {}
  PROVE  \E l \in S : \A j \in S : ~(j < l)
<1>1. \E l \in S : \A j \in S : ~(<<j, l>> \in OpToRel(<, Nat))
  BY WFMin, NatLessThanWellFounded, Zenon
<1>2. \A j, l \in Nat : <<j, l>> \in OpToRel(<, Nat) <=> j < l
  BY DEF OpToRel
<1> QED
  BY <1>1, <1>2, Zenon

\* Induction over the natural numbers, on the set of numbers that have the
\* property.
LEMMA InductionOnSet ==
  ASSUME NEW T \in SUBSET Nat, 0 \in T, \A n \in T : n + 1 \in T
  PROVE  \A n \in Nat : n \in T
<1> SUFFICES ASSUME Nat \ T # {} PROVE FALSE
  OBVIOUS
<1>1. PICK l \in Nat \ T : \A j \in Nat \ T : ~(j < l)
  BY LeastNumber, Zenon
<1>2. l \in Nat /\ l # 0 /\ l - 1 \in Nat /\ l - 1 < l
  BY <1>1
<1>3. l - 1 \in T
  BY <1>1, <1>2, Zenon
<1>4. (l - 1) + 1 \in T
  BY <1>3, Zenon
<1> QED
  BY <1>1, <1>2, <1>4

\* f is the state, a member of X, after each of n turns of a loop over s.
Turns(n, s, X, first, g, f) ==
    f \in [0..n -> X] /\ f[0] = first /\ \A m \in 1..n : f[m] = g[f[m - 1]][s[m]]

\* A loop over the elements of a sequence has a state after each turn: the
\* recursive function of that state exists.
LEMMA LoopExists ==
  ASSUME NEW C, NEW X, NEW s \in Seq(C), NEW first \in X, NEW g \in [X -> [C -> X]]
  PROVE  \E f : Turns(Len(s), s, X, first, g, f)
<1> DEFINE T == {n \in Nat : n <= Len(s) => \E f : Turns(n, s, X, first, g, f)}
<1>1. 0 \in T
  <2>1. Turns(0, s, X, first, g, [m \in 0..0 |-> first])
    BY DEF Turns
  <2> QED
    BY <2>1
<1>2. ASSUME NEW n \in T PROVE n + 1 \in T
  <2> SUFFICES ASSUME n + 1 <= Len(s) PROVE \E f : Turns(n + 1, s, X, first, g, f)
    OBVIOUS
  <2>1. n \in Nat /\ n <= Len(s)
    OBVIOUS
  <2>2. PICK f : Turns(n, s, X, first, g, f)
    BY <2>1, Zenon
  <2> DEFINE h == [m \in 0..(n + 1) |-> IF m = n + 1 THEN g[f[n]][s[n + 1]] ELSE f[m]]
  <2>3. n \in 0..n /\ s[n + 1] \in C /\ f[n] \in X
    BY <2>1, <2>2 DEF Turns
  <2>4. g[f[n]][s[n + 1]] \in X
    BY <2>3
  <2>5. h \in [0..(n + 1) -> X]
    BY <2>1, <2>2, <2>4 DEF Turns
  <2>6. \A m \in 0..n : h[m] = f[m]
    BY <2>1
  <2>7. h[n + 1] = g[f[n]][s[n + 1]]
    BY <2>1
  <2> HIDE DEF h
  <2>8. h[0] = first
    <3>1. 0 \in 0..n
      BY <2>1
    <3>2. f[0] = first
      BY <2>2, <3>1, Zenon DEF Turns
    <3> QED
      BY <2>6, <3>1, <3>2, Zenon
  <2>9. ASSUME NEW m \in 1..(n + 1) PROVE h[m] = g[h[m - 1]][s[m]]
    <3>1. m - 1 \in 0..n
      BY <2>1
    <3>2. h[m - 1] = f[m - 1]
      BY <2>6, <3>1
    <3>3. CASE m = n + 1
      BY <2>1, <2>7, <3>2, <3>3
    <3>4. CASE m # n + 1
      <4>1. m \in 1..n /\ m \in 0..n
        BY <2>1, <3>4
      <4> QED
        BY <2>2, <2>6, <3>2, <4>1, Zenon DEF Turns
    <3> QED
      BY <3>3, <3>4
  <2>10. Turns(n + 1, s, X, first, g, h)
    BY <2>5, <2>8, <2>9, Zenon DEF Turns
  <2> QED
    BY <2>10, Zenon
<1>3. Len(s) \in Nat /\ T \in SUBSET Nat
  OBVIOUS
<1>4. Len(s) \in T
  <2> HIDE DEF T
  <2> QED
    BY <1>1, <1>2, <1>3, InductionOnSet, Zenon
<1> QED
  BY <1>3, <1>4

\* What each turn of a loop preserves holds after each turn.
LEMMA LoopStays ==
  ASSUME NEW X, NEW l \in Nat, NEW f, f[0] \in X,
         \A n \in 1..l : f[n - 1] \in X => f[n] \in X
  PROVE  \A n \in 0..l : f[n] \in X
<1> DEFINE T == {n \in Nat : n <= l => f[n] \in X}
<1>1. 0 \in T
  OBVIOUS
<1>2. ASSUME NEW n \in T PROVE n + 1 \in T
  <2> SUFFICES ASSUME n + 1 <= l PROVE f[n + 1] \in X
    OBVIOUS
  <2>1. n + 1 \in 1..l /\ (n + 1) - 1 = n /\ f[n] \in X
    OBVIOUS
  <2> QED
    BY <2>1
<1>3. T \in SUBSET Nat
  OBVIOUS
<1>4. \A n \in Nat : n \in T
  <2> HIDE DEF T
  <2> QED
    BY <1>1, <1>2, <1>3, InductionOnSet
<1> QED
  BY <1>4

-----------------------------------------------------------------------------
\* Hostnames.

\* A turn of either loop over characters yields a sequence of characters.
LEMMA TurnType ==
  ASSUME NEW s \in Seq(Char), NEW ch \in Char
  PROVE  Build(s, ch) \in Seq(Char) /\ Keep(s, ch) \in Seq(Char) /\ Lower(ch) \in Char
<1>1. Lower(ch) \in Char /\ "-" \in Char
  BY Zenon DEF Lower, Char
<1>2. \A x \in Char : Append(s, x) \in Seq(Char)
  OBVIOUS
<1> QED
  BY <1>1, <1>2, Zenon DEF Build, Keep

\* What NormalizeLabel has built after each turn of its loop.
LEMMA BuildTurns ==
  ASSUME NEW value \in Seq(Char)
  PROVE  \E b \in [0..Len(value) -> Seq(Char)] :
            /\ b[0] = << >>
            /\ \A n \in 1..Len(value) : b[n] = Build(b[n - 1], value[n])
            /\ NormalizeLabel(value) = TrimHyphen(b[Len(value)])
<1> DEFINE g == [x \in Seq(Char) |-> [ch \in Char |-> Build(x, ch)]]
           P(f) == f = [n \in 0..Len(value) |-> IF n = 0 THEN << >> ELSE Build(f[n - 1], value[n])]
           b == CHOOSE f : P(f)
<1>1. g \in [Seq(Char) -> [Char -> Seq(Char)]]
  <2>1. \A x \in Seq(Char), ch \in Char : Build(x, ch) \in Seq(Char)
    BY TurnType
  <2> QED
    BY <2>1, Zenon
<1>2. << >> \in Seq(Char) /\ Len(value) \in Nat
  OBVIOUS
<1>3. PICK f : Turns(Len(value), value, Seq(Char), << >>, g, f)
  <2> HIDE DEF g
  <2> QED
    BY <1>1, <1>2, LoopExists, Zenon
<1>4. \A x \in Seq(Char), ch \in Char : g[x][ch] = Build(x, ch)
  OBVIOUS
<1>5. \A n \in 0..Len(value) : n # 0 => n \in 1..Len(value) /\ f[n - 1] \in Seq(Char) /\ value[n] \in Char
  BY <1>2, <1>3, SMTT(60) DEF Turns
<1> HIDE DEF g
<1>6. \A n \in 0..Len(value) : f[n] = IF n = 0 THEN << >> ELSE Build(f[n - 1], value[n])
  BY <1>3, <1>4, <1>5, Zenon DEF Turns
<1>7. P(b)
  <2>1. P(f)
    BY <1>3, <1>6, Zenon DEF Turns
  <2> QED
    BY <2>1, Zenon
<1>8. NormalizeLabel(value) = TrimHyphen(b[Len(value)])
  BY DEF NormalizeLabel
<1> HIDE DEF b
<1>9. b[0] = << >> /\ \A n \in 1..Len(value) : b[n] = Build(b[n - 1], value[n])
  BY <1>2, <1>7
<1>10. \A n \in 1..Len(value) : b[n - 1] \in Seq(Char) => b[n] \in Seq(Char)
  <2>1. \A n \in 1..Len(value) : value[n] \in Char
    OBVIOUS
  <2> QED
    BY <1>9, <2>1, TurnType, Zenon
<1>11. \A n \in 0..Len(value) : b[n] \in Seq(Char)
  BY <1>2, <1>9, <1>10, LoopStays, Zenon
<1>12. b \in [0..Len(value) -> Seq(Char)]
  BY <1>7, <1>11, Zenon
<1> QED
  BY <1>8, <1>9, <1>12

\* What Letters has kept after each turn of its loop.
LEMMA LetterTurns ==
  ASSUME NEW value \in Seq(Char)
  PROVE  \E k \in [0..Len(value) -> Seq(Char)] :
            /\ k[0] = << >>
            /\ \A n \in 1..Len(value) : k[n] = Keep(k[n - 1], value[n])
            /\ Letters(value) = k[Len(value)]
<1> DEFINE g == [x \in Seq(Char) |-> [ch \in Char |-> Keep(x, ch)]]
           P(f) == f = [n \in 0..Len(value) |-> IF n = 0 THEN << >> ELSE Keep(f[n - 1], value[n])]
           k == CHOOSE f : P(f)
<1>1. g \in [Seq(Char) -> [Char -> Seq(Char)]]
  <2>1. \A x \in Seq(Char), ch \in Char : Keep(x, ch) \in Seq(Char)
    BY TurnType
  <2> QED
    BY <2>1, Zenon
<1>2. << >> \in Seq(Char) /\ Len(value) \in Nat
  OBVIOUS
<1>3. PICK f : Turns(Len(value), value, Seq(Char), << >>, g, f)
  <2> HIDE DEF g
  <2> QED
    BY <1>1, <1>2, LoopExists, Zenon
<1>4. \A x \in Seq(Char), ch \in Char : g[x][ch] = Keep(x, ch)
  OBVIOUS
<1>5. \A n \in 0..Len(value) : n # 0 => n \in 1..Len(value) /\ f[n - 1] \in Seq(Char) /\ value[n] \in Char
  BY <1>2, <1>3 DEF Turns
<1> HIDE DEF g
<1>6. \A n \in 0..Len(value) : f[n] = IF n = 0 THEN << >> ELSE Keep(f[n - 1], value[n])
  BY <1>3, <1>4, <1>5, Zenon DEF Turns
<1>7. P(k)
  <2>1. P(f)
    BY <1>3, <1>6, Zenon DEF Turns
  <2> QED
    BY <2>1, Zenon
<1>8. Letters(value) = k[Len(value)]
  BY DEF Letters
<1> HIDE DEF k
<1>9. k[0] = << >> /\ \A n \in 1..Len(value) : k[n] = Keep(k[n - 1], value[n])
  BY <1>2, <1>7
<1>10. \A n \in 1..Len(value) : k[n - 1] \in Seq(Char) => k[n] \in Seq(Char)
  <2>1. \A n \in 1..Len(value) : value[n] \in Char
    OBVIOUS
  <2> QED
    BY <1>9, <2>1, TurnType, Zenon
<1>11. \A n \in 0..Len(value) : k[n] \in Seq(Char)
  BY <1>2, <1>9, <1>10, LoopStays, Zenon
<1>12. k \in [0..Len(value) -> Seq(Char)]
  BY <1>7, <1>11, Zenon
<1> QED
  BY <1>8, <1>9, <1>12, SMTT(60)

\* Letters goes from left to right.
LEMMA LettersOfAppend ==
  ASSUME NEW s \in Seq(Char), NEW ch \in Char
  PROVE  Letters(Append(s, ch)) = Keep(Letters(s), ch)
<1> DEFINE t == Append(s, ch)
<1>1. t \in Seq(Char) /\ Len(t) = Len(s) + 1 /\ Len(s) \in Nat
      /\ t[Len(s) + 1] = ch /\ \A n \in 1..Len(s) : t[n] = s[n]
  OBVIOUS
<1> HIDE DEF t
<1>2. PICK k \in [0..Len(s) -> Seq(Char)] :
        /\ k[0] = << >>
        /\ \A n \in 1..Len(s) : k[n] = Keep(k[n - 1], s[n])
        /\ Letters(s) = k[Len(s)]
  BY LetterTurns
<1>3. PICK l \in [0..Len(t) -> Seq(Char)] :
        /\ l[0] = << >>
        /\ \A n \in 1..Len(t) : l[n] = Keep(l[n - 1], t[n])
        /\ Letters(t) = l[Len(t)]
  BY <1>1, LetterTurns, Zenon
<1>4. \A n \in 0..Len(s) : l[n] = k[n]
  <2> DEFINE T == {n \in Nat : n <= Len(s) => l[n] = k[n]}
  <2>1. 0 \in T
    BY <1>2, <1>3
  <2>2. ASSUME NEW n \in T PROVE n + 1 \in T
    <3> SUFFICES ASSUME n + 1 <= Len(s) PROVE l[n + 1] = k[n + 1]
      OBVIOUS
    <3>1. n + 1 \in 1..Len(s) /\ n + 1 \in 1..Len(t) /\ (n + 1) - 1 = n /\ l[n] = k[n]
      BY <1>1
    <3>2. l[n + 1] = Keep(l[n], t[n + 1]) /\ k[n + 1] = Keep(k[n], s[n + 1])
      BY <1>2, <1>3, <3>1
    <3> QED
      BY <1>1, <3>1, <3>2
  <2>3. T \in SUBSET Nat
    OBVIOUS
  <2>4. \A n \in Nat : n \in T
    <3> HIDE DEF T
    <3> QED
      BY <2>1, <2>2, <2>3, InductionOnSet, Zenon
  <2> QED
    BY <2>4, <1>1
<1>5. Len(t) \in 1..Len(t) /\ Len(t) - 1 = Len(s) /\ Len(s) \in 0..Len(s)
  BY <1>1
<1>6. l[Len(t)] = Keep(l[Len(s)], ch)
  BY <1>1, <1>3, <1>5, Zenon
<1>7. Letters(t) = Keep(Letters(s), ch)
  BY <1>2, <1>3, <1>4, <1>5, <1>6, Zenon
<1> QED
  BY <1>7 DEF t

\* What the builder never holds: another character, a leading hyphen or two
\* hyphens in a row.
Clean(s) ==
    /\ \A i \in DOMAIN s : s[i] \in Alphanumeric \cup {"-"}
    /\ s # << >> => s[1] # "-"
    /\ \A i \in 1..(Len(s) - 1) : s[i] = "-" => s[i + 1] # "-"

\* Appending a letter or digit, or a hyphen after one, keeps it clean.
LEMMA AppendClean ==
  ASSUME NEW s \in Seq(Char), Clean(s), NEW ch \in Alphanumeric \cup {"-"},
         ch = "-" => s # << >> /\ s[Len(s)] # "-"
  PROVE  Clean(Append(s, ch))
<1> DEFINE t == Append(s, ch)
<1>1. /\ DOMAIN t = 1..Len(t) /\ Len(t) = Len(s) + 1 /\ Len(s) \in Nat
      /\ t[Len(s) + 1] = ch /\ \A n \in 1..Len(s) : t[n] = s[n]
      /\ DOMAIN s = 1..Len(s) /\ (s = << >> <=> Len(s) = 0) /\ t # << >>
  OBVIOUS
<1>2. "-" \notin Alphanumeric
  BY DEF Alphanumeric
<1> HIDE DEF t
<1>3. \A i \in DOMAIN t : t[i] \in Alphanumeric \cup {"-"}
  BY <1>1 DEF Clean
<1>4. t[1] # "-"
  <2>1. CASE s = << >>
    BY <1>1, <1>2, <2>1
  <2>2. CASE s # << >>
    BY <1>1, <2>2 DEF Clean
  <2> QED
    BY <2>1, <2>2
<1>5. ASSUME NEW i \in 1..(Len(t) - 1), t[i] = "-" PROVE t[i + 1] # "-"
  <2>1. CASE i = Len(s)
    BY <1>1, <1>2, <1>5, <2>1
  <2>2. CASE i # Len(s)
    <3>1. i \in 1..(Len(s) - 1) /\ i \in 1..Len(s) /\ i + 1 \in 1..Len(s)
      <4>1. Len(t) - 1 = Len(s) /\ Len(s) \in Nat
        BY <1>1
      <4>2. i \in 1..Len(s)
        BY <4>1
      <4> QED
        BY <4>1, <4>2, <2>2
    <3> QED
      BY <1>1, <1>5, <3>1 DEF Clean
  <2> QED
    BY <2>1, <2>2
<1>6. Clean(t)
  BY <1>3, <1>4, <1>5 DEF Clean
<1> QED
  BY <1>6 DEF t

\* A turn of the loop of normalizeHostnameLabel keeps the builder clean and adds
\* the character if it is a letter or a digit.
LEMMA BuildIsClean ==
  ASSUME NEW s \in Seq(Char), Clean(s), NEW ch \in Char
  PROVE  /\ Clean(Build(s, ch))
         /\ Letters(Build(s, ch)) = Keep(Letters(s), Lower(ch))
<1>1. Lower(ch) \in Char /\ "-" \in Char /\ "-" \notin Alphanumeric
  BY Zenon DEF Lower, Char, Alphanumeric
<1>2. CASE Lower(ch) \in Alphanumeric
  <2>1. Build(s, ch) = Append(s, Lower(ch))
    BY <1>2, Zenon DEF Build
  <2> QED
    BY <1>1, <1>2, <2>1, AppendClean, LettersOfAppend
<1>3. CASE Lower(ch) \notin Alphanumeric /\ ch \in {"-", "_"} /\ s # << >> /\ s[Len(s)] # "-"
  <2>1. Build(s, ch) = Append(s, "-")
    BY <1>3, Zenon DEF Build
  <2>2. s[Len(s)] # "-"
    BY <1>3, Zenon
  <2>3. Clean(Append(s, "-"))
    BY <1>1, <1>3, <2>2, AppendClean, Zenon
  <2>4. Letters(Append(s, "-")) = Letters(s)
    BY <1>1, LettersOfAppend DEF Keep
  <2>5. Keep(Letters(s), Lower(ch)) = Letters(s)
    BY <1>3, Zenon DEF Keep
  <2> QED
    BY <2>1, <2>3, <2>4, <2>5
<1>4. CASE Lower(ch) \notin Alphanumeric /\ ~(ch \in {"-", "_"} /\ s # << >> /\ s[Len(s)] # "-")
  <2>1. Build(s, ch) = s
    BY <1>4, Zenon DEF Build
  <2>2. Keep(Letters(s), Lower(ch)) = Letters(s)
    BY <1>4, Zenon DEF Keep
  <2> QED
    BY <2>1, <2>2
<1> QED
  BY <1>2, <1>3, <1>4, Zenon

\* A value that ends in a hyphen, and the value without it.
LEMMA FrontAppend ==
  ASSUME NEW s \in Seq(Char), s # << >>, s[Len(s)] = "-"
  PROVE  LET front == SubSeq(s, 1, Len(s) - 1)
         IN  /\ front \in Seq(Char) /\ Len(front) = Len(s) - 1
             /\ \A i \in 1..(Len(s) - 1) : front[i] = s[i]
             /\ s = Append(front, "-")
<1>1. Len(s) \in Nat \ {0} /\ s[Len(s)] = "-" /\ "-" \in Char
  <2>1. "-" \in Char
    BY Zenon DEF Char
  <2>2. Len(s) \in Nat \ {0}
    OBVIOUS
  <2>3. s[Len(s)] = "-"
    OBVIOUS
  <2> QED
    BY <2>1, <2>2, <2>3
<1> DEFINE front == SubSeq(s, 1, Len(s) - 1)
<1>2. front \in Seq(Char) /\ Len(front) = Len(s) - 1
  <2>1. Len(s) - 1 \in Nat /\ Len(s) - 1 <= Len(s) /\ \A i \in 1..(Len(s) - 1) : s[i] \in Char
    BY <1>1
  <2>2. SubSeq(s, 1, Len(s) - 1) = [i \in 1..(Len(s) - 1) |-> s[i]]
    BY <1>1, <2>1
  <2>3. ASSUME NEW m \in Nat, NEW f \in [1..m -> Char] PROVE f \in Seq(Char) /\ Len(f) = m
    OBVIOUS
  <2>4. [i \in 1..(Len(s) - 1) |-> s[i]] \in [1..(Len(s) - 1) -> Char]
    BY <2>1, Zenon
  <2> QED
    BY <2>1, <2>2, <2>3, <2>4, Zenon
<1>3. \A i \in 1..(Len(s) - 1) : front[i] = s[i]
  BY <1>1
<1>4. s = Append(front, "-")
  <2> DEFINE t == Append(front, "-")
  <2>1. t \in Seq(Char) /\ Len(t) = Len(s) /\ t[Len(s)] = "-"
    BY <1>1, <1>2
  <2>2. \A i \in 1..(Len(s) - 1) : t[i] = s[i]
    BY <1>1, <1>2, <1>3
  <2>3. \A i \in 1..Len(s) : t[i] = s[i]
    <3>1. \A i \in 1..Len(s) : i = Len(s) \/ i \in 1..(Len(s) - 1)
      BY <1>1
    <3> QED
      BY <1>1, <2>1, <2>2, <3>1, Zenon
  <2> HIDE DEF t
  <2>4. s = t
    BY <2>1, <2>3
  <2> QED
    BY <2>4 DEF t
<1> QED
  BY <1>2, <1>3, <1>4

\* strings.Trim takes the one hyphen that can be left and nothing else.
LEMMA TrimIsClean ==
  ASSUME NEW s \in Seq(Char), Clean(s)
  PROVE  /\ TrimHyphen(s) \in Seq(Char) /\ Clean(TrimHyphen(s))
         /\ Letters(TrimHyphen(s)) = Letters(s)
         /\ TrimHyphen(s) # << >> => TrimHyphen(s)[Len(TrimHyphen(s))] # "-"
<1>1. CASE ~(s # << >> /\ s[Len(s)] = "-")
  <2>1. TrimHyphen(s) = s
    BY <1>1, Zenon DEF TrimHyphen
  <2> QED
    BY <1>1, <2>1, Zenon
<1>2. CASE s # << >> /\ s[Len(s)] = "-"
  <2> DEFINE t == SubSeq(s, 1, Len(s) - 1)
  <2>1. TrimHyphen(s) = t
    BY <1>2, Zenon DEF TrimHyphen
  <2>2. /\ t \in Seq(Char) /\ Len(t) = Len(s) - 1 /\ s = Append(t, "-")
        /\ \A i \in 1..(Len(s) - 1) : t[i] = s[i]
    BY <1>2, FrontAppend
  <2> HIDE DEF t
  <2>3. /\ Len(s) \in Nat \ {0} /\ s[Len(s)] = "-" /\ DOMAIN s = 1..Len(s)
        /\ DOMAIN t = 1..Len(t) /\ (t = << >> <=> Len(t) = 0)
    BY <1>2, <2>2
  <2>4. Letters(t) = Letters(s)
    <3>1. "-" \in Char /\ "-" \notin Alphanumeric
      BY Zenon DEF Char, Alphanumeric
    <3>2. Letters(Append(t, "-")) = Keep(Letters(t), "-")
      BY <2>2, <3>1, LettersOfAppend
    <3> QED
      BY <2>2, <3>1, <3>2, Zenon DEF Keep
  <2>5. \A i \in DOMAIN t : i \in DOMAIN s /\ t[i] = s[i]
    BY <2>2, <2>3
  <2>6. t # << >> => /\ 1 \in DOMAIN t /\ Len(t) \in DOMAIN t /\ Len(t) \in 1..(Len(s) - 1)
                     /\ Len(t) + 1 = Len(s)
    BY <2>2, <2>3
  <2>7. t # << >> => t[1] # "-" /\ t[Len(t)] # "-"
    BY <1>2, <2>3, <2>5, <2>6 DEF Clean
  <2>8. ASSUME NEW i \in 1..(Len(t) - 1), t[i] = "-" PROVE t[i + 1] # "-"
    <3>1. i \in 1..(Len(s) - 1) /\ i \in DOMAIN t /\ i + 1 \in DOMAIN t
      BY <2>2, <2>3
    <3> QED
      BY <2>5, <2>8, <3>1 DEF Clean
  <2>9. Clean(t)
    BY <2>5, <2>7, <2>8 DEF Clean
  <2> QED
    BY <2>1, <2>2, <2>4, <2>7, <2>9
<1> QED
  BY <1>1, <1>2

\* buildHostname: a default hostname is clean, for a name of any length.
LEMMA LabelIsClean ==
  ASSUME NEW value \in Seq(Char)
  PROVE  /\ NormalizeLabel(value) \in Seq(Char) /\ Clean(NormalizeLabel(value))
         /\ Letters(NormalizeLabel(value)) = Letters(LowerAll(value))
         /\ NormalizeLabel(value) # << >> => NormalizeLabel(value)[Len(NormalizeLabel(value))] # "-"
<1> DEFINE low == LowerAll(value)
<1>1. low \in Seq(Char) /\ Len(low) = Len(value) /\ Len(value) \in Nat
      /\ \A n \in 1..Len(value) : value[n] \in Char /\ low[n] = Lower(value[n])
  <2>1. \A n \in 1..Len(value) : value[n] \in Char /\ Lower(value[n]) \in Char
    <3>1. \A ch \in Char : Lower(ch) \in Char
      BY Zenon DEF Lower, Char
    <3> QED
      BY <3>1
  <2> QED
    BY <2>1 DEF LowerAll
<1> HIDE DEF low
<1>2. PICK b \in [0..Len(value) -> Seq(Char)] :
        /\ b[0] = << >>
        /\ \A n \in 1..Len(value) : b[n] = Build(b[n - 1], value[n])
        /\ NormalizeLabel(value) = TrimHyphen(b[Len(value)])
  BY BuildTurns
<1>3. PICK k \in [0..Len(low) -> Seq(Char)] :
        /\ k[0] = << >>
        /\ \A n \in 1..Len(low) : k[n] = Keep(k[n - 1], low[n])
        /\ Letters(low) = k[Len(low)]
  BY <1>1, LetterTurns, SMTT(60)
<1>4. Clean(<< >>) /\ Letters(<< >>) = << >>
  <2>1. Clean(<< >>)
    BY DEF Clean
  <2>2. << >> \in Seq(Char) /\ Len(<< >>) = 0
    OBVIOUS
  <2>3. Letters(<< >>) = << >>
    BY <2>2, LetterTurns, Zenon
  <2> QED
    BY <2>1, <2>3
<1> DEFINE T == {n \in Nat : n <= Len(value) => Clean(b[n]) /\ Letters(b[n]) = k[n]}
<1>5. 0 \in T
  BY <1>2, <1>3, <1>4
<1>6. ASSUME NEW n \in T PROVE n + 1 \in T
  <2> SUFFICES ASSUME n + 1 <= Len(value)
               PROVE  Clean(b[n + 1]) /\ Letters(b[n + 1]) = k[n + 1]
    OBVIOUS
  <2>1. /\ n + 1 \in 1..Len(value) /\ n + 1 \in 1..Len(low) /\ (n + 1) - 1 = n /\ n \in 0..Len(value)
        /\ Clean(b[n]) /\ Letters(b[n]) = k[n]
    BY <1>1
  <2>2. b[n + 1] = Build(b[n], value[n + 1]) /\ k[n + 1] = Keep(k[n], low[n + 1])
    BY <1>2, <1>3, <2>1
  <2>3. b[n] \in Seq(Char) /\ value[n + 1] \in Char /\ low[n + 1] = Lower(value[n + 1])
    BY <1>1, <1>2, <2>1, Zenon
  <2> QED
    BY <2>1, <2>2, <2>3, BuildIsClean, Zenon
<1>7. T \in SUBSET Nat
  OBVIOUS
<1>8. Len(value) \in T
  <2> HIDE DEF T
  <2> QED
    BY <1>1, <1>5, <1>6, <1>7, InductionOnSet, Zenon
<1>9. /\ b[Len(value)] \in Seq(Char) /\ Clean(b[Len(value)])
      /\ Letters(b[Len(value)]) = Letters(low)
  BY <1>1, <1>2, <1>3, <1>8, SMTT(60)
<1> QED
  BY <1>2, <1>9, TrimIsClean, Zenon DEF low

\* A character that a clean value goes on with is added as it is.
LEMMA BuildOfClean ==
  ASSUME NEW s \in Seq(Char), Clean(s), NEW n \in Nat, n + 1 <= Len(s),
         NEW b \in Seq(Char), Len(b) = n, \A i \in 1..n : b[i] = s[i]
  PROVE  Build(b, s[n + 1]) = Append(b, s[n + 1])
<1> DEFINE ch == s[n + 1]
<1>1. ch \in Alphanumeric \cup {"-"}
  BY DEF Clean
<1>2. CASE ch \in Alphanumeric
  <2>1. Lower(ch) = ch
    BY <1>2 DEF Lower, Alphanumeric
  <2> HIDE DEF ch
  <2> QED
    BY <1>2, <2>1, Zenon DEF Build, ch
<1>3. CASE ch = "-"
  <2>1. Lower(ch) \notin Alphanumeric /\ ch \in {"-", "_"}
    BY <1>3 DEF Lower, Alphanumeric
  <2>2. n # 0
    <3>1. s # << >>
      OBVIOUS
    <3>2. s[1] # "-"
      BY <3>1, Zenon DEF Clean
    <3> QED
      BY <1>3, <3>2
  <2>3. n \in 1..(Len(s) - 1) /\ n \in 1..n
    BY <2>2
  <2>4. s[n] # "-"
    BY <1>3, <2>3, Zenon DEF Clean
  <2>5. b # << >> /\ b[Len(b)] # "-"
    <3>1. b # << >>
      BY <2>2
    <3>2. b[n] = s[n]
      BY <2>3, Zenon
    <3> QED
      BY <2>4, <3>1, <3>2, Zenon
  <2>6. Build(b, ch) = Append(b, "-")
    BY <2>1, <2>5, Zenon DEF Build
  <2> QED
    BY <1>3, <2>6, Zenon
<1> QED
  BY <1>1, <1>2, <1>3, Zenon

\* normalizeHostnameLabel leaves a value as it is that has the form of its results.
LEMMA CleanIsKept ==
  ASSUME NEW s \in Seq(Char), Clean(s), s # << >> => s[Len(s)] # "-"
  PROVE  NormalizeLabel(s) = s
<1>1. PICK b \in [0..Len(s) -> Seq(Char)] :
        /\ b[0] = << >>
        /\ \A n \in 1..Len(s) : b[n] = Build(b[n - 1], s[n])
        /\ NormalizeLabel(s) = TrimHyphen(b[Len(s)])
  BY BuildTurns
<1>2. Len(s) \in Nat
  OBVIOUS
<1> DEFINE Same(n) == Len(b[n]) = n /\ \A i \in 1..n : b[n][i] = s[i]
           T == {n \in Nat : n <= Len(s) => Same(n)}
<1>3. 0 \in T
  BY <1>1
<1>4. ASSUME NEW n \in T PROVE n + 1 \in T
  <2> SUFFICES ASSUME n + 1 <= Len(s) PROVE Same(n + 1)
    OBVIOUS
  <2>1. n \in Nat /\ n \in 0..Len(s) /\ n + 1 \in 1..Len(s) /\ (n + 1) - 1 = n /\ Same(n)
    BY <1>2
  <2>2. b[n] \in Seq(Char) /\ b[n + 1] = Build(b[n], s[n + 1])
    BY <1>1, <2>1, Zenon
  <2>3. b[n + 1] = Append(b[n], s[n + 1])
    BY <2>1, <2>2, BuildOfClean, Zenon
  <2>4. s[n + 1] \in Char
    BY <2>1
  <2>5. Len(b[n + 1]) = n + 1 /\ b[n + 1][n + 1] = s[n + 1]
    BY <2>1, <2>2, <2>3, <2>4
  <2>6. \A i \in 1..n : b[n + 1][i] = b[n][i]
    BY <2>1, <2>2, <2>3, <2>4
  <2>7. \A i \in 1..(n + 1) : i = n + 1 \/ i \in 1..n
    BY <2>1
  <2> QED
    BY <2>1, <2>5, <2>6, <2>7, Zenon
<1>5. T \in SUBSET Nat
  OBVIOUS
<1>6. Len(s) \in T
  <2> HIDE DEF T
  <2> QED
    BY <1>2, <1>3, <1>4, <1>5, InductionOnSet, Zenon
<1>7. b[Len(s)] \in Seq(Char) /\ Same(Len(s))
  BY <1>1, <1>2, <1>6
<1>8. ASSUME NEW t \in Seq(Char), Len(t) = Len(s), \A i \in 1..Len(s) : t[i] = s[i] PROVE t = s
  BY <1>8
<1>9. b[Len(s)] = s
  BY <1>7, <1>8, Zenon
<1> QED
  BY <1>1, <1>9, Zenon DEF TrimHyphen

\* isValidHostname refuses such a value for its length only.
LEMMA CleanIsValid ==
  ASSUME NEW s \in Seq(Char), Clean(s), s # << >>, s[Len(s)] # "-", Len(s) <= MaxLabel
  PROVE  IsValidHostname(LowerAll(s))
<1>1. \A i \in DOMAIN s : s[i] \in Alphanumeric \cup {"-"}
  BY Zenon DEF Clean
<1>2. \A ch \in Alphanumeric \cup {"-"} : Lower(ch) = ch
  BY DEF Lower, Alphanumeric
<1>3. LowerAll(s) = s
  <2>1. LowerAll(s) = [i \in DOMAIN s |-> s[i]]
    BY <1>1, <1>2, Zenon DEF LowerAll
  <2> QED
    BY <2>1
<1> QED
  BY <1>1, <1>3, Zenon DEF IsValidHostname, Clean

-----------------------------------------------------------------------------
\* The inputs of Plan.

\* A server of the inventory, and the hostnames it asks for.
LEMMA ServerType ==
  ASSUME TypeOK, NEW i \in DOMAIN servers
  PROVE  /\ servers[i] \in Server
         /\ Hostnames(servers[i]) \in Seq(Seq(Char)) /\ Len(Hostnames(servers[i])) \in Nat \ {0}
<1> DEFINE server == servers[i]
<1>1. server \in Server
  <2>1. servers \in Seq(Server)
    BY InputAssumption, Zenon DEF TypeOK
  <2> QED
    BY <2>1
<1>2. PolicyOf(server) # None => PolicyOf(server) \in Policy
  <2>1. policies \in [Uuid -> Policy \cup {None}]
    BY InputAssumption, Zenon DEF TypeOK
  <2>2. server.uuid # Blank => server.uuid \in Uuid
    BY <1>1 DEF Server
  <2> HIDE DEF server
  <2> QED
    BY <2>1, <2>2, Zenon DEF PolicyOf
<1>3. server.name \in Seq(Char) /\ server.identifier \in Seq(Char)
  BY <1>1 DEF Server
<1> HIDE DEF server
<1>4. BuildHostname(server) \in Seq(Char)
  BY <1>3, LabelIsClean, Zenon DEF BuildHostname
<1>5. PolicyOf(server) # None =>
        PolicyOf(server).primary \in Seq(Char) /\ PolicyOf(server).aliases \in Seq(Seq(Char))
  BY <1>2 DEF Policy
<1>6. Primary(server) \in Seq(Char)
  BY <1>4, <1>5, Zenon DEF Primary
<1>7. Aliases(server) \in Seq(Seq(Char))
  <2>1. << >> \in Seq(Seq(Char))
    OBVIOUS
  <2> QED
    BY <1>5, <2>1, Zenon DEF Aliases
<1>8. ASSUME NEW X, NEW x \in X, NEW s \in Seq(X)
      PROVE  <<x>> \o s \in Seq(X) /\ Len(<<x>> \o s) \in Nat \ {0}
  OBVIOUS
<1>9. Hostnames(server) \in Seq(Seq(Char)) /\ Len(Hostnames(server)) \in Nat \ {0}
  BY <1>6, <1>7, <1>8, Zenon DEF Hostnames
<1> QED
  BY <1>1, <1>9 DEF server

\* A hostname that is asked for is a sequence of characters.
LEMMA AskedType ==
  ASSUME TypeOK, NEW i \in DOMAIN servers, NEW k \in DOMAIN Hostnames(servers[i])
  PROVE  LowerAll(Hostnames(servers[i])[k]) \in Seq(Char)
<1>1. Hostnames(servers[i]) \in Seq(Seq(Char))
  BY ServerType
<1>2. ASSUME NEW hs \in Seq(Seq(Char)), NEW n \in DOMAIN hs PROVE hs[n] \in Seq(Char)
  OBVIOUS
<1>3. \A ch \in Char : Lower(ch) \in Char
  BY Zenon DEF Lower, Char
<1>4. ASSUME NEW value \in Seq(Char) PROVE LowerAll(value) \in Seq(Char)
  BY <1>3 DEF LowerAll
<1> QED
  BY <1>1, <1>2, <1>4, Zenon

\* Who asks for a hostname.
LEMMA WantedPairs ==
  /\ \A i, k : <<i, k>> \in Wanted <=>
        /\ i \in DOMAIN servers /\ ~servers[i].suspended /\ ~Excluded(servers[i])
        /\ k \in DOMAIN Hostnames(servers[i])
  /\ \A w \in Wanted : w = <<w[1], w[2]>>
<1>1. ASSUME NEW i, NEW k
      PROVE  <<i, k>> \in Wanted <=>
               /\ i \in DOMAIN servers /\ ~servers[i].suspended /\ ~Excluded(servers[i])
               /\ k \in DOMAIN Hostnames(servers[i])
  BY DEF Wanted, Active
<1>2. ASSUME NEW w \in Wanted PROVE w = <<w[1], w[2]>>
  <2>1. PICK i, k : w = <<i, k>>
    BY Zenon DEF Wanted
  <2> QED
    BY <2>1
<1> QED
  BY <1>1, <1>2

\* While the inventory and the policies stay, so does all that is asked of Plan.
LEMMA SameInputs ==
  ASSUME UNCHANGED <<servers, policies>>
  PROVE  /\ Active' = Active /\ Wanted' = Wanted /\ (Acceptable' <=> Acceptable)
         /\ \A server : Unusable(server)' = Unusable(server)
         /\ \A server : Contradictory(server)' <=> Contradictory(server)
         /\ \A w : Asked(w)' = Asked(w) /\ RouteFor(w)' = RouteFor(w)
<1>1. servers' = servers /\ policies' = policies
  OBVIOUS
<1>2. \A server : PolicyOf(server)' = PolicyOf(server)
  BY <1>1, Zenon DEF PolicyOf
<1>3. \A server : Primary(server)' = Primary(server) /\ Aliases(server)' = Aliases(server)
  BY <1>2, Zenon DEF Primary, Aliases
<1>4. \A server : Hostnames(server)' = Hostnames(server)
  BY <1>3, Zenon DEF Hostnames
<1>5. \A server : Excluded(server)' <=> Excluded(server)
  BY <1>2, Zenon DEF Excluded
<1>6. \A server : Contradictory(server)' <=> Contradictory(server)
  BY <1>2, <1>5, Zenon DEF Contradictory
<1>7. Active' = Active
  BY <1>1, Zenon DEF Active
<1>8. \A w : Asked(w)' = Asked(w)
  BY <1>1, <1>4, Zenon DEF Asked
<1>9. \A w : RouteFor(w)' = RouteFor(w)
  BY <1>1, <1>8, Zenon DEF RouteFor
<1>10. Wanted' = Wanted
  BY <1>1, <1>4, <1>5, <1>7 DEF Wanted
<1>11. Acceptable' <=> Acceptable
  BY <1>1, <1>6, <1>7, <1>8, <1>10, Zenon DEF Acceptable
<1> QED
  BY <1>6, <1>7, <1>8, <1>9, <1>10, <1>11

-----------------------------------------------------------------------------
\* The loops of Plan, one step per action.

\* Plan has not been called yet.
LEMMA InitInv == Init => IInv
<1> SUFFICES ASSUME Init PROVE IInv
  OBVIOUS
<1>1. phase = "idle" /\ turn = 1 /\ named = 0 /\ routes = << >>
  BY DEF Init
<1>2. TypeOK
  <2>1. servers \in Inventories /\ policies \in Books
    BY DEF Init
  <2>2. servers \in Seq(Server)
    BY <2>1, InputAssumption, Zenon
  <2>3. turn \in 1..(Len(servers) + 1) /\ named \in Nat /\ routes \in Seq(Route)
    BY <1>1, <2>2, SMTT(60)
  <2> QED
    BY <1>1, <2>1, <2>3 DEF TypeOK
<1> QED
  BY <1>1, <1>2 DEF IInv, PlanInv, AllOrNothing

\* The outcomes of Plan: what is rejected is not acceptable.
LEMMA RejectInv ==
  ASSUME IInv, Finish("rejected", << >>), ~Acceptable
  PROVE  IInv'
<1>1. /\ phase' = "rejected" /\ routes' = << >> /\ turn' = 1 /\ named' = 0
      /\ servers' = servers /\ policies' = policies
  BY DEF Finish
<1>2. ~Acceptable'
  BY <1>1, SameInputs
<1>3. TypeOK'
  <2>1. servers \in Seq(Server) /\ servers \in Inventories /\ policies \in Books
    BY InputAssumption, Zenon DEF IInv, TypeOK
  <2>2. turn' \in 1..(Len(servers') + 1) /\ named' \in Nat /\ routes' \in Seq(Route)
    BY <1>1, <2>1
  <2> QED
    BY <1>1, <2>1, <2>2 DEF TypeOK
<1> QED
  BY <1>1, <1>2, <1>3 DEF IInv, PlanInv, AllOrNothing

\* Service.Routes: nothing is handled before the first turn.
LEMMA RoutesInv == ASSUME IInv, Routes PROVE IInv'
<1>1. /\ phase = "idle" /\ phase' = "planning" /\ turn' = 1 /\ named' = 0 /\ routes' = << >>
      /\ servers' = servers /\ policies' = policies /\ turn = 1 /\ named = 0 /\ routes = << >>
  BY DEF IInv, Routes
<1>2. TypeOK'
  BY <1>1 DEF IInv, TypeOK
<1>3. HandledWanted' = {}
  <2> SUFFICES ASSUME NEW w \in Wanted', Handled(w)' PROVE FALSE
    BY Zenon DEF HandledWanted
  <2>1. Wanted' = Wanted /\ servers \in Seq(Server) /\ TypeOK
    BY <1>1, SameInputs, InputAssumption, Zenon DEF IInv, TypeOK
  <2>2. w = <<w[1], w[2]>>
    BY <2>1, WantedPairs, Zenon
  <2>3. w[1] \in DOMAIN servers /\ w[2] \in DOMAIN Hostnames(servers[w[1]])
    BY <2>1, <2>2, WantedPairs, Zenon
  <2>4. Hostnames(servers[w[1]]) \in Seq(Seq(Char))
    BY <2>1, <2>3, ServerType
  <2>5. w[1] \in Nat \ {0} /\ w[2] \in Nat \ {0}
    BY <2>1, <2>3, <2>4, SMTT(60)
  <2> QED
    BY <1>1, <2>5 DEF Handled
<1>4. Active' = Active /\ \A i \in Active : i \in Nat \ {0}
  <2>1. servers \in Seq(Server)
    BY InputAssumption, Zenon DEF IInv, TypeOK
  <2> QED
    BY <1>1, <2>1, SameInputs DEF Active
<1>5. {routes'[k] : k \in DOMAIN routes'} = {}
  BY <1>1
<1>6. {RouteFor(w)' : w \in HandledWanted'} = {}
  BY <1>3
<1>7. PlanInv'
  BY <1>1, <1>3, <1>4, <1>5, <1>6, SMTT(60) DEF PlanInv
<1> QED
  BY <1>1, <1>2, <1>7 DEF IInv, AllOrNothing

\* Planned: when the servers are exhausted, all that is wanted has been handled.
LEMMA PlannedInv == ASSUME IInv, Planned PROVE IInv'
<1>1. /\ phase = "planning" /\ phase' = "planned" /\ turn' = 1 /\ named' = 0 /\ routes' = routes
      /\ servers' = servers /\ policies' = policies /\ turn > Len(servers)
  BY DEF Planned, Finish
<1>2. TypeOK /\ PlanInv /\ servers \in Seq(Server) /\ turn \in Nat
  <2>1. TypeOK /\ PlanInv /\ servers \in Seq(Server)
    BY InputAssumption, Zenon DEF IInv, TypeOK
  <2> QED
    BY <2>1 DEF TypeOK
<1>3. TypeOK'
  <2>1. turn' \in 1..(Len(servers') + 1) /\ named' \in Nat
    BY <1>1, <1>2
  <2> QED
    BY <1>1, <1>2, <2>1 DEF TypeOK
<1>4. \A i \in DOMAIN servers : i < turn
  BY <1>1, <1>2
<1>5. HandledWanted = Wanted
  <2>1. \A w \in Wanted : w[1] \in DOMAIN servers
    BY WantedPairs, ZenonT(60)
  <2> QED
    BY <1>4, <2>1, Zenon DEF HandledWanted, Handled
<1>6. Acceptable
  <2>1. \A i \in Active : i < turn
    BY <1>4, Zenon DEF Active
  <2> QED
    BY <1>1, <1>2, <1>5, <2>1, Zenon DEF PlanInv, Acceptable
<1>7. Acceptable'
  BY <1>1, <1>6, SameInputs
<1>8. {routes'[k] : k \in DOMAIN routes'} = {RouteFor(w)' : w \in Wanted'}
  <2>1. {routes[k] : k \in DOMAIN routes} = {RouteFor(w) : w \in Wanted}
    BY <1>1, <1>2, <1>5, Zenon DEF PlanInv
  <2>2. {RouteFor(w)' : w \in Wanted'} = {RouteFor(w) : w \in Wanted}
    BY <1>1, SameInputs
  <2> QED
    BY <1>1, <2>1, <2>2, Zenon
<1>9. \A j, k \in DOMAIN routes' : routes'[j].hostname = routes'[k].hostname => j = k
  BY <1>1, <1>2, Zenon DEF PlanInv
<1>10. AllOrNothing'
  BY <1>1, <1>7, <1>8, <1>9, Zenon DEF AllOrNothing
<1> QED
  BY <1>1, <1>3, <1>10 DEF IInv, PlanInv

\* What the loops know at the start of a turn.
LEMMA PlanningFacts ==
  ASSUME IInv, Planning
  PROVE  /\ TypeOK /\ servers \in Seq(Server) /\ phase = "planning"
         /\ turn \in DOMAIN servers /\ turn \in Nat \ {0} /\ turn <= Len(servers) /\ named \in Nat
         /\ named # 0 => <<turn, named + 1>> \in Wanted
         /\ \A w \in Wanted : /\ w = <<w[1], w[2]>> /\ w[1] \in DOMAIN servers
                              /\ w[1] \in Nat \ {0} /\ w[2] \in Nat \ {0}
                              /\ w[2] \in 1..Len(Hostnames(servers[w[1]]))
<1>1. TypeOK /\ PlanInv /\ servers \in Seq(Server) /\ phase = "planning" /\ turn \in DOMAIN servers
  BY InputAssumption, Zenon DEF IInv, TypeOK, Planning
<1>2. turn \in Nat \ {0} /\ turn <= Len(servers) /\ named \in Nat
  <2>1. named \in Nat
    BY <1>1 DEF TypeOK
  <2> QED
    BY <1>1, <2>1
<1>3. named # 0 => <<turn, named + 1>> \in Wanted
  BY <1>1, Zenon DEF PlanInv
<1>4. ASSUME NEW w \in Wanted
      PROVE  /\ w = <<w[1], w[2]>> /\ w[1] \in DOMAIN servers
             /\ w[1] \in Nat \ {0} /\ w[2] \in Nat \ {0}
             /\ w[2] \in 1..Len(Hostnames(servers[w[1]]))
  <2>1. w = <<w[1], w[2]>>
    BY WantedPairs, Zenon
  <2>2. w[1] \in DOMAIN servers /\ w[2] \in DOMAIN Hostnames(servers[w[1]])
    BY <2>1, WantedPairs, Zenon
  <2>3. Hostnames(servers[w[1]]) \in Seq(Seq(Char))
    BY <1>1, <2>2, ServerType, SMTT(60)
  <2>4. w[1] \in Nat \ {0}
    BY <1>1, <2>2
  <2>5. w[2] \in Nat \ {0} /\ w[2] \in 1..Len(Hostnames(servers[w[1]]))
    BY <2>2, <2>3
  <2> QED
    BY <2>1, <2>2, <2>4, <2>5, Zenon
<1> QED
  BY <1>1, <1>2, <1>3, <1>4, Zenon

\* A server that is passed over asks for no hostname.
LEMMA SkipInv == ASSUME IInv, Skip PROVE IInv'
<1> DEFINE server == servers[turn]
<1>1. /\ Planning /\ turn' = turn + 1 /\ named' = named /\ routes' = routes /\ phase' = phase
      /\ servers' = servers /\ policies' = policies
  BY Zenon DEF Skip
<1>2. server.suspended \/ (~Unusable(server) /\ Excluded(server) /\ ~Contradictory(server))
  BY Zenon DEF Skip
<1>3. /\ TypeOK /\ servers \in Seq(Server) /\ phase = "planning"
      /\ turn \in DOMAIN servers /\ turn \in Nat \ {0} /\ turn <= Len(servers) /\ named \in Nat
  BY <1>1, PlanningFacts, Zenon
<1>4. ASSUME NEW w \in Wanted PROVE w[1] # turn
  <2>1. w = <<w[1], w[2]>>
    BY WantedPairs, Zenon
  <2>2. ~servers[w[1]].suspended /\ ~Excluded(servers[w[1]])
    BY <2>1, WantedPairs, Zenon
  <2> QED
    BY <1>2, <2>2, Zenon
<1>5. named = 0
  <2>1. named # 0 => <<turn, named + 1>> \in Wanted
    BY <1>1, PlanningFacts, Zenon
  <2>2. <<turn, named + 1>>[1] = turn
    OBVIOUS
  <2> QED
    BY <1>4, <2>1, <2>2, Zenon
<1>6. TypeOK'
  <2>1. turn' \in 1..(Len(servers') + 1)
    BY <1>1, <1>3
  <2> QED
    BY <1>1, <1>3, <2>1 DEF TypeOK
<1>7. HandledWanted' = HandledWanted
  <2>1. \A w \in Wanted : w[1] \in Nat \ {0} /\ w[2] \in Nat \ {0}
    BY <1>1, PlanningFacts, Zenon
  <2>2. \A w \in Wanted : Handled(w)' <=> Handled(w)
    BY <1>1, <1>3, <1>4, <1>5, <2>1 DEF Handled
  <2>3. Wanted' = Wanted
    BY <1>1, SameInputs, Zenon
  <2> QED
    BY <2>2, <2>3, Zenon DEF HandledWanted
<1>8. PlanInv /\ PlanInv'
  <2>1. PlanInv
    BY Zenon DEF IInv
  <2>2. ASSUME NEW i \in Active', i < turn' PROVE (~Unusable(servers[i]) /\ ~Contradictory(servers[i]))'
    <3>1. i \in Active /\ i \in Nat /\ ~servers[i].suspended /\ servers' = servers
      BY <1>1, <1>3, SameInputs DEF Active
    <3>2. i = turn \/ i < turn
      BY <1>1, <1>3, <2>2, <3>1
    <3>3. ~Unusable(servers[i]) /\ ~Contradictory(servers[i])
      BY <1>2, <1>3, <2>1, <3>1, <3>2, Zenon DEF PlanInv
    <3> QED
      BY <1>1, <3>3, SameInputs
  <2>3. \A w : Asked(w)' = Asked(w) /\ RouteFor(w)' = RouteFor(w)
    BY <1>1, SameInputs, Zenon
  <2>4. {RouteFor(w)' : w \in HandledWanted'} = {RouteFor(w) : w \in HandledWanted}
    BY <1>7, <2>3
  <2>5. \A w \in HandledWanted' : IsValidHostname(Asked(w)')
    BY <1>3, <1>7, <2>1, <2>3, Zenon DEF PlanInv
  <2>6. \A v, w \in HandledWanted' : Asked(v)' = Asked(w)' => v = w
    BY <1>3, <1>7, <2>1, <2>3, Zenon DEF PlanInv
  <2>7. {routes'[k] : k \in DOMAIN routes'} = {RouteFor(w)' : w \in HandledWanted'}
    BY <1>1, <1>3, <2>1, <2>4, ZenonT(60) DEF PlanInv
  <2>8. \A j, k \in DOMAIN routes' : routes'[j].hostname = routes'[k].hostname => j = k
    BY <1>1, <1>3, <2>1, Zenon DEF PlanInv
  <2>9. named' = 0
    BY <1>1, <1>5
  <2> QED
    BY <2>1, <2>2, <2>5, <2>6, <2>7, <2>8, <2>9, SMTT(60) DEF PlanInv
<1>9. phase' = "planning"
  BY <1>1, <1>3
<1> QED
  BY <1>6, <1>8, <1>9 DEF IInv, AllOrNothing

\* A server without a backend, or excluded and named, makes the whole unacceptable.
LEMMA RefuseInv == ASSUME IInv, Refuse PROVE IInv'
<1>1. /\ Planning /\ ~servers[turn].suspended /\ Finish("rejected", << >>)
      /\ Unusable(servers[turn]) \/ Contradictory(servers[turn])
  BY Zenon DEF Refuse
<1>2. turn \in Active
  BY <1>1, Zenon DEF Planning, Active
<1>3. ~Acceptable
  BY <1>1, <1>2, Zenon DEF Acceptable
<1> QED
  BY <1>1, <1>3, RejectInv, Zenon

\* The hostname that appendRoute gets next: it is wanted, and not handled yet.
LEMMA SlotFacts ==
  ASSUME IInv, Planning, ~servers[turn].suspended, ~Excluded(servers[turn])
  PROVE  LET w == <<turn, named + 1>>
         IN  /\ w \in Wanted /\ w \notin HandledWanted
             /\ named + 1 \in 1..Len(Hostnames(servers[turn]))
             /\ Asked(w) = LowerAll(Hostnames(servers[turn])[named + 1])
             /\ Asked(w) \in Seq(Char)
<1> DEFINE w == <<turn, named + 1>>
<1>1. /\ TypeOK /\ turn \in DOMAIN servers /\ turn \in Nat /\ named \in Nat
      /\ named # 0 => w \in Wanted
  BY PlanningFacts, Zenon
<1>2. /\ Hostnames(servers[turn]) \in Seq(Seq(Char))
      /\ Len(Hostnames(servers[turn])) \in Nat \ {0}
  BY <1>1, ServerType
<1>3. named + 1 \in DOMAIN Hostnames(servers[turn])
  <2>1. CASE named = 0
    BY <1>2, <2>1
  <2>2. CASE named # 0
    BY <1>1, <2>2, WantedPairs, Zenon
  <2> QED
    BY <2>1, <2>2
<1>4. named + 1 \in 1..Len(Hostnames(servers[turn]))
  BY <1>2, <1>3
<1>5. w \in Wanted
  BY <1>1, <1>3, WantedPairs, Zenon
<1>6. w[1] = turn /\ w[2] = named + 1
  OBVIOUS
<1>7. Asked(w) = LowerAll(Hostnames(servers[turn])[named + 1])
  BY <1>6, Zenon DEF Asked
<1>8. Asked(w) \in Seq(Char)
  BY <1>1, <1>3, <1>7, AskedType, Zenon
<1> HIDE DEF w
<1>9. w \notin HandledWanted
  BY <1>1, <1>6 DEF HandledWanted, Handled
<1> QED
  BY <1>4, <1>5, <1>7, <1>8, <1>9 DEF w

\* A hostname of the routes is that of a wanted one that has been handled.
LEMMA TakenIsHandled ==
  ASSUME IInv, phase = "planning", NEW hostname
  PROVE  Taken(hostname) <=> \E v \in HandledWanted : Asked(v) = hostname
<1>1. {routes[k] : k \in DOMAIN routes} = {RouteFor(w) : w \in HandledWanted}
  BY Zenon DEF IInv, PlanInv
<1>2. \A w : RouteFor(w).hostname = Asked(w)
  BY DEF RouteFor
<1>3. ASSUME NEW i \in DOMAIN routes, routes[i].hostname = hostname
      PROVE  \E v \in HandledWanted : Asked(v) = hostname
  <2>1. PICK v \in HandledWanted : routes[i] = RouteFor(v)
    BY <1>1, Zenon
  <2> QED
    BY <1>2, <1>3, <2>1, Zenon
<1>4. ASSUME NEW v \in HandledWanted, Asked(v) = hostname
      PROVE  \E i \in DOMAIN routes : routes[i].hostname = hostname
  <2>1. PICK i \in DOMAIN routes : routes[i] = RouteFor(v)
    BY <1>1, Zenon
  <2> QED
    BY <1>2, <1>4, <2>1, Zenon
<1> QED
  BY <1>3, <1>4, Zenon DEF Taken

\* An invalid hostname, or one that is taken, makes the whole unacceptable.
LEMMA AppendRejectInv ==
  ASSUME IInv, Planning, ~servers[turn].suspended, ~Excluded(servers[turn]),
         LET hostname == LowerAll(Hostnames(servers[turn])[named + 1])
         IN  ~(IsValidHostname(hostname) /\ ~Taken(hostname)),
         Finish("rejected", << >>)
  PROVE  IInv'
<1> DEFINE w == <<turn, named + 1>>
<1>1. w \in Wanted /\ w \notin HandledWanted /\ Asked(w) = LowerAll(Hostnames(servers[turn])[named + 1])
  BY SlotFacts, Zenon
<1> HIDE DEF w
<1>2. ~IsValidHostname(Asked(w)) \/ Taken(Asked(w))
  BY <1>1, Zenon
<1>3. Taken(Asked(w)) => \E v \in HandledWanted : Asked(v) = Asked(w)
  BY TakenIsHandled, Zenon DEF Planning
<1>4. HandledWanted \subseteq Wanted
  BY Zenon DEF HandledWanted
<1>5. ~Acceptable
  BY <1>1, <1>2, <1>3, <1>4, Zenon DEF Acceptable
<1> QED
  BY <1>5, RejectInv, Zenon

\* A route is appended: one more wanted hostname is handled, and no other.
LEMMA AppendAcceptInv ==
  ASSUME IInv, Planning, ~servers[turn].suspended, ~Unusable(servers[turn]), ~Excluded(servers[turn]),
         IsValidHostname(LowerAll(Hostnames(servers[turn])[named + 1])),
         ~Taken(LowerAll(Hostnames(servers[turn])[named + 1])),
         routes' = Append(routes, [server |-> servers[turn].uuid,
                                   hostname |-> LowerAll(Hostnames(servers[turn])[named + 1])]),
         IF named + 1 = Len(Hostnames(servers[turn]))
         THEN turn' = turn + 1 /\ named' = 0
         ELSE named' = named + 1 /\ UNCHANGED turn,
         UNCHANGED <<servers, policies, phase>>
  PROVE  IInv'
<1> DEFINE w == <<turn, named + 1>>
           count == Len(Hostnames(servers[turn]))
<1>1. /\ w \in Wanted /\ w \notin HandledWanted /\ named + 1 \in 1..count
      /\ Asked(w) = LowerAll(Hostnames(servers[turn])[named + 1]) /\ Asked(w) \in Seq(Char)
  BY SlotFacts, Zenon
<1>2. /\ TypeOK /\ servers \in Seq(Server) /\ phase = "planning" /\ phase' = "planning"
      /\ turn \in DOMAIN servers /\ turn \in Nat \ {0} /\ turn <= Len(servers) /\ named \in Nat
      /\ servers' = servers /\ policies' = policies /\ count \in Nat
  <2>1. count \in Nat
    BY PlanningFacts, ServerType
  <2> QED
    BY <2>1, PlanningFacts, Zenon
<1>3. \A v \in Wanted : /\ v = <<v[1], v[2]>> /\ v[1] \in DOMAIN servers
                        /\ v[1] \in Nat \ {0} /\ v[2] \in Nat \ {0}
                        /\ v[2] \in 1..Len(Hostnames(servers[v[1]]))
  BY PlanningFacts, Zenon
<1>4. w[1] = turn /\ w[2] = named + 1
  OBVIOUS
<1>5. RouteFor(w) = [server |-> servers[turn].uuid, hostname |-> Asked(w)]
  BY <1>4, Zenon DEF RouteFor
<1>6. routes' = Append(routes, RouteFor(w))
  BY <1>1, <1>5, ZenonT(60)
<1>7. RouteFor(w) \in Route /\ routes \in Seq(Route) /\ RouteFor(w).hostname = Asked(w)
  <2>1. servers[turn] \in Server
    BY <1>2, ServerType, ZenonT(60)
  <2>2. servers[turn].uuid \in Uuid
    BY <2>1 DEF Server, Unusable
  <2> QED
    BY <1>1, <1>2, <1>5, <2>2, SMTT(60) DEF Route, TypeOK
<1>8. TypeOK'
  <2>1. turn' \in 1..(Len(servers') + 1) /\ named' \in Nat
    BY <1>2, SMTT(60)
  <2>2. routes' \in Seq(Route)
    BY <1>6, <1>7
  <2> QED
    BY <1>2, <2>1, <2>2, SMTT(60) DEF TypeOK
<1>9. HandledWanted' = HandledWanted \cup {w}
  <2>1. Wanted' = Wanted
    BY <1>2, SameInputs
  <2>2. ASSUME NEW v \in Wanted PROVE Handled(v)' <=> Handled(v) \/ v = w
    <3>1. /\ v = <<v[1], v[2]>> /\ v[1] \in Nat \ {0} /\ v[2] \in Nat \ {0}
          /\ v[1] = turn => v[2] \in 1..count
      BY <1>3, Zenon
    <3>2. v = w <=> v[1] = turn /\ v[2] = named + 1
      BY <1>4, <3>1, Zenon
    <3> HIDE DEF w, count
    <3>3. CASE named + 1 = count
      <4>1. turn' = turn + 1 /\ named' = 0
        BY <3>3, Zenon DEF count
      <4> QED
        BY <1>2, <3>1, <3>2, <3>3, <4>1, SMTT(60) DEF Handled
    <3>4. CASE named + 1 # count
      <4>1. turn' = turn /\ named' = named + 1
        BY <3>4, Zenon DEF count
      <4> QED
        BY <1>2, <3>1, <3>2, <4>1, SMTT(60) DEF Handled
    <3> QED
      BY <3>3, <3>4
  <2> HIDE DEF w
  <2> QED
    BY <1>1, <2>1, <2>2, Zenon DEF HandledWanted
<1>10. \A v : Asked(v)' = Asked(v) /\ RouteFor(v)' = RouteFor(v)
  BY <1>2, SameInputs, Zenon
<1>11. PlanInv
  BY Zenon DEF IInv
<1>12. \A v \in HandledWanted : Asked(v) # Asked(w)
  BY <1>1, <1>2, TakenIsHandled, ZenonT(60)
<1>13. ASSUME NEW i \in Active', i < turn' PROVE (~Unusable(servers[i]) /\ ~Contradictory(servers[i]))'
  <2>1. i \in Active /\ i \in Nat
    BY <1>2, SameInputs DEF Active
  <2>2. i = turn \/ i < turn
    BY <1>2, <1>13, <2>1
  <2>3. ~Contradictory(servers[turn])
    BY Zenon DEF Contradictory
  <2>4. ~Unusable(servers[i]) /\ ~Contradictory(servers[i])
    BY <1>2, <1>11, <2>1, <2>2, <2>3, Zenon DEF PlanInv
  <2> QED
    BY <1>2, <2>4, SameInputs, SMTT(60)
<1>14. named' # 0 => turn' \in DOMAIN servers' /\ <<turn', named' + 1>> \in Wanted'
  <2> SUFFICES ASSUME named' # 0 PROVE turn' \in DOMAIN servers' /\ <<turn', named' + 1>> \in Wanted'
    OBVIOUS
  <2>1. named + 1 # count /\ turn' = turn /\ named' = named + 1
    BY Zenon
  <2>2. /\ Hostnames(servers[turn]) \in Seq(Seq(Char))
    BY <1>2, ServerType
  <2>3. named' + 1 \in DOMAIN Hostnames(servers[turn])
    BY <1>1, <1>2, <2>1, <2>2, SMTT(60)
  <2>4. <<turn, named' + 1>> \in Wanted
    BY <1>2, <2>3, WantedPairs, Zenon
  <2> QED
    BY <1>2, <2>1, <2>4, SameInputs, SMTT(60)
<1> HIDE DEF w
<1>15. \A v \in HandledWanted' : IsValidHostname(Asked(v)')
  BY <1>1, <1>2, <1>9, <1>10, <1>11, Zenon DEF PlanInv
<1>16. \A u, v \in HandledWanted' : Asked(u)' = Asked(v)' => u = v
  BY <1>2, <1>9, <1>10, <1>11, <1>12, ZenonT(60) DEF PlanInv
<1>17. /\ DOMAIN routes' = DOMAIN routes \cup {Len(routes) + 1} /\ Len(routes) + 1 \notin DOMAIN routes
       /\ routes'[Len(routes) + 1] = RouteFor(w) /\ \A k \in DOMAIN routes : routes'[k] = routes[k]
  BY <1>6, <1>7
<1>18. {routes'[k] : k \in DOMAIN routes'} = {RouteFor(v)' : v \in HandledWanted'}
  <2>1. {routes[k] : k \in DOMAIN routes} = {RouteFor(v) : v \in HandledWanted}
    BY <1>2, <1>11, ZenonT(60) DEF PlanInv
  <2>2. {routes'[k] : k \in DOMAIN routes'} = {routes[k] : k \in DOMAIN routes} \cup {RouteFor(w)}
    <3>1. ASSUME NEW k \in DOMAIN routes'
          PROVE  routes'[k] \in {routes[n] : n \in DOMAIN routes} \cup {RouteFor(w)}
      <4>1. CASE k \in DOMAIN routes
        BY <1>17, <4>1, Zenon
      <4>2. CASE k = Len(routes) + 1
        BY <1>17, <4>2, Zenon
      <4> QED
        BY <1>17, <4>1, <4>2, Zenon
    <3>2. ASSUME NEW k \in DOMAIN routes PROVE \E n \in DOMAIN routes' : routes[k] = routes'[n]
      BY <1>17, Zenon
    <3>3. \E n \in DOMAIN routes' : RouteFor(w) = routes'[n]
      BY <1>17, Zenon
    <3> QED
      BY <3>1, <3>2, <3>3, SMTT(60)
  <2>3. {RouteFor(v)' : v \in HandledWanted'} = {RouteFor(v) : v \in HandledWanted} \cup {RouteFor(w)}
    BY <1>9, <1>10, Zenon
  <2> QED
    BY <2>1, <2>2, <2>3, Zenon
<1>19. \A j, k \in DOMAIN routes' : routes'[j].hostname = routes'[k].hostname => j = k
  <2>1. \A j, k \in DOMAIN routes : routes[j].hostname = routes[k].hostname => j = k
    BY <1>2, <1>11, Zenon DEF PlanInv
  <2>2. \A k \in DOMAIN routes : routes[k].hostname # RouteFor(w).hostname
    BY <1>1, <1>7, Zenon DEF Taken
  <2>3. ASSUME NEW j \in DOMAIN routes', NEW k \in DOMAIN routes',
               routes'[j].hostname = routes'[k].hostname
        PROVE  j = k
    <3>1. CASE j \in DOMAIN routes /\ k \in DOMAIN routes
      <4>1. routes'[j] = routes[j] /\ routes'[k] = routes[k]
        BY <1>17, <3>1, Zenon
      <4> QED
        BY <2>1, <2>3, <3>1, <4>1, Zenon
    <3>2. CASE j \in DOMAIN routes /\ k \notin DOMAIN routes
      <4>1. routes'[j] = routes[j] /\ routes'[k] = RouteFor(w)
        BY <1>17, <3>2, Zenon
      <4> QED
        BY <2>2, <2>3, <3>2, <4>1, Zenon
    <3>3. CASE j \notin DOMAIN routes /\ k \in DOMAIN routes
      <4>1. routes'[k] = routes[k] /\ routes'[j] = RouteFor(w)
        BY <1>17, <3>3, Zenon
      <4> QED
        BY <2>2, <2>3, <3>3, <4>1, Zenon
    <3>4. CASE j \notin DOMAIN routes /\ k \notin DOMAIN routes
      BY <1>17, <3>4, Zenon
    <3> QED
      BY <3>1, <3>2, <3>3, <3>4, Zenon
  <2> QED
    BY <2>3, Zenon
<1>20. PlanInv'
  BY <1>13, <1>14, <1>15, <1>16, <1>18, <1>19, Zenon DEF PlanInv
<1> QED
  BY <1>2, <1>8, <1>20 DEF IInv, AllOrNothing

\* Planner.appendRoute: the hostname gets its route, or the whole is rejected.
LEMMA AppendInv == ASSUME IInv, AppendRoute PROVE IInv'
<1> DEFINE server == servers[turn]
           hostname == LowerAll(Hostnames(server)[named + 1])
<1>1. Planning /\ ~server.suspended /\ ~Unusable(server) /\ ~Excluded(server)
  BY Zenon DEF AppendRoute
<1>2. CASE IsValidHostname(hostname) /\ ~Taken(hostname)
  BY <1>1, <1>2, AppendAcceptInv, Zenon DEF AppendRoute
<1>3. CASE ~(IsValidHostname(hostname) /\ ~Taken(hostname))
  <2>1. Finish("rejected", << >>)
    BY <1>3, ZenonT(60) DEF AppendRoute
  <2> QED
    BY <1>1, <1>3, <2>1, AppendRejectInv, Zenon
<1> QED
  BY <1>2, <1>3, Zenon

\* Discovery finds other servers, or a policy is written: Plan starts again.
LEMMA ChangeInv == ASSUME IInv, Change PROVE IInv'
<1>1. /\ phase' = "idle" /\ routes' = << >> /\ turn' = turn /\ named' = named
      /\ turn = 1 /\ named = 0
  BY DEF Change, IInv
<1>2. servers' \in Inventories /\ policies' \in Books
  BY Zenon DEF Change, IInv, TypeOK
<1>3. servers' \in Seq(Server)
  BY <1>2, InputAssumption, Zenon
<1>4. TypeOK'
  <2>1. turn' \in 1..(Len(servers') + 1) /\ named' \in Nat /\ routes' \in Seq(Route)
    BY <1>1, <1>3
  <2> QED
    BY <1>1, <1>2, <2>1 DEF TypeOK
<1> QED
  BY <1>1, <1>4 DEF IInv, PlanInv, AllOrNothing

\* A step that changes nothing.
LEMMA StutterInv == ASSUME IInv, UNCHANGED vars PROVE IInv'
<1>1. /\ servers' = servers /\ policies' = policies /\ phase' = phase
      /\ turn' = turn /\ named' = named /\ routes' = routes
  BY DEF vars
<1>2. /\ Active' = Active /\ Wanted' = Wanted /\ (Acceptable' <=> Acceptable)
      /\ \A w : Asked(w)' = Asked(w) /\ RouteFor(w)' = RouteFor(w)
  BY <1>1, SameInputs
<1>3. HandledWanted' = HandledWanted
  <2>1. \A w : Handled(w)' <=> Handled(w)
    BY <1>1, Zenon DEF Handled
  <2> QED
    BY <1>2, <2>1, Zenon DEF HandledWanted
<1>4. \A i : (~Unusable(servers[i]) /\ ~Contradictory(servers[i]))'
             <=> (~Unusable(servers[i]) /\ ~Contradictory(servers[i]))
  BY <1>1, SameInputs
<1>5. /\ {RouteFor(w)' : w \in HandledWanted'} = {RouteFor(w) : w \in HandledWanted}
      /\ {RouteFor(w)' : w \in Wanted'} = {RouteFor(w) : w \in Wanted}
  BY <1>2, <1>3, Zenon
<1>6. TypeOK'
  BY <1>1, Zenon DEF IInv, TypeOK
<1>7. PlanInv'
  BY <1>1, <1>2, <1>3, <1>4, <1>5, ZenonT(60) DEF IInv, PlanInv
<1>8. AllOrNothing'
  BY <1>1, <1>2, <1>5 DEF IInv, AllOrNothing
<1> QED
  BY <1>1, <1>6, <1>7, <1>8 DEF IInv

-----------------------------------------------------------------------------
\* Results.

\* The loops of Plan keep the part of the inventory they have been through
\* acceptable and routed, for inventories and policies of every size.
THEOREM Inductive == Spec => []IInv
<1>1. IInv /\ [Next]_vars => IInv'
  BY RoutesInv, SkipInv, RefuseInv, AppendInv, PlannedInv, ChangeInv, StutterInv, Zenon DEF Next
<1> QED
  BY <1>1, InitInv, PTL DEF Spec

\* The types of the state of Plan.
THEOREM TypeCorrect == Spec => []TypeOK
<1>1. IInv => TypeOK
  BY Zenon DEF IInv
<1> QED
  BY <1>1, Inductive, PTL

\* Planner.Plan returns all the routes or none: it succeeds exactly when the
\* whole of the inventory and of its policies is acceptable.
THEOREM WholePlans == Spec => []AllOrNothing
<1>1. IInv => AllOrNothing
  BY Zenon DEF IInv
<1> QED
  BY <1>1, Inductive, PTL

\* Values that are renamed one to one are the same values, and as many.
LEMMA Renamed ==
  ASSUME NEW V, NEW W, NEW t \in [V -> W], NEW A, NEW B,
         \A v, w \in V : t[v] = t[w] => v = w,
         \A w \in W : \E v \in V : t[v] = w,
         \A v \in V : B[v] = A[t[v]]
  PROVE  /\ \A r : (\E v \in V : r = B[v]) <=> (\E w \in W : r = A[w])
         /\ (\A v, w \in V : B[v] = B[w] => v = w) <=> (\A v, w \in W : A[v] = A[w] => v = w)
<1>1. \A v \in V : t[v] \in W
  OBVIOUS
<1>2. \A r : (\E v \in V : r = B[v]) <=> (\E w \in W : r = A[w])
  BY <1>1
<1>3. ASSUME \A v, w \in V : B[v] = B[w] => v = w, NEW v \in W, NEW w \in W, A[v] = A[w] PROVE v = w
  <2>1. PICK x \in V : t[x] = v
    BY Zenon
  <2>2. PICK y \in V : t[y] = w
    BY Zenon
  <2>3. B[x] = B[y]
    BY <1>3, <2>1, <2>2, Zenon
  <2> QED
    BY <1>3, <2>1, <2>2, <2>3, Zenon
<1>4. ASSUME \A v, w \in W : A[v] = A[w] => v = w, NEW v \in V, NEW w \in V, B[v] = B[w] PROVE v = w
  <2>1. t[v] = t[w]
    BY <1>1, <1>4
  <2> QED
    BY <2>1, Zenon
<1> QED
  BY <1>2, <1>3, <1>4, Zenon

\* The next inventory has the same servers in the order of p, under the same
\* policies.
Reordered(p) ==
    /\ p \in [DOMAIN servers -> DOMAIN servers]
    /\ \A i, j \in DOMAIN servers : p[i] = p[j] => i = j
    /\ \A j \in DOMAIN servers : \E i \in DOMAIN servers : p[i] = j
    /\ servers' = [i \in DOMAIN servers |-> servers[p[i]]]
    /\ policies' = policies

\* Whether Plan succeeds, and which routes it then returns, depends on what the
\* inventory contains and not on its order: a second inventory with the same
\* servers in another order is acceptable if and only if the first is, and the
\* same routes are asked for.  WholePlans ties both to what Plan returns.
THEOREM OrderDoesNotMatter ==
  ASSUME NEW p, Reordered(p)
  PROVE  /\ Acceptable' <=> Acceptable
         /\ {RouteFor(w) : w \in Wanted}' = {RouteFor(w) : w \in Wanted}
<1> DEFINE D == DOMAIN servers
<1>1. DOMAIN servers' = D /\ \A i \in D : p[i] \in D /\ servers'[i] = servers[p[i]]
  BY DEF Reordered
<1>a. /\ policies' = policies
      /\ \A i, j \in D : p[i] = p[j] => i = j
      /\ \A j \in D : \E i \in D : p[i] = j
  BY Zenon DEF Reordered
<1>2. \A server : /\ Hostnames(server)' = Hostnames(server) /\ (Excluded(server)' <=> Excluded(server))
                  /\ (Contradictory(server)' <=> Contradictory(server))
  <2>1. \A server : PolicyOf(server)' = PolicyOf(server)
    BY <1>a, Zenon DEF PolicyOf
  <2>2. \A server : Primary(server)' = Primary(server) /\ Aliases(server)' = Aliases(server)
    BY <2>1, Zenon DEF Primary, Aliases
  <2>3. \A server : Excluded(server)' <=> Excluded(server)
    BY <2>1, ZenonT(60) DEF Excluded
  <2> QED
    BY <2>1, <2>2, <2>3, Zenon DEF Hostnames, Contradictory
<1>3. \A i, k : <<i, k>> \in Wanted' <=> i \in D /\ <<p[i], k>> \in Wanted
  <2>1. \A i, k : <<i, k>> \in Wanted' <=>
          /\ i \in D /\ (~servers[i].suspended /\ ~Excluded(servers[i]))'
          /\ k \in (DOMAIN Hostnames(servers[i]))'
    BY <1>1, SMTT(60) DEF Wanted, Active
  <2>2. ASSUME NEW i \in D
        PROVE  /\ (~servers[i].suspended /\ ~Excluded(servers[i]))' <=>
                     (~servers[p[i]].suspended /\ ~Excluded(servers[p[i]]))
               /\ (DOMAIN Hostnames(servers[i]))' = DOMAIN Hostnames(servers[p[i]])
    BY <1>1, <1>2
  <2>3. \A i, k : i \in D =>
          (<<p[i], k>> \in Wanted <=>
             /\ ~servers[p[i]].suspended /\ ~Excluded(servers[p[i]])
             /\ k \in DOMAIN Hostnames(servers[p[i]]))
    BY <1>1, WantedPairs, Zenon
  <2> QED
    BY <2>1, <2>2, <2>3, Zenon
<1>4. (\A w \in Wanted : w = <<w[1], w[2]>>) /\ (\A w \in Wanted' : w = <<w[1], w[2]>>)
  <2>1. \A w \in Wanted : w = <<w[1], w[2]>>
    BY WantedPairs, Zenon
  <2>2. ASSUME NEW w \in Wanted' PROVE w = <<w[1], w[2]>>
    <3>1. PICK i, k : w = <<i, k>>
      BY SMTT(60) DEF Wanted
    <3> QED
      BY <3>1
  <2> QED
    BY <2>1, <2>2, Zenon
<1>5. (\A w \in Wanted : w[1] \in D) /\ (\A w \in Wanted' : w[1] \in D /\ <<p[w[1]], w[2]>> \in Wanted)
  <2>1. ASSUME NEW w \in Wanted PROVE w[1] \in D
    <3>1. <<w[1], w[2]>> \in Wanted
      BY <1>4
    <3> QED
      BY <3>1, WantedPairs, Zenon
  <2>2. ASSUME NEW w \in Wanted' PROVE w[1] \in D /\ <<p[w[1]], w[2]>> \in Wanted
    <3>1. <<w[1], w[2]>> \in Wanted'
      BY <1>4
    <3> QED
      BY <1>3, <3>1, Zenon
  <2> QED
    BY <2>1, <2>2, Zenon
<1> DEFINE t == [w \in Wanted' |-> <<p[w[1]], w[2]>>]
<1>6. t \in [Wanted' -> Wanted] /\ \A w \in Wanted' : t[w][1] = p[w[1]] /\ t[w][2] = w[2]
  <2>1. \A w \in Wanted' : <<p[w[1]], w[2]>> \in Wanted
    BY <1>5, Zenon
  <2>2. \A w \in Wanted' : t[w] = <<p[w[1]], w[2]>>
    BY Zenon
  <2>3. \A x, y : <<x, y>>[1] = x /\ <<x, y>>[2] = y
    OBVIOUS
  <2> QED
    BY <2>1, <2>2, <2>3, Zenon
<1>7. ASSUME NEW v \in Wanted PROVE \E w \in Wanted' : t[w] = v
  <2>1. PICK i \in D : p[i] = v[1]
    BY <1>5, <1>a, Zenon
  <2>2. v = <<p[i], v[2]>>
    BY <1>4, <2>1
  <2> DEFINE w == <<i, v[2]>>
  <2>3. w[1] = i /\ w[2] = v[2]
    OBVIOUS
  <2>4. w \in Wanted'
    <3>1. <<p[i], v[2]>> \in Wanted
      BY <2>2
    <3> QED
      BY <1>3, <3>1, Zenon
  <2> HIDE DEF w
  <2>5. t[w] = <<p[i], v[2]>>
    BY <2>3, <2>4, Zenon
  <2> QED
    BY <2>2, <2>4, <2>5, Zenon
<1>8. ASSUME NEW v \in Wanted', NEW w \in Wanted', t[v] = t[w] PROVE v = w
  <2>1. v[2] = w[2] /\ p[v[1]] = p[w[1]]
    BY <1>6, <1>8, Zenon
  <2>2. v[1] \in D /\ w[1] \in D
    BY <1>5, Zenon
  <2>3. v[1] = w[1]
    BY <1>a, <2>1, <2>2
  <2>4. v = <<v[1], v[2]>> /\ w = <<w[1], w[2]>>
    BY <1>4, Zenon
  <2> QED
    BY <2>1, <2>3, <2>4, Zenon
<1> HIDE DEF t
<1>9. ASSUME NEW w \in Wanted' PROVE Asked(w)' = Asked(t[w]) /\ RouteFor(w)' = RouteFor(t[w])
  <2>a. w[1] \in D /\ t[w][1] = p[w[1]] /\ t[w][2] = w[2]
    BY <1>5, <1>6, Zenon
  <2>1. servers'[w[1]] = servers[t[w][1]] /\ w[2] = t[w][2]
    BY <1>1, <2>a
  <2>2. Asked(w)' = Asked(t[w])
    BY <1>2, <2>1, Zenon DEF Asked
  <2> QED
    BY <2>1, <2>2, Zenon DEF RouteFor
\* What is asked for before and after, as functions.
<1> DEFINE A == [w \in Wanted |-> Asked(w)]
           B == [w \in Wanted' |-> Asked(w)']
           R == [w \in Wanted |-> RouteFor(w)]
           Q == [w \in Wanted' |-> RouteFor(w)']
<1>10. \A w \in Wanted' : B[w] = A[t[w]] /\ Q[w] = R[t[w]]
  BY <1>6, <1>9, Zenon
<1>11. /\ \A r : (\E v \in Wanted' : r = Q[v]) <=> (\E w \in Wanted : r = R[w])
       /\ \A r : (\E v \in Wanted' : r = B[v]) <=> (\E w \in Wanted : r = A[w])
       /\ (\A v, w \in Wanted' : B[v] = B[w] => v = w) <=> (\A v, w \in Wanted : A[v] = A[w] => v = w)
  <2> HIDE DEF A, B, R, Q
  <2>1. \A v, w \in Wanted' : t[v] = t[w] => v = w
    BY <1>8, Zenon
  <2>2. \A v \in Wanted : \E w \in Wanted' : t[w] = v
    BY <1>7, Zenon
  <2>3. t \in [Wanted' -> Wanted]
    BY <1>6, Zenon
  <2>4. \A r : (\E v \in Wanted' : r = Q[v]) <=> (\E w \in Wanted : r = R[w])
    BY <1>10, <2>1, <2>2, <2>3, Renamed, SMTT(60)
  <2>5. /\ \A r : (\E v \in Wanted' : r = B[v]) <=> (\E w \in Wanted : r = A[w])
        /\ (\A v, w \in Wanted' : B[v] = B[w] => v = w) <=> (\A v, w \in Wanted : A[v] = A[w] => v = w)
    BY <1>10, <2>1, <2>2, <2>3, Renamed
  <2> QED
    BY <2>4, <2>5, Zenon
<1>12. {RouteFor(w) : w \in Wanted}' = {RouteFor(w) : w \in Wanted}
  <2> DEFINE X == {RouteFor(w) : w \in Wanted}
  <2>1. \A r : r \in X <=> \E w \in Wanted : r = R[w]
    OBVIOUS
  <2>2. \A r : r \in X' <=> \E w \in Wanted' : r = Q[w]
    OBVIOUS
  <2> HIDE DEF X, R, Q
  <2>3. \A r : (\E v \in Wanted' : r = Q[v]) <=> (\E w \in Wanted : r = R[w])
    BY <1>11, Zenon
  <2>a. ASSUME NEW r PROVE r \in X' <=> r \in X
    BY <2>1, <2>2, <2>3, Zenon
  <2>4. X' = X
    BY <2>a
  <2> QED
    BY <2>4 DEF X
<1>13. (\A w \in Wanted : IsValidHostname(Asked(w)))' <=> \A w \in Wanted : IsValidHostname(Asked(w))
  <2> DEFINE Ok(h) == IsValidHostname(h)
  <2>1. (\A w \in Wanted : IsValidHostname(Asked(w)))' <=> \A w \in Wanted' : Ok(B[w])
    BY Zenon DEF IsValidHostname
  <2>2. (\A w \in Wanted : IsValidHostname(Asked(w))) <=> \A w \in Wanted : Ok(A[w])
    BY Zenon
  <2> HIDE DEF Ok, A, B
  <2> QED
    BY <1>11, <2>1, <2>2, ZenonT(60)
<1>14. (\A v, w \in Wanted : Asked(v) = Asked(w) => v = w)' <=>
       \A v, w \in Wanted : Asked(v) = Asked(w) => v = w
  BY <1>11, Zenon
<1>15. (\A i \in Active : ~Unusable(servers[i]) /\ ~Contradictory(servers[i]))' <=>
       (\A i \in Active : ~Unusable(servers[i]) /\ ~Contradictory(servers[i]))
  <2> DEFINE Good(i) == servers[i].suspended \/ (~Unusable(servers[i]) /\ ~Contradictory(servers[i]))
  <2>1. (\A i \in Active : ~Unusable(servers[i]) /\ ~Contradictory(servers[i])) <=> \A i \in D : Good(i)
    BY Zenon DEF Active
  <2>2. (\A i \in Active : ~Unusable(servers[i]) /\ ~Contradictory(servers[i]))' <=> \A i \in D : Good(p[i])
    BY <1>1, <1>2 DEF Active, Unusable
  <2> HIDE DEF Good
  <2>3. ASSUME \A i \in D : Good(p[i]), NEW j \in D PROVE Good(j)
    <3>1. PICK i \in D : p[i] = j
      BY <1>a, Zenon
    <3> QED
      BY <2>3, <3>1, Zenon
  <2>4. (\A i \in D : Good(p[i])) <=> \A j \in D : Good(j)
    BY <1>1, <2>3, Zenon
  <2> QED
    BY <2>1, <2>2, <2>4, Zenon
<1>16. Acceptable' <=> Acceptable
  BY <1>13, <1>14, <1>15, Zenon DEF Acceptable
<1> QED
  BY <1>12, <1>16

\* infrared.Controller.ReconcileChanges refuses as a duplicate no plan but
\* those with an alias, and all of these.
THEOREM DuplicatesAreAliases == Spec => []AcceptedWithoutAliases
<1>1. ASSUME IInv PROVE AcceptedWithoutAliases
  <2> SUFFICES ASSUME phase = "planned",
                      \A i, j \in Active : servers[i].uuid = servers[j].uuid => i = j
               PROVE  InfraredAccepts(routes) <=> \A w \in Wanted : w[2] = 1
    BY Zenon DEF AcceptedWithoutAliases
  <2>1. TypeOK /\ AllOrNothing
    BY <1>1, Zenon DEF IInv
  <2>2. /\ Acceptable /\ {routes[k] : k \in DOMAIN routes} = {RouteFor(w) : w \in Wanted}
        /\ \A j, k \in DOMAIN routes : routes[j].hostname = routes[k].hostname => j = k
    BY <2>1, Zenon DEF AllOrNothing
  <2>a. /\ \A k \in DOMAIN routes : \E w \in Wanted : routes[k] = RouteFor(w)
        /\ \A w \in Wanted : \E k \in DOMAIN routes : routes[k] = RouteFor(w)
    <3>1. {routes[k] : k \in DOMAIN routes} = {RouteFor(w) : w \in Wanted}
      BY <2>2, Zenon
    <3> QED
      BY <3>1, Zenon
  <2>3. \A w : RouteFor(w).server = servers[w[1]].uuid /\ RouteFor(w).hostname = Asked(w)
    BY DEF RouteFor
  <2>4. \A w \in Wanted : w = <<w[1], w[2]>>
    BY WantedPairs, Zenon
  <2>5. ASSUME NEW w \in Wanted
        PROVE  w[1] \in Active /\ w[2] \in Nat \ {0} /\ <<w[1], 1>> \in Wanted
    <3>1. /\ w[1] \in DOMAIN servers /\ ~servers[w[1]].suspended /\ ~Excluded(servers[w[1]])
          /\ w[2] \in DOMAIN Hostnames(servers[w[1]])
      BY <2>4, WantedPairs, Zenon
    <3>2. /\ Hostnames(servers[w[1]]) \in Seq(Seq(Char))
          /\ Len(Hostnames(servers[w[1]])) \in Nat \ {0}
      BY <2>1, <3>1, ServerType
    <3>3. w[2] \in Nat \ {0} /\ 1 \in DOMAIN Hostnames(servers[w[1]])
      BY <3>1, <3>2
    <3> QED
      BY <3>1, <3>3, WantedPairs, Zenon DEF Active
  <2>6. ASSUME \A w \in Wanted : w[2] = 1,
               NEW j \in DOMAIN routes, NEW k \in DOMAIN routes,
               routes[j].server = routes[k].server
        PROVE  j = k
    <3>1. PICK v \in Wanted : routes[j] = RouteFor(v)
      BY <2>a, Zenon
    <3>2. PICK w \in Wanted : routes[k] = RouteFor(w)
      BY <2>a, Zenon
    <3>3. servers[v[1]].uuid = servers[w[1]].uuid
      BY <2>3, <2>6, <3>1, <3>2, Zenon
    <3>4. v[1] = w[1] /\ v[2] = w[2]
      BY <2>5, <2>6, <3>3, Zenon
    <3>5. v = w
      <4>1. v = <<v[1], v[2]>> /\ w = <<w[1], w[2]>>
        BY <2>4, Zenon
      <4> QED
        BY <3>4, <4>1, Zenon
    <3> QED
      BY <2>2, <3>1, <3>2, <3>5, Zenon
  <2>7. ASSUME InfraredAccepts(routes), NEW w \in Wanted PROVE w[2] = 1
    <3> DEFINE v == <<w[1], 1>>
    <3>1. v \in Wanted /\ v[1] = w[1] /\ v[2] = 1
      BY <2>5
    <3> HIDE DEF v
    <3>2. PICK j \in DOMAIN routes : routes[j] = RouteFor(v)
      BY <2>a, <3>1, Zenon
    <3>3. PICK k \in DOMAIN routes : routes[k] = RouteFor(w)
      BY <2>a, Zenon
    <3>4. routes[j].server = routes[k].server
      BY <2>3, <3>1, <3>2, <3>3, ZenonT(60)
    <3>5. j = k
      BY <2>7, <3>4, Zenon DEF InfraredAccepts
    <3>6. Asked(v) = Asked(w)
      BY <2>3, <3>2, <3>3, <3>5, Zenon
    <3>7. v = w
      BY <2>2, <3>1, <3>6, Zenon DEF Acceptable
    <3> QED
      BY <3>1, <3>7, Zenon
  <2> QED
    BY <2>6, <2>7, Zenon DEF InfraredAccepts
<1> QED
  BY <1>1, Inductive, PTL

\* buildHostname: the default hostname of a server has the form the DNS wants,
\* and the letters and digits of the server's name, whatever the name; it is a
\* fixed point of the normalisation and, unless it is too long, isValidHostname
\* accepts it.
THEOREM CleanDefaults == Spec => []DefaultsAreClean
<1>1. ASSUME TypeOK PROVE DefaultsAreClean
  <2> SUFFICES ASSUME NEW i \in DOMAIN servers
               PROVE  LET label == NormalizeLabel(servers[i].name)
                      IN  /\ Letters(label) = Letters(LowerAll(servers[i].name))
                          /\ \A k \in DOMAIN label : label[k] \in Alphanumeric \cup {"-"}
                          /\ label # << >> => label[1] # "-" /\ label[Len(label)] # "-"
                          /\ \A k \in 1..(Len(label) - 1) : label[k] = "-" => label[k + 1] # "-"
                          /\ NormalizeLabel(label) = label
                          /\ label # << >> /\ Len(label) <= MaxLabel => IsValidHostname(LowerAll(label))
    BY Zenon DEF DefaultsAreClean
  <2>1. servers[i].name \in Seq(Char)
    BY <1>1, ServerType DEF Server
  <2> DEFINE label == NormalizeLabel(servers[i].name)
  <2>2. /\ label \in Seq(Char) /\ Clean(label) /\ Letters(label) = Letters(LowerAll(servers[i].name))
        /\ label # << >> => label[Len(label)] # "-"
    BY <2>1, LabelIsClean, Zenon
  <2> HIDE DEF label
  <2>3. NormalizeLabel(label) = label
    BY <2>2, CleanIsKept, Zenon
  <2>4. label # << >> /\ Len(label) <= MaxLabel => IsValidHostname(LowerAll(label))
    BY <2>2, CleanIsValid, Zenon
  <2> QED
    BY <2>2, <2>3, <2>4, Zenon DEF Clean, label
<1> QED
  BY <1>1, TypeCorrect, PTL

=============================================================================
