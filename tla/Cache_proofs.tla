---------------------------- MODULE Cache_proofs ----------------------------
(***************************************************************************)
(* What a cache file says, however many processes write it, in pieces or   *)
(* over each other, and whenever they crash (Cache).                       *)
(***************************************************************************)
EXTENDS Cache, Induction_proofs

-----------------------------------------------------------------------------
(* Texts.                                                                   *)

Chars == {"|", "\n", "0", "1", "NUL"} \cup UNION {ToSet(t) : t \in Hashes \cup Terms}
Text == Seq(Chars)

LEMMA Texts ==
  /\ Hashes \subseteq Text /\ Terms \subseteq Text
  /\ \A h \in Hashes : /\ Len(h) \in Nat /\ Len(h) > 1
                       /\ \A i \in 1..Len(h) : h[i] \in Chars /\ h[i] # "|" /\ h[i] # "\n"
<1>1. ASSUME NEW t \in Hashes \cup Terms PROVE t \in Text
  <2>1. ToSet(t) \subseteq Chars
    BY DEF Chars
  <2>2. t \in Seq(ToSet(t))
    BY TextAssumption
  <2> HIDE DEF Chars
  <2> QED BY <2>1, <2>2 DEF Text
<1>2. ASSUME NEW h \in Hashes
      PROVE  /\ Len(h) \in Nat /\ Len(h) > 1
             /\ \A i \in 1..Len(h) : h[i] \in Chars /\ h[i] # "|" /\ h[i] # "\n"
  <2>1. h \in Seq(Chars)
    BY <1>1 DEF Text
  <2>2. Len(h) \in Nat /\ \A i \in 1..Len(h) : h[i] \in Chars
    <3> HIDE DEF Chars
    <3> QED BY <2>1
  <2>3. Len(h) > 1 /\ "|" \notin ToSet(h) /\ "\n" \notin ToSet(h)
    BY HashAssumption
  <2>4. \A i \in 1..Len(h) : h[i] \in ToSet(h)
    <3> HIDE DEF Chars
    <3> QED BY <2>1, InToSet
  <2> QED BY <2>2, <2>3, <2>4
<1> QED BY <1>1, <1>2

\* A sequence of sequences that is not empty: what Split builds.
Parts == Seq(Text) \ {<< >>}
LastPart(parts, c) == Append(Front(parts), Append(Last(parts), c))
SplitStep(parts, c, separator) == IF c = separator THEN Append(parts, << >>) ELSE LastPart(parts, c)

LEMMA PartFacts ==
  ASSUME NEW parts \in Parts, NEW c \in Chars
  PROVE  /\ Len(parts) \in Nat /\ Len(parts) > 0 /\ \A j \in 1..Len(parts) : parts[j] \in Text
         /\ Append(parts, << >>) \in Parts /\ Len(Append(parts, << >>)) = Len(parts) + 1
         /\ Append(parts, << >>)[Len(parts) + 1] = << >>
         /\ \A j \in 1..Len(parts) : Append(parts, << >>)[j] = parts[j]
         /\ LastPart(parts, c) \in Parts /\ Len(LastPart(parts, c)) = Len(parts)
         /\ LastPart(parts, c)[Len(parts)] = Append(parts[Len(parts)], c)
         /\ \A j \in 1..(Len(parts) - 1) : LastPart(parts, c)[j] = parts[j]
<1> HIDE DEF Chars
<1>1. PICK n \in Nat : n = Len(parts)
  BY DEF Parts
<1>2. parts \in Seq(Text) /\ n > 0 /\ \A j \in 1..n : parts[j] \in Text
  BY <1>1 DEF Parts
<1>3. << >> \in Text
  BY DEF Text
<1>4. /\ Append(parts, << >>) \in Seq(Text) /\ Len(Append(parts, << >>)) = n + 1
      /\ Append(parts, << >>)[n + 1] = << >> /\ \A j \in 1..n : Append(parts, << >>)[j] = parts[j]
  <2> HIDE DEF Text
  <2> QED BY <1>1, <1>2, <1>3
<1>0. Len(<< >>) = 0
  OBVIOUS
<1>5. Append(parts, << >>) # << >>
  <2>1. PICK a : a = Append(parts, << >>)
    OBVIOUS
  <2>2. PICK e : e = << >>
    OBVIOUS
  <2>3. Len(a) = n + 1
    BY <1>4, <2>1
  <2>4. Len(e) = 0
    BY <1>0, <2>2
  <2>5. n + 1 # 0
    OBVIOUS
  <2>6. a # e
    BY ONLY <2>3, <2>4, <2>5
  <2> QED BY <2>1, <2>2, <2>6
<1>6. Front(parts) = SubSeq(parts, 1, n - 1) /\ Last(parts) = parts[n]
  BY <1>1 DEF Front, Last
<1>7. PICK f : f = Front(parts)
  OBVIOUS
<1>8. f \in Seq(Text) /\ Len(f) = n - 1 /\ \A j \in 1..(n - 1) : f[j] = parts[j]
  <2> HIDE DEF Text
  <2> QED BY <1>1, <1>2, <1>6, <1>7
<1>9. PICK l : l = Append(parts[n], c)
  OBVIOUS
<1>10. l \in Text
  <2>1. n \in 1..n
    BY <1>2
  <2>2. parts[n] \in Seq(Chars)
    BY <1>2, <2>1 DEF Text
  <2> QED BY <1>9, <2>2 DEF Text
<1>11. LastPart(parts, c) = Append(f, l)
  BY <1>6, <1>7, <1>9 DEF LastPart
<1>12. /\ Append(f, l) \in Seq(Text) /\ Len(Append(f, l)) = n /\ Append(f, l)[n] = l
       /\ \A j \in 1..(n - 1) : Append(f, l)[j] = parts[j]
  <2> HIDE DEF Text
  <2>1. Append(f, l) \in Seq(Text)
    BY <1>8, <1>10
  <2>2. Len(Append(f, l)) = (n - 1) + 1 /\ Append(f, l)[(n - 1) + 1] = l
    BY <1>8
  <2>3. \A j \in 1..(n - 1) : Append(f, l)[j] = f[j]
    BY <1>8
  <2> QED BY <1>1, <1>8, <2>1, <2>2, <2>3
<1>13. Append(f, l) # << >>
  <2>1. Len(Append(f, l)) = n /\ n # 0
    BY <1>1, <1>2, <1>12
  <2>2. PICK a : a = Append(f, l)
    OBVIOUS
  <2>3. Len(a) # Len(<< >>)
    BY <1>0, <2>1, <2>2
  <2> QED BY <2>2, <2>3
<1> QED BY <1>1, <1>2, <1>4, <1>5, <1>9, <1>11, <1>12, <1>13 DEF Parts

\* Split builds its parts character by character.
LEMMA SplitSteps ==
  ASSUME NEW text \in Text, NEW separator
  PROVE  \E g \in [0..Len(text) -> Parts] :
            /\ g[0] = <<<< >>>> /\ Split(text, separator) = g[Len(text)]
            /\ \A k \in 1..Len(text) : g[k] = SplitStep(g[k - 1], text[k], separator)
<1> HIDE DEF Chars
<1>1. PICK n \in Nat : n = Len(text)
  BY DEF Text
<1>2. DOMAIN text = 1..n /\ \A k \in 1..n : text[k] \in Chars
  BY <1>1 DEF Text
<1> DEFINE base == <<<< >>>>
           step == [p \in (1..n) \X Parts |-> SplitStep(p[2], text[p[1]], separator)]
           Iter(f) == f = [s \in SUBSET (DOMAIN text) |->
                              IF s = {} THEN base
                              ELSE IF text[Max(s)] = separator THEN Append(f[s \ {Max(s)}], << >>)
                              ELSE Append(Front(f[s \ {Max(s)}]), Append(Last(f[s \ {Max(s)}]), text[Max(s)]))]
<1>3. base \in Parts
  <2>1. << >> \in Text
    BY DEF Text
  <2> QED BY <2>1 DEF Parts
<1>4. step \in FoldSteps(n, Parts)
  <2> SUFFICES ASSUME NEW k \in 1..n, NEW parts \in Parts PROVE SplitStep(parts, text[k], separator) \in Parts
    BY DEF FoldSteps
  <2> QED BY <1>2, PartFacts DEF SplitStep
<1>5. PICK f \in [SUBSET (1..n) -> Parts] : Folding(f, n, base, step)
  <2> HIDE DEF base, step
  <2> QED BY <1>3, <1>4, FoldExists
<1>6. Iter(f)
  <2>1. ASSUME NEW s \in SUBSET (1..n), s # {}
        PROVE  step[<<Max(s), f[s \ {Max(s)}]>>]
                   = IF text[Max(s)] = separator THEN Append(f[s \ {Max(s)}], << >>)
                     ELSE Append(Front(f[s \ {Max(s)}]), Append(Last(f[s \ {Max(s)}]), text[Max(s)]))
    <3>1. Max(s) \in 1..n /\ s \ {Max(s)} \in SUBSET (1..n)
      BY <2>1, MaxFacts
    <3>2. f[s \ {Max(s)}] \in Parts
      BY <3>1
    <3> QED BY <3>1, <3>2 DEF SplitStep, LastPart
  <2>2. f = [s \in SUBSET (1..n) |-> IF s = {} THEN base ELSE step[<<Max(s), f[s \ {Max(s)}]>>]]
    BY <1>5 DEF Folding
  <2> HIDE DEF step, base
  <2> QED BY <1>2, <2>1, <2>2
<1> DEFINE h == CHOOSE f1 : Iter(f1)
<1>7. Iter(h)
  <2> HIDE DEF Iter
  <2> QED BY <1>6
<1>8. Split(text, separator) = h[1..n]
  BY <1>2 DEF Split, FoldLeft, MapThenFoldSet
<1> HIDE DEF h
<1>9. h[{}] = base
  BY <1>7
<1>10. ASSUME NEW k \in 1..n PROVE h[1..k] = SplitStep(h[1..(k - 1)], text[k], separator)
  <2>1. 1..k \in SUBSET (1..n) /\ 1..k # {} /\ Max(1..k) = k /\ (1..k) \ {Max(1..k)} = 1..(k - 1)
    BY UpTo
  <2> HIDE DEF base
  <2> QED BY <1>2, <1>7, <2>1 DEF SplitStep, LastPart
<1>11. \A k \in 1..n : h[1..(k - 1)] \in Parts => h[1..k] = step[<<k, h[1..(k - 1)]>>]
  BY <1>10
<1> HIDE DEF step, base
<1>12. h[1..0] = base /\ \A k \in 0..n : h[1..k] \in Parts
  BY <1>3, <1>4, <1>9, <1>11, FoldFacts
<1> DEFINE g == [k \in 0..n |-> h[1..k]]
<1>13. g \in [0..n -> Parts] /\ g[0] = base /\ g[n] = h[1..n]
  BY <1>12
<1>14. \A k \in 1..n : g[k] = SplitStep(g[k - 1], text[k], separator)
  BY <1>10
<1> HIDE DEF g
<1> QED BY <1>1, <1>8, <1>13, <1>14 DEF base

\* The parts of the first n characters of a text, and where they start.
Splits(text, n, separator, parts, starts) ==
    /\ parts \in Parts /\ starts \in [1..Len(parts) -> 0..n] /\ starts[1] = 0
    /\ \A j \in 1..Len(parts) : starts[j] + Len(parts[j]) <= n
    /\ \A j \in 1..Len(parts) : \A i \in 1..Len(parts[j]) :
          parts[j][i] = text[starts[j] + i] /\ parts[j][i] # separator
    /\ \A j \in 1..(Len(parts) - 1) : starts[j + 1] = starts[j] + Len(parts[j]) + 1
    /\ \A j \in 1..(Len(parts) - 1) : text[starts[j + 1]] = separator
    /\ starts[Len(parts)] + Len(parts[Len(parts)]) = n

LEMMA SplitsNone ==
  ASSUME NEW text, NEW separator
  PROVE  \E starts : Splits(text, 0, separator, <<<< >>>>, starts)
<1> HIDE DEF Chars
<1>1. PICK p : p = <<<< >>>>
  OBVIOUS
<1>2. p \in Parts /\ Len(p) = 1 /\ p[1] = << >> /\ Len(p[1]) = 0
  <2>1. << >> \in Text
    BY DEF Text
  <2> QED BY <1>1, <2>1 DEF Parts
<1> DEFINE s == [j \in 1..1 |-> 0]
<1>3. s \in [1..Len(p) -> 0..0] /\ s[1] = 0
  BY <1>2
<1>4. \A j \in 1..Len(p) : j = 1
  BY <1>2
<1>5. ~ \E j \in 1..(Len(p) - 1) : TRUE
  BY <1>2
<1>6. ~ \E i \in 1..Len(p[1]) : TRUE
  BY <1>2
<1> HIDE DEF s
<1>7. Splits(text, 0, separator, p, s)
  BY <1>2, <1>3, <1>4, <1>5, <1>6 DEF Splits
<1> QED BY <1>1, <1>7

LEMMA SplitsNext ==
  ASSUME NEW text \in Text, NEW separator, NEW k \in 1..Len(text), NEW parts, NEW starts,
         Splits(text, k - 1, separator, parts, starts)
  PROVE  \E after : Splits(text, k, separator, SplitStep(parts, text[k], separator), after)
<1> HIDE DEF Chars
<1>1. k \in Nat /\ text[k] \in Chars
  BY DEF Text
<1>2. PICK c \in Chars : c = text[k]
  BY <1>1
<1>3. PICK m \in Nat : m = Len(parts)
  BY DEF Splits, Parts
<1>4. /\ parts \in Parts /\ m > 0 /\ starts \in [1..m -> 0..(k - 1)] /\ starts[1] = 0
      /\ \A j \in 1..m : parts[j] \in Text
      /\ \A j \in 1..m : Len(parts[j]) \in Nat
      /\ \A j \in 1..m : starts[j] + Len(parts[j]) <= k - 1
      /\ \A j \in 1..m : \A i \in 1..Len(parts[j]) : parts[j][i] = text[starts[j] + i] /\ parts[j][i] # separator
      /\ \A j \in 1..(m - 1) : starts[j + 1] = starts[j] + Len(parts[j]) + 1
      /\ \A j \in 1..(m - 1) : text[starts[j + 1]] = separator
      /\ starts[m] + Len(parts[m]) = k - 1
  <2>1. parts \in Parts
    BY DEF Splits
  <2>2. m > 0 /\ \A j \in 1..m : parts[j] \in Text
    BY <1>2, <1>3, <2>1, PartFacts
  <2>3. \A j \in 1..m : Len(parts[j]) \in Nat
    BY <2>2 DEF Text
  <2> QED BY <1>3, <2>1, <2>2, <2>3 DEF Splits
<1>5. CASE c = separator
  <2>1. PICK q : q = Append(parts, << >>)
    OBVIOUS
  <2>2. q \in Parts /\ Len(q) = m + 1 /\ q[m + 1] = << >> /\ \A j \in 1..m : q[j] = parts[j]
    BY <1>2, <1>3, <1>4, <2>1, PartFacts
  <2>3. Len(q[m + 1]) = 0
    BY <2>2
  <2> DEFINE s == [j \in 1..(m + 1) |-> IF j = m + 1 THEN k ELSE starts[j]]
  <2>4. s \in [1..(m + 1) -> 0..k] /\ s[m + 1] = k /\ \A j \in 1..m : s[j] = starts[j]
    BY <1>1, <1>4
  <2> HIDE DEF s
  <2>5. s[1] = 0
    BY <1>4, <2>4
  <2>6. ASSUME NEW j \in 1..(m + 1)
        PROVE  /\ s[j] + Len(q[j]) <= k
               /\ \A i \in 1..Len(q[j]) : q[j][i] = text[s[j] + i] /\ q[j][i] # separator
    <3>1. CASE j = m + 1
      BY <1>1, <2>3, <2>4, <3>1
    <3>2. CASE j # m + 1
      <4>1. j \in 1..m /\ s[j] = starts[j] /\ q[j] = parts[j]
        BY <2>2, <2>4, <3>2
      <4>2. Len(q[j]) \in Nat /\ starts[j] + Len(q[j]) <= k - 1 /\ starts[j] \in Nat
        BY <1>4, <4>1
      <4>3. s[j] + Len(q[j]) <= k
        BY <1>1, <4>1, <4>2
      <4> QED BY <1>4, <4>1, <4>3
    <3> QED BY <3>1, <3>2
  <2>7. ASSUME NEW j \in 1..m
        PROVE  s[j + 1] = s[j] + Len(q[j]) + 1 /\ text[s[j + 1]] = separator
    <3>1. CASE j = m
      <4>1. m \in 1..m /\ starts[m] \in Nat /\ Len(parts[m]) \in Nat
        BY <1>4
      <4>2. s[m + 1] = k /\ s[m] = starts[m] /\ q[m] = parts[m]
        BY <2>2, <2>4, <4>1
      <4>3. starts[m] + Len(parts[m]) + 1 = k
        BY <1>1, <1>4, <4>1
      <4>4. s[m + 1] = s[m] + Len(q[m]) + 1
        BY <4>2, <4>3
      <4>5. text[s[m + 1]] = separator
        BY <1>2, <1>5, <4>2
      <4> QED BY <3>1, <4>4, <4>5
    <3>2. CASE j # m
      <4>1. j \in 1..(m - 1) /\ j + 1 \in 1..m
        BY <3>2
      <4> QED BY <1>4, <2>2, <2>4, <4>1
    <3> QED BY <3>1, <3>2
  <2>8. s[m + 1] + Len(q[m + 1]) = k
    BY <1>1, <2>3, <2>4
  <2>9. (m + 1) - 1 = m
    OBVIOUS
  <2>10. Splits(text, k, separator, q, s)
    BY <2>2, <2>4, <2>5, <2>6, <2>7, <2>8, <2>9 DEF Splits
  <2>11. SplitStep(parts, text[k], separator) = q
    BY <1>2, <1>5, <2>1 DEF SplitStep
  <2> QED BY <2>10, <2>11
<1>6. CASE c # separator
  <2>1. PICK q : q = LastPart(parts, c)
    OBVIOUS
  <2>2. q \in Parts /\ Len(q) = m /\ q[m] = Append(parts[m], c) /\ \A j \in 1..(m - 1) : q[j] = parts[j]
    BY <1>2, <1>3, <1>4, <2>1, PartFacts
  <2>3. PICK n \in Nat : n = Len(parts[m])
    <3>1. m \in 1..m
      BY <1>4
    <3> QED BY <1>4, <3>1
  <2>4. Len(q[m]) = n + 1 /\ q[m][n + 1] = c /\ \A i \in 1..n : q[m][i] = parts[m][i]
    <3>1. m \in 1..m
      BY <1>4
    <3>2. parts[m] \in Seq(Chars)
      BY <1>4, <3>1 DEF Text
    <3>3. PICK t \in Seq(Chars) : t = parts[m]
      BY <3>2
    <3>4. Len(Append(t, c)) = Len(t) + 1 /\ Append(t, c)[Len(t) + 1] = c /\ \A i \in 1..Len(t) : Append(t, c)[i] = t[i]
      BY <1>2
    <3> QED BY <2>2, <2>3, <3>3, <3>4
  <2>5. starts \in [1..m -> 0..k] /\ starts[m] + n = k - 1 /\ starts[m] \in Nat
    <3>1. m \in 1..m /\ 0..(k - 1) \subseteq 0..k
      BY <1>1, <1>4
    <3> QED BY <1>4, <2>3, <3>1
  <2>6. ASSUME NEW j \in 1..m
        PROVE  /\ starts[j] + Len(q[j]) <= k
               /\ \A i \in 1..Len(q[j]) : q[j][i] = text[starts[j] + i] /\ q[j][i] # separator
    <3>1. CASE j = m
      <4>1. starts[j] + Len(q[j]) <= k
        BY <1>1, <2>4, <2>5, <3>1
      <4>2. ASSUME NEW i \in 1..(n + 1) PROVE q[m][i] = text[starts[m] + i] /\ q[m][i] # separator
        <5>1. CASE i = n + 1
          <6>1. starts[m] + i = k
            BY <1>1, <2>5, <5>1
          <6> QED BY <1>2, <1>6, <2>4, <5>1, <6>1
        <5>2. CASE i # n + 1
          <6>1. i \in 1..n /\ m \in 1..m
            BY <1>4, <5>2
          <6>2. parts[m][i] = text[starts[m] + i] /\ parts[m][i] # separator
            BY <1>4, <2>3, <6>1
          <6>3. q[m][i] = parts[m][i]
            BY <2>4, <6>1
          <6> QED BY <6>2, <6>3
        <5> QED BY <5>1, <5>2
      <4> QED BY <2>4, <3>1, <4>1, <4>2
    <3>2. CASE j # m
      <4>1. j \in 1..(m - 1) /\ q[j] = parts[j]
        BY <2>2, <3>2
      <4>2. Len(q[j]) \in Nat /\ starts[j] + Len(q[j]) <= k - 1 /\ starts[j] \in Nat
        BY <1>4, <4>1
      <4>3. starts[j] + Len(q[j]) <= k
        BY <1>1, <4>2
      <4> QED BY <1>4, <4>1, <4>3
    <3> QED BY <3>1, <3>2
  <2>7. ASSUME NEW j \in 1..(m - 1)
        PROVE  starts[j + 1] = starts[j] + Len(q[j]) + 1 /\ text[starts[j + 1]] = separator
    BY <1>4, <2>2
  <2>8. starts[m] + Len(q[m]) = k
    BY <1>1, <2>4, <2>5
  <2>9. Splits(text, k, separator, q, starts)
    BY <1>4, <2>2, <2>5, <2>6, <2>7, <2>8 DEF Splits
  <2>10. SplitStep(parts, text[k], separator) = q
    BY <1>2, <1>6, <2>1 DEF SplitStep
  <2> QED BY <2>9, <2>10
<1> QED BY <1>5, <1>6

LEMMA SplitFacts ==
  ASSUME NEW text \in Text, NEW separator
  PROVE  \E starts : Splits(text, Len(text), separator, Split(text, separator), starts)
<1> HIDE DEF Chars
<1>1. PICK g \in [0..Len(text) -> Parts] :
            /\ g[0] = <<<< >>>> /\ Split(text, separator) = g[Len(text)]
            /\ \A k \in 1..Len(text) : g[k] = SplitStep(g[k - 1], text[k], separator)
  BY SplitSteps
<1>2. PICK n \in Nat : n = Len(text)
  BY DEF Text
<1> DEFINE T == {k \in Nat : k <= n => \E starts : Splits(text, k, separator, g[k], starts)}
<1>3. 0 \in T
  BY <1>1, SplitsNone
<1>4. ASSUME NEW k \in Nat, k \in T PROVE k + 1 \in T
  <2> SUFFICES ASSUME k + 1 <= n PROVE \E starts : Splits(text, k + 1, separator, g[k + 1], starts)
    OBVIOUS
  <2>1. k + 1 \in 1..Len(text) /\ (k + 1) - 1 = k /\ k <= n
    BY <1>2
  <2>2. PICK starts : Splits(text, k, separator, g[k], starts)
    BY <1>4, <2>1
  <2>3. \E after : Splits(text, k + 1, separator, SplitStep(g[k], text[k + 1], separator), after)
    BY <2>1, <2>2, SplitsNext
  <2> QED BY <1>1, <2>1, <2>3
<1> HIDE DEF T
<1>5. Nat \subseteq T
  BY <1>3, <1>4, Everything
<1>6. \E starts : Splits(text, n, separator, g[n], starts)
  BY <1>5 DEF T
<1> QED BY <1>1, <1>2, <1>6

\* A stretch between separators is a part.
Field(text, n, P, s, j, e) ==
    /\ Len(P[j]) = e - s[j] /\ \A i \in 1..(e - s[j]) : P[j][i] = text[s[j] + i]
    /\ (e = n) = (j = Len(P))
    /\ e < n => j + 1 \in 1..Len(P) /\ s[j + 1] = e + 1
Stretch(text, n, separator, from, e) ==
    /\ \A i \in (from + 1)..e : text[i] # separator
    /\ e < n => text[e + 1] = separator
LEMMA FieldAt ==
  ASSUME NEW text, NEW n \in Nat, NEW separator, NEW P, NEW s, Splits(text, n, separator, P, s),
         NEW j \in 1..Len(P), NEW e \in s[j]..n, Stretch(text, n, separator, s[j], e)
  PROVE  Field(text, n, P, s, j, e)
<1> USE DEF Stretch, Field
<1> HIDE DEF Chars
<1>1. PICK m \in Nat : m = Len(P)
  BY DEF Splits, Parts
<1>2. /\ s \in [1..m -> 0..n] /\ s[m] + Len(P[m]) = n /\ j \in 1..m
      /\ \A i \in 1..(m - 1) : s[i + 1] = s[i] + Len(P[i]) + 1 /\ text[s[i + 1]] = separator
      /\ s[j] + Len(P[j]) <= n
      /\ \A i \in 1..Len(P[j]) : P[j][i] = text[s[j] + i] /\ P[j][i] # separator
  BY <1>1 DEF Splits
<1>3. PICK a \in Nat : a = Len(P[j])
  <2>1. P[j] \in Text
    BY DEF Splits, Parts
  <2> QED BY <2>1 DEF Text
<1>4. PICK o \in 0..n : o = s[j]
  BY <1>2
<1>5. e \in o..n /\ e \in Nat /\ o + a <= n
  BY <1>2, <1>3, <1>4
<1>6. ASSUME a > e - o PROVE FALSE
  <2>1. e < n /\ (e + 1) - o \in 1..a /\ o + ((e + 1) - o) = e + 1
    BY <1>5, <1>6
  <2>2. PICK i \in 1..a : o + i = e + 1
    BY <2>1
  <2>3. P[j][i] = text[o + i] /\ P[j][i] # separator
    BY <1>2, <1>3, <1>4
  <2> QED BY <2>1, <2>2, <2>3
<1>7. j # m => j \in 1..(m - 1) /\ j + 1 \in 1..m /\ s[j + 1] = o + a + 1 /\ text[s[j + 1]] = separator /\ s[j + 1] <= n
  <2> SUFFICES ASSUME j # m
               PROVE  j \in 1..(m - 1) /\ j + 1 \in 1..m /\ s[j + 1] = o + a + 1 /\ text[s[j + 1]] = separator
                      /\ s[j + 1] <= n
    OBVIOUS
  <2>1. j \in 1..(m - 1) /\ j + 1 \in 1..m
    BY <1>2
  <2>2. s[j + 1] = o + a + 1 /\ text[s[j + 1]] = separator
    BY <1>2, <1>3, <1>4, <2>1
  <2>3. s[j + 1] \in 0..n
    BY <1>2, <2>1
  <2> QED BY <2>1, <2>2, <2>3
<1>8. j = m => o + a = n
  BY <1>2, <1>3, <1>4
<1>9. ASSUME a < e - o PROVE FALSE
  <2>1. j # m
    BY <1>5, <1>8, <1>9
  <2>2. o + a + 1 \in (s[j] + 1)..e
    BY <1>4, <1>5, <1>9
  <2> QED BY <1>7, <2>1, <2>2
<1>10. a = e - o
  BY <1>5, <1>6, <1>9
<1>11. (e = n) = (j = m)
  <2>1. ASSUME e = n PROVE j = m
    BY <1>5, <1>7, <1>10, <2>1
  <2>2. ASSUME j = m PROVE e = n
    BY <1>5, <1>8, <1>10, <2>2
  <2> QED BY <2>1, <2>2
<1>12. e < n => j + 1 \in 1..m /\ s[j + 1] = e + 1
  BY <1>5, <1>7, <1>10, <1>11
<1> QED BY <1>1, <1>2, <1>3, <1>4, <1>10, <1>11, <1>12

-----------------------------------------------------------------------------
(* Reading a file.                                                          *)

Results == [is_sat : BOOLEAN, term : Text]
Entries == {es \in UNION {[D -> Results] : D \in SUBSET Text} : IsFiniteSet(DOMAIN es)}
ParsedStep(found, line) ==
    IF Len(Split(line, "|")) >= 2 THEN With(found, Split(line, "|")[1], ResultOf(Split(line, "|"))) ELSE found

LEMMA EntriesFacts ==
  ASSUME NEW es \in Entries
  PROVE  /\ es = [k \in DOMAIN es |-> es[k]] /\ DOMAIN es \subseteq Text /\ IsFiniteSet(DOMAIN es)
         /\ \A k \in DOMAIN es : es[k] \in Results
BY DEF Entries

LEMMA MakeEntries ==
  ASSUME NEW D \in SUBSET Text, NEW es \in [D -> Results], IsFiniteSet(D)
  PROVE  es \in Entries
BY DEF Entries

\* An entry is added before the others are.
LEMMA Extended ==
  ASSUME NEW es \in Entries, NEW key \in Text, NEW res \in Results
  PROVE  /\ With(es, key, res) \in Entries
         /\ DOMAIN With(es, key, res) = DOMAIN es \cup {key}
         /\ With(es, key, res)[key] = res
         /\ \A k \in DOMAIN es : k # key => With(es, key, res)[k] = es[k]
<1> HIDE DEF Chars, Text, Results
<1> DEFINE new == With(es, key, res)
           D == DOMAIN es \cup {key}
<1>1. new = [k \in D |-> IF k = key THEN res ELSE es[k]]
  BY DEF With
<1>2. D \in SUBSET Text /\ IsFiniteSet(D)
  BY EntriesFacts, FS_AddElement
<1>3. \A k \in DOMAIN es : es[k] \in Results
  BY EntriesFacts
<1> HIDE DEF new
<1>4. new \in [D -> Results]
  BY <1>1, <1>3
<1>5. new \in Entries
  BY <1>2, <1>4, MakeEntries
<1>6. DOMAIN new = D /\ new[key] = res /\ \A k \in DOMAIN es : k # key => new[k] = es[k]
  BY <1>1
<1> QED BY <1>5, <1>6 DEF new

LEMMA SplitParts ==
  ASSUME NEW text \in Text, NEW separator
  PROVE  /\ Split(text, separator) \in Parts
         /\ Len(Split(text, separator)) \in Nat
         /\ \A j \in 1..Len(Split(text, separator)) : Split(text, separator)[j] \in Text
<1> HIDE DEF Chars
<1>1. PICK parts : parts = Split(text, separator)
  OBVIOUS
<1>2. \E starts : Splits(text, Len(text), separator, parts, starts)
  BY <1>1, SplitFacts
<1>3. parts \in Parts
  BY <1>2 DEF Splits
<1>4. parts \in Seq(Text)
  BY <1>3 DEF Parts
<1> HIDE DEF Text
<1>5. Len(parts) \in Nat /\ \A j \in 1..Len(parts) : parts[j] \in Text
  BY <1>4
<1> QED BY <1>1, <1>3, <1>5

LEMMA ResultTyped ==
  ASSUME NEW parts \in Parts, Len(parts) >= 2
  PROVE  ResultOf(parts) \in Results
<1> HIDE DEF Chars
<1>1. parts \in Seq(Text) /\ << >> \in Text /\ Len(parts) \in Nat
  BY DEF Parts, Text
<1>2. Len(parts) >= 3 => parts[3] \in Text
  <2> HIDE DEF Text
  <2> QED BY <1>1
<1> QED BY <1>1, <1>2 DEF ResultOf, Results

LEMMA ParsedStepTyped ==
  ASSUME NEW es \in Entries, NEW line \in Text
  PROVE  ParsedStep(es, line) \in Entries
<1> HIDE DEF Chars
<1>1. PICK parts : parts = Split(line, "|")
  OBVIOUS
<1>2. parts \in Parts /\ \A j \in 1..Len(parts) : parts[j] \in Text
  BY <1>1, SplitParts
<1>3. CASE Len(parts) >= 2
  <2>1. 1 \in 1..Len(parts)
    BY <1>2, <1>3 DEF Parts
  <2> QED BY <1>1, <1>2, <1>3, <2>1, Extended, ResultTyped DEF ParsedStep
<1>4. CASE ~(Len(parts) >= 2)
  BY <1>1, <1>4 DEF ParsedStep
<1> QED BY <1>3, <1>4

\* Parsed adds an entry for each line that has one.
LEMMA ParsedSteps ==
  ASSUME NEW text \in Text
  PROVE  \E g \in [0..Len(Split(text, "\n")) -> Entries] :
            /\ g[0] = << >> /\ Parsed(text) = g[Len(Split(text, "\n"))]
            /\ \A k \in 1..Len(Split(text, "\n")) : g[k] = ParsedStep(g[k - 1], Split(text, "\n")[k])
<1> HIDE DEF Chars
<1>1. PICK lines : lines = Split(text, "\n")
  OBVIOUS
<1>2. PICK n \in Nat : n = Len(lines)
  BY <1>1, SplitParts
<1>3. DOMAIN lines = 1..n /\ \A k \in 1..n : lines[k] \in Text
  BY <1>1, <1>2, SplitParts DEF Parts
<1> DEFINE base == << >>
           step == [p \in (1..n) \X Entries |-> ParsedStep(p[2], lines[p[1]])]
           Iter(f) == f = [s \in SUBSET (DOMAIN lines) |->
                              IF s = {} THEN base ELSE ParsedStep(f[s \ {Max(s)}], lines[Max(s)])]
<1>4. base \in Entries
  <2>1. base \in [{} -> Results] /\ IsFiniteSet({}) /\ {} \in SUBSET Text
    BY FS_EmptySet
  <2> QED BY <2>1, MakeEntries
<1>5. step \in FoldSteps(n, Entries)
  <2> SUFFICES ASSUME NEW k \in 1..n, NEW es \in Entries PROVE ParsedStep(es, lines[k]) \in Entries
    BY DEF FoldSteps
  <2> QED BY <1>3, ParsedStepTyped
<1>6. PICK f \in [SUBSET (1..n) -> Entries] : Folding(f, n, base, step)
  <2> HIDE DEF base, step
  <2> QED BY <1>4, <1>5, FoldExists
<1>7. Iter(f)
  <2>1. ASSUME NEW s \in SUBSET (1..n), s # {}
        PROVE  step[<<Max(s), f[s \ {Max(s)}]>>] = ParsedStep(f[s \ {Max(s)}], lines[Max(s)])
    <3>1. Max(s) \in 1..n /\ s \ {Max(s)} \in SUBSET (1..n)
      BY <2>1, MaxFacts
    <3>2. f[s \ {Max(s)}] \in Entries
      BY <3>1
    <3> QED BY <3>1, <3>2
  <2>2. f = [s \in SUBSET (1..n) |-> IF s = {} THEN base ELSE step[<<Max(s), f[s \ {Max(s)}]>>]]
    BY <1>6 DEF Folding
  <2> HIDE DEF step, base
  <2> QED BY <1>3, <2>1, <2>2
<1> DEFINE h == CHOOSE f1 : Iter(f1)
<1>8. Iter(h)
  <2> HIDE DEF Iter
  <2> QED BY <1>7
<1>9. Parsed(text) = h[1..n]
  BY <1>1, <1>3 DEF Parsed, FoldLeft, MapThenFoldSet, ParsedStep
<1> HIDE DEF h
<1>10. h[{}] = base
  BY <1>8
<1>11. ASSUME NEW k \in 1..n PROVE h[1..k] = ParsedStep(h[1..(k - 1)], lines[k])
  <2>1. 1..k \in SUBSET (1..n) /\ 1..k # {} /\ Max(1..k) = k /\ (1..k) \ {Max(1..k)} = 1..(k - 1)
    BY UpTo
  <2> HIDE DEF base
  <2> QED BY <1>3, <1>8, <2>1
<1>12. \A k \in 1..n : h[1..(k - 1)] \in Entries => h[1..k] = step[<<k, h[1..(k - 1)]>>]
  BY <1>11
<1> HIDE DEF step, base
<1>13. h[1..0] = base /\ \A k \in 0..n : h[1..k] \in Entries
  BY <1>4, <1>5, <1>10, <1>12, FoldFacts
<1> DEFINE g == [k \in 0..n |-> h[1..k]]
<1>14. g \in [0..n -> Entries] /\ g[0] = base /\ g[n] = h[1..n]
  BY <1>13
<1>15. \A k \in 1..n : g[k] = ParsedStep(g[k - 1], lines[k])
  BY <1>11
<1> HIDE DEF g
<1> QED BY <1>1, <1>2, <1>9, <1>14, <1>15 DEF base

-----------------------------------------------------------------------------
(* What a text says of a formula.                                           *)

\* The hash of a formula ends at i, and the verdict after it is satisfiable.
Says(text, h, i) ==
    /\ Len(h) <= i /\ i + 2 <= Len(text)
    /\ \A k \in 1..Len(h) : text[i - Len(h) + k] = h[k]
    /\ text[i + 1] = "|" /\ text[i + 2] = "1"
Honest(text) == \A h \in Hashes, i \in Nat : Says(text, h, i) => h \in Satisfiable

LEMMA Inside ==
  ASSUME NEW text, NEW h \in Hashes, NEW i \in Nat, Says(text, h, i), NEW j \in (i - Len(h) + 1)..i
  PROVE  text[j] # "|" /\ text[j] # "\n"
<1>1. PICK n \in Nat : n = Len(h) /\ \A k \in 1..n : h[k] # "|" /\ h[k] # "\n"
  BY Texts
<1>2. PICK k \in 1..n : j = i - n + k
  <2>1. j - (i - n) \in 1..n /\ j = i - n + (j - (i - n))
    BY <1>1
  <2> QED BY <2>1
<1>3. text[i - n + k] = h[k]
  BY <1>1 DEF Says
<1> QED BY <1>1, <1>2, <1>3

Joins(t, a, b) ==
    /\ t \in Text /\ Len(a) \in Nat /\ Len(b) \in Nat /\ Len(t) = Len(a) + Len(b)
    /\ (\A i \in 1..Len(a) : t[i] = a[i]) /\ \A i \in 1..Len(b) : t[Len(a) + i] = b[i]
LEMMA TextConcat ==
  ASSUME NEW a \in Text, NEW b \in Text
  PROVE  Joins(a \o b, a, b)
<1>0. PICK t : t = a \o b
  OBVIOUS
<1> HIDE DEF Chars
<1>1. a \in Seq(Chars) /\ b \in Seq(Chars)
  BY DEF Text
<1>2. PICK n \in Nat, m \in Nat : n = Len(a) /\ m = Len(b)
  BY <1>1
<1>3. t \in Seq(Chars) /\ Len(t) = n + m
  BY <1>0, <1>1, <1>2
<1>4. (\A j \in 1..n : t[j] = a[j]) /\ \A j \in 1..m : t[n + j] = b[j]
  BY <1>0, <1>1, <1>2
<1> QED BY <1>0, <1>2, <1>3, <1>4 DEF Text, Joins

\* A part of an honest text is honest.
LEMMA HonestPart ==
  ASSUME NEW text \in Text, Honest(text), NEW part \in Text, NEW o \in Nat, o + Len(part) <= Len(text),
         \A i \in 1..Len(part) : part[i] = text[o + i]
  PROVE  Honest(part)
<1> HIDE DEF Chars
<1>1. PICK n \in Nat, m \in Nat : n = Len(part) /\ m = Len(text)
  BY DEF Text
<1> SUFFICES ASSUME NEW h \in Hashes, NEW i \in Nat, Says(part, h, i) PROVE h \in Satisfiable
  BY DEF Honest
<1>2. PICK l \in Nat : l = Len(h)
  BY Texts
<1>3. /\ l <= i /\ i + 2 <= n /\ \A k \in 1..l : part[i - l + k] = h[k]
      /\ part[i + 1] = "|" /\ part[i + 2] = "1"
  BY <1>1, <1>2 DEF Says
<1>4. \A j \in 1..n : part[j] = text[o + j]
  BY <1>1
<1>5. PICK ii \in Nat : ii = o + i
  OBVIOUS
<1>6. l <= ii /\ ii + 2 <= m
  BY <1>1, <1>3, <1>5
<1>7. ASSUME NEW k \in 1..l PROVE text[ii - l + k] = h[k]
  <2>1. PICK j \in 1..n : j = i - l + k
    BY <1>3
  <2>2. o + j = ii - l + k
    BY <1>5, <2>1
  <2> QED BY <1>3, <1>4, <2>1, <2>2
<1>8. text[ii + 1] = "|" /\ text[ii + 2] = "1"
  <2>1. i + 1 \in 1..n /\ i + 2 \in 1..n /\ o + (i + 1) = ii + 1 /\ o + (i + 2) = ii + 2
    BY <1>3, <1>5
  <2> QED BY <1>3, <1>4, <2>1
<1>9. Says(text, h, ii)
  BY <1>1, <1>2, <1>6, <1>7, <1>8 DEF Says
<1> QED BY <1>9 DEF Honest

\* An honest text behind one that ends a line.
LEMMA HonestConcat ==
  ASSUME NEW a \in Text, NEW b \in Text, Honest(a), Honest(b), Len(a) = 0 \/ a[Len(a)] = "\n"
  PROVE  Honest(a \o b)
<1> HIDE DEF Chars
<1>1. PICK n \in Nat, m \in Nat : n = Len(a) /\ m = Len(b)
  BY DEF Text
<1>2. PICK t : t = a \o b
  OBVIOUS
<1>3. t \in Text /\ Len(t) = n + m /\ (\A j \in 1..n : t[j] = a[j]) /\ \A j \in 1..m : t[n + j] = b[j]
  BY <1>1, <1>2 DEF Text
<1> SUFFICES ASSUME NEW h \in Hashes, NEW i \in Nat, Says(t, h, i) PROVE h \in Satisfiable
  BY <1>2 DEF Honest
<1>4. PICK l \in Nat : l = Len(h) /\ l > 1
  BY Texts
<1>5. /\ l <= i /\ i + 2 <= n + m /\ \A k \in 1..l : t[i - l + k] = h[k]
      /\ t[i + 1] = "|" /\ t[i + 2] = "1"
  BY <1>3, <1>4 DEF Says
<1>6. CASE i + 2 <= n
  <2>1. ASSUME NEW k \in 1..l PROVE a[i - l + k] = h[k]
    <3>1. i - l + k \in 1..n
      BY <1>5, <1>6
    <3> QED BY <1>3, <1>5, <3>1
  <2>2. i + 1 \in 1..n /\ i + 2 \in 1..n
    BY <1>6
  <2>3. a[i + 1] = "|" /\ a[i + 2] = "1"
    BY <1>3, <1>5, <2>2
  <2>4. Says(a, h, i)
    BY <1>1, <1>4, <1>5, <1>6, <2>1, <2>3 DEF Says
  <2> QED BY <2>4 DEF Honest
<1>7. CASE i + 1 = n
  <2>1. i + 1 \in 1..n /\ a[i + 1] = "\n"
    BY <1>1, <1>7
  <2> QED BY <1>3, <1>5, <2>1
<1>8. CASE n <= i
  <2>1. n <= i - l
    <3> SUFFICES ASSUME i - l < n PROVE FALSE
      BY <1>5
    <3>1. n \in 1..n /\ n \in (i - Len(h) + 1)..i
      BY <1>4, <1>5, <1>8
    <3>2. a[n] = "\n"
      BY <1>1, <3>1
    <3>3. t[n] = "\n"
      BY <1>3, <3>1, <3>2
    <3> QED BY <3>1, <3>3, Inside
  <2>2. PICK ii \in Nat : ii = i - n
    BY <1>8
  <2>3. l <= ii /\ ii + 2 <= m
    BY <1>5, <2>1, <2>2
  <2>4. ASSUME NEW k \in 1..l PROVE b[ii - l + k] = h[k]
    <3>1. PICK j \in 1..m : j = ii - l + k
      BY <2>3
    <3>2. n + j = i - l + k
      BY <2>2, <3>1
    <3> QED BY <1>3, <1>5, <3>1, <3>2
  <2>5. ii + 1 \in 1..m /\ ii + 2 \in 1..m /\ n + (ii + 1) = i + 1 /\ n + (ii + 2) = i + 2
    BY <2>2, <2>3
  <2>6. b[ii + 1] = "|" /\ b[ii + 2] = "1"
    BY <1>3, <1>5, <2>5
  <2>7. Says(b, h, ii)
    BY <1>1, <1>4, <2>3, <2>4, <2>6 DEF Says
  <2> QED BY <2>7 DEF Honest
<1> QED BY <1>6, <1>7, <1>8

LEMMA EmptyHonest == << >> \in Text /\ Len(<< >>) = 0 /\ Honest(<< >>)
<1> HIDE DEF Chars
<1>1. << >> \in Text /\ Len(<< >>) = 0
  BY DEF Text
<1>2. ~ \E i \in Nat : i + 2 <= 0
  OBVIOUS
<1>3. PICK t : t = << >>
  OBVIOUS
<1>4. Honest(t)
  BY <1>1, <1>2, <1>3 DEF Honest, Says
<1> QED BY <1>1, <1>3, <1>4

\* A key ends a field and a line in no place.
Plain(k) == \A i \in 1..Len(k) : k[i] # "|" /\ k[i] # "\n"
EndsIn(k, h) == Len(h) <= Len(k) /\ \A i \in 1..Len(h) : k[Len(k) - Len(h) + i] = h[i]

Reads(l, k, r) ==
    /\ l \in Text /\ Len(k) \in Nat /\ Len(r.term) \in Nat /\ Len(l) = Len(k) + Len(r.term) + 4
    /\ \A i \in 1..Len(k) : l[i] = k[i]
    /\ l[Len(k) + 1] = "|" /\ l[Len(k) + 2] = (IF r.is_sat THEN "1" ELSE "0") /\ l[Len(k) + 3] = "|"
    /\ \A i \in 1..Len(r.term) : l[Len(k) + 3 + i] = r.term[i]
    /\ l[Len(k) + Len(r.term) + 4] = "\n"
LEMMA LineFacts ==
  ASSUME NEW k \in Text, NEW r \in Results
  PROVE  Reads(Line(k, r), k, r)
<1>1. PICK d \in Chars : d = IF r.is_sat THEN "1" ELSE "0"
  BY DEF Chars
<1>2. {"|", "\n"} \subseteq Chars
  BY DEF Chars
<1> HIDE DEF Chars
<1>3. PICK term \in Text : term = r.term
  BY DEF Results
<1>4. PICK a \in Nat, b \in Nat : a = Len(k) /\ b = Len(term)
  BY DEF Text
<1>5. PICK x : x = k \o <<"|", d, "|">>
  OBVIOUS
<1>6. /\ x \in Text /\ Len(x) = a + 3 /\ (\A i \in 1..a : x[i] = k[i])
      /\ x[a + 1] = "|" /\ x[a + 2] = d /\ x[a + 3] = "|"
  <2>1. PICK y : y = <<"|", d, "|">>
    OBVIOUS
  <2>2. y \in Seq(Chars) /\ Len(y) = 3 /\ y[1] = "|" /\ y[2] = d /\ y[3] = "|"
    BY <1>2, <2>1
  <2>3. x = k \o y
    BY <1>5, <2>1
  <2>4. y \in Text
    BY <2>2 DEF Text
  <2>5. x \in Text /\ Len(x) = a + 3 /\ (\A i \in 1..a : x[i] = k[i]) /\ \A i \in 1..3 : x[a + i] = y[i]
    <3>1. Joins(x, k, y)
      BY <2>3, <2>4, TextConcat
    <3> QED BY <1>4, <2>2, <3>1 DEF Joins
  <2>6. x[a + 1] = y[1] /\ x[a + 2] = y[2] /\ x[a + 3] = y[3]
    BY <2>5
  <2> QED BY <2>2, <2>5, <2>6
<1>7. PICK z : z = x \o term
  OBVIOUS
<1>8. /\ z \in Text /\ Len(z) = a + b + 3 /\ (\A i \in 1..(a + 3) : z[i] = x[i])
      /\ \A i \in 1..b : z[a + 3 + i] = term[i]
  <2>1. z \in Text /\ Len(z) = (a + 3) + b /\ (\A i \in 1..(a + 3) : z[i] = x[i]) /\ \A i \in 1..b : z[(a + 3) + i] = term[i]
    <3>1. Joins(z, x, term)
      BY <1>6, <1>7, TextConcat
    <3> QED BY <1>4, <1>6, <3>1 DEF Joins
  <2> QED BY <2>1
<1>9. PICK l : l = z \o <<"\n">>
  OBVIOUS
<1>10. /\ l \in Text /\ Len(l) = a + b + 4 /\ (\A i \in 1..(a + b + 3) : l[i] = z[i])
       /\ l[a + b + 4] = "\n"
  <2>1. <<"\n">> \in Seq(Chars) /\ Len(<<"\n">>) = 1
    BY <1>2
  <2>2. (a + b + 3) + 1 = a + b + 4
    OBVIOUS
  <2>3. PICK y : y = <<"\n">>
    OBVIOUS
  <2>4. y \in Text /\ Len(y) = 1 /\ y[1] = "\n"
    BY <2>1, <2>3 DEF Text
  <2>5. /\ l \in Text /\ Len(l) = (a + b + 3) + 1 /\ (\A i \in 1..(a + b + 3) : l[i] = z[i])
        /\ \A i \in 1..1 : l[(a + b + 3) + i] = y[i]
    <3>1. Joins(l, z, y)
      BY <1>8, <1>9, <2>3, <2>4, TextConcat
    <3>2. Len(z) = a + b + 3
      BY <1>8
    <3> QED BY <2>4, <3>1, <3>2 DEF Joins
  <2> QED BY <2>2, <2>4, <2>5
<1>11. \A i \in 1..(a + 3) : l[i] = x[i]
  <2> SUFFICES ASSUME NEW i \in 1..(a + 3) PROVE l[i] = x[i]
    OBVIOUS
  <2>1. i \in 1..(a + b + 3)
    OBVIOUS
  <2> QED BY <1>8, <1>10, <2>1
<1>12. \A i \in 1..b : l[a + 3 + i] = term[i]
  <2> SUFFICES ASSUME NEW i \in 1..b PROVE l[a + 3 + i] = term[i]
    OBVIOUS
  <2>1. PICK j \in 1..(a + b + 3) : j = a + 3 + i
    OBVIOUS
  <2> QED BY <1>8, <1>10, <2>1
<1>13. Line(k, r) = l
  BY <1>1, <1>3, <1>5, <1>7, <1>9 DEF Line
<1>14. \A i \in 1..a : l[i] = k[i]
  <2> SUFFICES ASSUME NEW i \in 1..a PROVE l[i] = k[i]
    OBVIOUS
  <2>1. i \in 1..(a + 3)
    OBVIOUS
  <2> QED BY <1>6, <1>11, <2>1
<1>15. a + 1 \in 1..(a + 3) /\ a + 2 \in 1..(a + 3) /\ a + 3 \in 1..(a + 3)
  OBVIOUS
<1>16. l[a + 1] = "|" /\ l[a + 2] = d /\ l[a + 3] = "|"
  BY <1>6, <1>11, <1>15
<1> QED BY <1>1, <1>3, <1>4, <1>10, <1>12, <1>13, <1>14, <1>16 DEF Reads

\* A line is honest when its term is and its verdict holds of every hash its
\* key ends in.
LEMMA HonestLine ==
  ASSUME NEW k \in Text, NEW r \in Results, Plain(k), Honest(r.term),
         r.is_sat => \A h \in Hashes : EndsIn(k, h) => h \in Satisfiable
  PROVE  Honest(Line(k, r))
<1> HIDE DEF Chars
<1>1. PICK l, term : l = Line(k, r) /\ term = r.term
  OBVIOUS
<1>2. PICK a \in Nat, b \in Nat : a = Len(k) /\ b = Len(term)
  <2>1. Reads(l, k, r)
    BY <1>1, LineFacts
  <2> QED BY <1>1, <2>1 DEF Reads
<1>3. /\ Len(l) = a + b + 4
      /\ \A i \in 1..a : l[i] = k[i] /\ k[i] # "|"
      /\ l[a + 1] = "|" /\ l[a + 2] = (IF r.is_sat THEN "1" ELSE "0") /\ l[a + 3] = "|"
      /\ \A i \in 1..b : l[a + 3 + i] = term[i]
      /\ l[a + b + 4] = "\n"
  <2>1. Reads(l, k, r)
    BY <1>1, LineFacts
  <2>2. \A i \in 1..a : k[i] # "|"
    BY <1>2 DEF Plain
  <2> QED BY <1>1, <1>2, <2>1, <2>2 DEF Reads
<1> SUFFICES ASSUME NEW h \in Hashes, NEW i \in Nat, Says(l, h, i) PROVE h \in Satisfiable
  BY <1>1 DEF Honest
<1>4. PICK m \in Nat : m = Len(h) /\ m > 1
  BY Texts
<1>5. /\ m <= i /\ i + 2 <= a + b + 4 /\ \A j \in 1..m : l[i - m + j] = h[j]
      /\ l[i + 1] = "|" /\ l[i + 2] = "1"
  BY <1>3, <1>4 DEF Says
<1>6. \A j \in (i - m + 1)..i : l[j] # "|" /\ l[j] # "\n"
  BY <1>4, Inside
<1>7. i + 1 > a
  <2> SUFFICES ASSUME i + 1 <= a PROVE FALSE
    OBVIOUS
  <2>1. i + 1 \in 1..a
    OBVIOUS
  <2> QED BY <1>3, <1>5, <2>1
<1>8. CASE i = a
  <2>1. r.is_sat
    BY <1>3, <1>5, <1>8
  <2>2. ASSUME NEW j \in 1..m PROVE k[a - m + j] = h[j]
    <3>1. a - m + j \in 1..a
      BY <1>5, <1>8
    <3> QED BY <1>3, <1>5, <1>8, <3>1
  <2>3. EndsIn(k, h)
    BY <1>2, <1>4, <1>5, <1>8, <2>2 DEF EndsIn
  <2> QED BY <2>1, <2>3
<1>9. i # a + 1
  BY <1>3, <1>5
<1>10. i # a + 2
  <2> SUFFICES ASSUME i = a + 2 PROVE FALSE
    OBVIOUS
  <2>1. a + 1 \in (i - m + 1)..i
    BY <1>4
  <2> QED BY <1>3, <1>6, <2>1
<1>11. CASE i >= a + 3
  <2>1. i - m >= a + 3
    <3> SUFFICES ASSUME i - m < a + 3 PROVE FALSE
      BY <1>5
    <3>1. a + 3 \in (i - m + 1)..i
      BY <1>11
    <3> QED BY <1>3, <1>6, <3>1
  <2>2. PICK ii \in Nat : i = a + 3 + ii
    <3>1. i - (a + 3) \in Nat /\ i = a + 3 + (i - (a + 3))
      BY <1>11
    <3> QED BY <3>1
  <2>3. ii + 2 <= b
    <3> SUFFICES ASSUME ii + 2 > b PROVE FALSE
      BY <2>2
    <3>1. i + 2 = a + b + 4
      BY <1>5, <2>2
    <3> QED BY <1>3, <1>5, <3>1
  <2>4. m <= ii
    BY <2>1, <2>2
  <2>5. ASSUME NEW j \in 1..m PROVE term[ii - m + j] = h[j]
    <3>1. PICK x \in 1..b : x = ii - m + j
      BY <2>3, <2>4
    <3>2. a + 3 + x = i - m + j
      BY <2>2, <3>1
    <3>3. l[a + 3 + x] = term[x]
      BY <1>3
    <3>4. l[i - m + j] = h[j]
      BY <1>5
    <3> QED BY <3>1, <3>2, <3>3, <3>4
  <2>6. ii + 1 \in 1..b /\ ii + 2 \in 1..b /\ a + 3 + (ii + 1) = i + 1 /\ a + 3 + (ii + 2) = i + 2
    BY <2>2, <2>3
  <2>7. term[ii + 1] = "|" /\ term[ii + 2] = "1"
    BY <1>3, <1>5, <2>6
  <2>8. Says(term, h, ii)
    BY <1>2, <1>4, <2>3, <2>4, <2>5, <2>7 DEF Says
  <2> QED BY <1>1, <2>8 DEF Honest
<1> QED BY <1>7, <1>8, <1>9, <1>10, <1>11

-----------------------------------------------------------------------------
(* What reading keeps.                                                      *)

Unbroken(t) == \A i \in 1..Len(t) : t[i] # "\n"
KeysPlain(es) == \A k \in DOMAIN es : Plain(k)
TermsUnbroken(es) == \A k \in DOMAIN es : Unbroken(es[k].term)
HonestEntries(es) == \A k \in DOMAIN es : Honest(Line(k, es[k]))

LEMMA LineRead ==
  ASSUME NEW text \in Text, NEW j \in 1..Len(Split(text, "\n"))
  PROVE  /\ Split(text, "\n")[j] \in Text /\ Unbroken(Split(text, "\n")[j])
         /\ Honest(text) => Honest(Split(text, "\n")[j])
<1> HIDE DEF Chars
<1>1. PICK lines : lines = Split(text, "\n")
  OBVIOUS
<1>2. PICK s : Splits(text, Len(text), "\n", lines, s)
  BY <1>1, SplitFacts
<1>3. PICK n \in Nat : n = Len(text)
  BY DEF Text
<1>4. lines[j] \in Text
  BY <1>1, SplitParts
<1>5. /\ s[j] \in Nat /\ s[j] + Len(lines[j]) <= n
      /\ \A i \in 1..Len(lines[j]) : lines[j][i] = text[s[j] + i] /\ lines[j][i] # "\n"
  BY <1>1, <1>2, <1>3 DEF Splits
<1>6. Honest(text) => Honest(lines[j])
  BY <1>3, <1>4, <1>5, HonestPart
<1> QED BY <1>1, <1>4, <1>5, <1>6 DEF Unbroken

LEMMA NoVerdictInside ==
  ASSUME NEW t \in Text, \A i \in 1..Len(t) : t[i] # "|"
  PROVE  Honest(t)
<1> HIDE DEF Chars
<1>1. PICK n \in Nat : n = Len(t)
  BY DEF Text
<1> SUFFICES ASSUME NEW h \in Hashes, NEW i \in Nat, Says(t, h, i) PROVE FALSE
  BY DEF Honest
<1>2. i + 2 <= n /\ t[i + 1] = "|"
  BY <1>1 DEF Says
<1>3. i + 1 \in 1..n
  BY <1>2
<1> QED BY <1>1, <1>2, <1>3

\* The entry a line has.
LEMMA EntryRead ==
  ASSUME NEW line \in Text, Unbroken(line), NEW parts, parts = Split(line, "|"), Len(parts) >= 2
  PROVE  /\ parts[1] \in Text /\ ResultOf(parts) \in Results
         /\ Plain(parts[1]) /\ Unbroken(ResultOf(parts).term)
         /\ Honest(line) => Honest(Line(parts[1], ResultOf(parts)))
<1> HIDE DEF Chars
<1>1. PICK s : Splits(line, Len(line), "|", parts, s)
  BY SplitFacts
<1>2. PICK n \in Nat, m \in Nat : n = Len(line) /\ m = Len(parts)
  BY <1>1 DEF Text, Splits, Parts
<1>3. /\ parts \in Parts /\ s \in [1..m -> 0..n] /\ s[1] = 0
      /\ \A j \in 1..m : s[j] + Len(parts[j]) <= n
      /\ \A j \in 1..m : \A i \in 1..Len(parts[j]) : parts[j][i] = line[s[j] + i] /\ parts[j][i] # "|"
      /\ \A j \in 1..(m - 1) : s[j + 1] = s[j] + Len(parts[j]) + 1 /\ line[s[j + 1]] = "|"
  BY <1>1, <1>2 DEF Splits
<1>4. \A j \in 1..m : parts[j] \in Text /\ Len(parts[j]) \in Nat
  <2>1. \A j \in 1..m : parts[j] \in Text
    BY <1>2, <1>3, SplitParts
  <2> QED BY <2>1 DEF Text
<1>5. ASSUME NEW j \in 1..m PROVE Plain(parts[j])
  <2> SUFFICES ASSUME NEW i \in 1..Len(parts[j]) PROVE parts[j][i] # "|" /\ parts[j][i] # "\n"
    BY DEF Plain
  <2>1. PICK a \in Nat, o \in Nat : a = Len(parts[j]) /\ o = s[j] /\ o + a <= n
    <3>1. Len(parts[j]) \in Nat /\ s[j] \in Nat /\ s[j] + Len(parts[j]) <= n
      BY <1>3, <1>4
    <3> QED BY <3>1
  <2>2. o + i \in 1..n
    BY <2>1
  <2> QED BY <1>2, <1>3, <2>1, <2>2 DEF Unbroken
<1>6. ResultOf(parts) \in Results
  BY <1>3, ResultTyped
<1>7. PICK term : term = ResultOf(parts).term
  OBVIOUS
<1>8. term \in Text /\ Plain(term)
  <2>1. << >> \in Text /\ Plain(<< >>)
    BY DEF Text, Plain
  <2>2. term = IF m >= 3 THEN parts[3] ELSE << >>
    BY <1>2, <1>7 DEF ResultOf
  <2>3. m >= 3 => 3 \in 1..m
    BY <1>2
  <2> QED BY <1>4, <1>5, <2>1, <2>2, <2>3
<1>9. Unbroken(term) /\ Honest(term)
  BY <1>8, NoVerdictInside DEF Plain, Unbroken
<1>10. 1 \in 1..m /\ 2 \in 1..m /\ 1 \in 1..(m - 1)
  BY <1>2
<1>11. ASSUME Honest(line), ResultOf(parts).is_sat, NEW h \in Hashes, EndsIn(parts[1], h) PROVE h \in Satisfiable
  <2>1. parts[2] = <<"1">>
    BY <1>11 DEF ResultOf
  <2>2. Len(parts[2]) = 1 /\ parts[2][1] = "1"
    <3>1. PICK one : one = <<"1">>
      OBVIOUS
    <3>2. Len(one) = 1 /\ one[1] = "1"
      BY <3>1
    <3> QED BY <2>1, <3>1, <3>2
  <2>3. PICK a \in Nat : a = Len(parts[1])
    BY <1>4, <1>10
  <2>4. s[2] = a + 1 /\ line[a + 1] = "|"
    <3>1. s[1 + 1] = s[1] + Len(parts[1]) + 1 /\ line[s[1 + 1]] = "|"
      BY <1>3, <1>10
    <3> QED BY <1>3, <2>3, <3>1
  <2>5. a + 2 <= n
    BY <1>3, <1>10, <2>2, <2>4
  <2>6. line[a + 2] = "1"
    <3>1. 1 \in 1..Len(parts[2])
      BY <2>2
    <3>2. parts[2][1] = line[s[2] + 1]
      BY <1>3, <1>10, <3>1
    <3> QED BY <2>2, <2>4, <3>2
  <2>7. PICK l \in Nat : l = Len(h)
    BY Texts
  <2>8. l <= a /\ \A i \in 1..l : parts[1][a - l + i] = h[i]
    BY <1>11, <2>3, <2>7 DEF EndsIn
  <2>9. ASSUME NEW i \in 1..l PROVE line[a - l + i] = h[i]
    <3>1. PICK j \in 1..a : j = a - l + i
      BY <2>8
    <3>2. parts[1][j] = line[0 + j]
      BY <1>3, <1>10, <2>3
    <3> QED BY <2>8, <3>1, <3>2
  <2>10. Says(line, h, a)
    BY <1>2, <2>4, <2>5, <2>6, <2>7, <2>8, <2>9 DEF Says
  <2> QED BY <1>11, <2>10 DEF Honest
<1>12. parts[1] \in Text /\ Plain(parts[1])
  BY <1>4, <1>5, <1>10
<1>13. Honest(line) => Honest(Line(parts[1], ResultOf(parts)))
  BY <1>6, <1>7, <1>9, <1>11, <1>12, HonestLine
<1> QED BY <1>6, <1>7, <1>9, <1>12, <1>13

Keeps(es, text) == KeysPlain(es) /\ TermsUnbroken(es) /\ (Honest(text) => HonestEntries(es))

LEMMA StepKeeps ==
  ASSUME NEW es \in Entries, NEW text, Keeps(es, text),
         NEW line \in Text, Unbroken(line), Honest(text) => Honest(line)
  PROVE  Keeps(ParsedStep(es, line), text)
<1> HIDE DEF Chars
<1>1. PICK parts : parts = Split(line, "|")
  OBVIOUS
<1>2. CASE Len(parts) >= 2
  <2>1. PICK key, res : key = parts[1] /\ res = ResultOf(parts)
    OBVIOUS
  <2>2. /\ key \in Text /\ res \in Results /\ Plain(key) /\ Unbroken(res.term)
        /\ Honest(line) => Honest(Line(key, res))
    BY <1>1, <1>2, <2>1, EntryRead
  <2>3. PICK new : new = With(es, key, res)
    OBVIOUS
  <2>4. DOMAIN new = DOMAIN es \cup {key} /\ new[key] = res /\ \A k \in DOMAIN es : k # key => new[k] = es[k]
    BY <2>2, <2>3, Extended
  <2>5. Keeps(new, text)
    BY <2>2, <2>4 DEF Keeps, KeysPlain, TermsUnbroken, HonestEntries
  <2>6. ParsedStep(es, line) = new
    BY <1>1, <1>2, <2>1, <2>3 DEF ParsedStep
  <2> QED BY <2>5, <2>6
<1>3. CASE ~(Len(parts) >= 2)
  BY <1>1, <1>3 DEF ParsedStep
<1> QED BY <1>2, <1>3

LEMMA ParsedKeeps ==
  ASSUME NEW text \in Text
  PROVE  Parsed(text) \in Entries /\ Keeps(Parsed(text), text)
<1> HIDE DEF Chars
<1>1. PICK lines : lines = Split(text, "\n")
  OBVIOUS
<1>2. PICK n \in Nat : n = Len(lines)
  BY <1>1, SplitParts
<1>3. PICK g \in [0..n -> Entries] :
            /\ g[0] = << >> /\ Parsed(text) = g[n]
            /\ \A k \in 1..n : g[k] = ParsedStep(g[k - 1], lines[k])
  BY <1>1, <1>2, ParsedSteps
<1> DEFINE T == {k \in Nat : k <= n => Keeps(g[k], text)}
<1>4. 0 \in T
  <2>1. DOMAIN g[0] = {}
    BY <1>3
  <2>2. Keeps(g[0], text)
    BY <2>1 DEF Keeps, KeysPlain, TermsUnbroken, HonestEntries
  <2> QED BY <2>2
<1>5. ASSUME NEW k \in Nat, k \in T PROVE k + 1 \in T
  <2> SUFFICES ASSUME k + 1 <= n PROVE Keeps(g[k + 1], text)
    OBVIOUS
  <2>1. k + 1 \in 1..n /\ (k + 1) - 1 = k /\ k \in 0..n
    OBVIOUS
  <2>2. Keeps(g[k], text) /\ g[k] \in Entries
    BY <1>5, <2>1
  <2>3. PICK line : line = lines[k + 1]
    OBVIOUS
  <2>4. line \in Text /\ Unbroken(line) /\ (Honest(text) => Honest(line))
    BY <1>1, <1>2, <2>1, <2>3, LineRead
  <2>5. Keeps(ParsedStep(g[k], line), text)
    BY <2>2, <2>4, StepKeeps
  <2>6. g[k + 1] = ParsedStep(g[k], line)
    BY <1>3, <2>1, <2>3
  <2> QED BY <2>5, <2>6
<1> HIDE DEF T
<1>6. Nat \subseteq T
  BY <1>4, <1>5, Everything
<1>7. Keeps(g[n], text)
  BY <1>6 DEF T
<1>8. g[n] \in Entries
  OBVIOUS
<1> QED BY <1>3, <1>7, <1>8

-----------------------------------------------------------------------------
(* What a flush writes.                                                     *)

\* The lines of the entries in an order, one behind the other.
Writes(text, es, order, g, n) ==
    /\ n \in Nat /\ order \in [1..n -> DOMAIN es] /\ g \in [0..n -> Text]
    /\ \A k \in DOMAIN es : \E i \in 1..n : order[i] = k
    /\ \A i, j \in 1..n : i # j => order[i] # order[j]
    /\ g[0] = << >> /\ text = g[n]
    /\ \A i \in 1..n : g[i] = g[i - 1] \o Line(order[i], es[order[i]])

LEMMA AllOrdered ==
  ASSUME NEW S, IsFiniteSet(S), NEW order \in SetToSeqs(S)
  PROVE  /\ order \in [1..Cardinality(S) -> S] /\ Cardinality(S) \in Nat
         /\ \A k \in S : \E i \in 1..Cardinality(S) : order[i] = k
         /\ \A i, j \in 1..Cardinality(S) : i # j => order[i] # order[j]
<1>1. PICK n \in Nat : n = Cardinality(S)
  BY FS_CardinalityType
<1>2. order \in [1..n -> S] /\ \A i, j \in 1..n : i # j => order[i] # order[j]
  BY <1>1 DEF SetToSeqs
<1> DEFINE R == {order[i] : i \in 1..n}
<1>3. R \subseteq S /\ IsFiniteSet(R)
  BY <1>2, FS_Subset
<1>4. order \in Bijection(1..n, R)
  <2>1. order \in [1..n -> R]
    BY <1>2
  <2>2. \A i, j \in 1..n : order[i] = order[j] => i = j
    BY <1>2
  <2>3. \A k \in R : \E i \in 1..n : order[i] = k
    OBVIOUS
  <2> HIDE DEF R
  <2>4. order \in Injection(1..n, R)
    BY <2>1, <2>2 DEF Injection, IsInjective
  <2>5. order \in Surjection(1..n, R)
    BY <2>1, <2>3 DEF Surjection
  <2> QED BY <2>4, <2>5 DEF Bijection
<1>5. Cardinality(R) = n
  BY <1>4, FS_CountingElements DEF ExistsBijection
<1>6. R = S
  BY <1>1, <1>3, <1>5, FS_Subset
<1> QED BY <1>1, <1>2, <1>6

LEMMA ContentsFacts ==
  ASSUME NEW es \in Entries, NEW text \in Contents(es)
  PROVE  \E order, g, n : Writes(text, es, order, g, n)
<1> HIDE DEF Chars
<1>1. PICK order \in SetToSeqs(DOMAIN es) :
         text = FlattenSeq([i \in DOMAIN order |-> Line(order[i], es[order[i]])])
  BY DEF Contents
<1>2. IsFiniteSet(DOMAIN es) /\ DOMAIN es \subseteq Text /\ \A k \in DOMAIN es : es[k] \in Results
  BY EntriesFacts
<1>3. PICK n \in Nat : n = Cardinality(DOMAIN es)
  BY <1>2, FS_CardinalityType
<1>4. /\ order \in [1..n -> DOMAIN es] /\ \A k \in DOMAIN es : \E i \in 1..n : order[i] = k
      /\ \A i, j \in 1..n : i # j => order[i] # order[j]
  BY <1>2, <1>3, AllOrdered
<1>5. PICK q : q = [i \in 1..n |-> Line(order[i], es[order[i]])]
  OBVIOUS
<1>6. \A i \in 1..n : q[i] \in Text
  <2> SUFFICES ASSUME NEW i \in 1..n PROVE q[i] \in Text
    OBVIOUS
  <2>1. Reads(Line(order[i], es[order[i]]), order[i], es[order[i]])
    BY <1>2, <1>4, LineFacts
  <2> QED BY <1>5, <2>1 DEF Reads
<1>7. q \in Seq(Seq(Chars)) /\ Len(q) = n
  <2> DEFINE S == Text
  <2> HIDE DEF S
  <2>1. q \in [1..n -> S]
    BY <1>5, <1>6 DEF S
  <2>2. q \in Seq(S) /\ Len(q) = n
    BY <2>1
  <2> QED BY <2>2 DEF S, Text
<1>8. text = FlattenSeq(q)
  BY <1>1, <1>4, <1>5
<1>9. PICK g \in [0..n -> Seq(Chars)] :
            /\ g[0] = << >> /\ FlattenSeq(q) = g[n]
            /\ \A i \in 1..n : g[i] = g[i - 1] \o q[i]
  BY <1>7, FlattenSteps
<1>10. Writes(text, es, order, g, n)
  BY <1>4, <1>5, <1>8, <1>9 DEF Writes, Text
<1> QED BY <1>10

Ended(t) == Len(t) = 0 \/ t[Len(t)] = "\n"

\* What is written ends a line, and is as honest as the entries.
LEMMA WritesFacts ==
  ASSUME NEW es \in Entries, NEW text, NEW order, NEW g, NEW n, Writes(text, es, order, g, n),
         NEW k \in 0..n
  PROVE  g[k] \in Text /\ Ended(g[k]) /\ (HonestEntries(es) => Honest(g[k]))
<1> HIDE DEF Chars
<1>1. /\ n \in Nat /\ order \in [1..n -> DOMAIN es] /\ g \in [0..n -> Text] /\ g[0] = << >>
      /\ \A i \in 1..n : g[i] = g[i - 1] \o Line(order[i], es[order[i]])
  BY DEF Writes
<1> DEFINE T == {i \in Nat : i <= n => Ended(g[i]) /\ (HonestEntries(es) => Honest(g[i]))}
<1>2. 0 \in T
  BY <1>1, EmptyHonest DEF Ended
<1>3. ASSUME NEW i \in Nat, i \in T PROVE i + 1 \in T
  <2> SUFFICES ASSUME i + 1 <= n PROVE Ended(g[i + 1]) /\ (HonestEntries(es) => Honest(g[i + 1]))
    OBVIOUS
  <2>1. i + 1 \in 1..n /\ (i + 1) - 1 = i /\ i \in 0..n
    BY <1>1
  <2>2. PICK a, key, res : a = g[i] /\ key = order[i + 1] /\ res = es[key]
    OBVIOUS
  <2>3. a \in Text /\ Ended(a) /\ (HonestEntries(es) => Honest(a))
    BY <1>1, <1>3, <2>1, <2>2
  <2>4. key \in DOMAIN es /\ key \in Text /\ res \in Results
    BY <1>1, <2>1, <2>2, EntriesFacts
  <2>5. PICK l : l = Line(key, res)
    OBVIOUS
  <2>6. l \in Text /\ Len(l) \in Nat /\ Len(l) > 0 /\ l[Len(l)] = "\n"
    <3>1. PICK a1 \in Nat, b1 \in Nat : a1 = Len(key) /\ b1 = Len(res.term)
      BY <2>4, LineFacts DEF Reads
    <3>2. l \in Text /\ Len(l) = a1 + b1 + 4 /\ l[a1 + b1 + 4] = "\n"
      <4>1. Reads(l, key, res)
        BY <2>4, <2>5, LineFacts
      <4> QED BY <3>1, <4>1 DEF Reads
    <3> QED BY <3>2
  <2>7. HonestEntries(es) => Honest(l)
    BY <2>2, <2>4, <2>5 DEF HonestEntries
  <2>8. PICK t : t = a \o l
    OBVIOUS
  <2>9. Joins(t, a, l)
    BY <2>3, <2>6, <2>8, TextConcat
  <2>10. Ended(t)
    <3>1. Len(l) \in 1..Len(l) /\ t[Len(a) + Len(l)] = l[Len(l)] /\ Len(t) = Len(a) + Len(l)
      BY <2>6, <2>9 DEF Joins
    <3> QED BY <2>6, <3>1 DEF Ended
  <2>11. HonestEntries(es) => Honest(t)
    BY <2>3, <2>6, <2>7, <2>8, HonestConcat DEF Ended
  <2>12. g[i + 1] = t
    BY <1>1, <2>1, <2>2, <2>5, <2>8
  <2> QED BY <2>10, <2>11, <2>12
<1> HIDE DEF T
<1>4. Nat \subseteq T
  BY <1>2, <1>3, Everything
<1>5. Ended(g[k]) /\ (HonestEntries(es) => Honest(g[k]))
  BY <1>1, <1>4 DEF T
<1> QED BY <1>1, <1>5

LEMMA ContentsHonest ==
  ASSUME NEW es \in Entries, NEW text \in Contents(es)
  PROVE  text \in Text /\ Ended(text) /\ (HonestEntries(es) => Honest(text))
<1> HIDE DEF Chars
<1>1. PICK order, g, n : Writes(text, es, order, g, n)
  BY ContentsFacts
<1>2. n \in 0..n /\ text = g[n]
  BY <1>1 DEF Writes
<1> QED BY <1>1, <1>2, WritesFacts

-----------------------------------------------------------------------------
(* Reading back what a flush wrote.                                         *)

\* A line without its end.
BodyOf(line, k, r) ==
    /\ line \in Text /\ Len(line) = Len(k) + Len(r.term) + 3
    /\ \A i \in 1..Len(line) : line[i] = Line(k, r)[i]
Bar(t) == "|" \in ToSet(t)
SameResult(res, r) == res.is_sat = r.is_sat /\ (~Bar(r.term) => res.term = r.term)

LEMMA PartsNotEmpty ==
  ASSUME NEW parts \in Parts
  PROVE  Len(parts) > 0
<1> HIDE DEF Chars
<1>1. parts \in Seq(Text) /\ parts # << >>
  BY DEF Parts
<1> HIDE DEF Text
<1> QED BY <1>1

LEMMA SameText ==
  ASSUME NEW t \in Text, NEW u \in Text, Len(t) = Len(u), \A i \in 1..Len(u) : t[i] = u[i]
  PROVE  t = u
<1> HIDE DEF Chars
<1> QED BY DEF Text

LEMMA BodyRead ==
  ASSUME NEW line, NEW k \in Text, NEW r \in Results, Plain(k), BodyOf(line, k, r), NEW found
  PROVE  \E res \in Results : ParsedStep(found, line) = With(found, k, res) /\ SameResult(res, r)
<1> HIDE DEF Chars
<1>1. PICK a \in Nat, b \in Nat, n \in Nat : a = Len(k) /\ b = Len(r.term) /\ n = a + b + 3
  <2>1. Len(k) \in Nat /\ Len(r.term) \in Nat
    BY LineFacts DEF Reads
  <2> QED BY <2>1
<1>2. PICK term \in Text : term = r.term
  BY DEF Results
<1>3. /\ line \in Text /\ Len(line) = n
      /\ \A i \in 1..a : line[i] = k[i] /\ k[i] # "|"
      /\ line[a + 1] = "|" /\ line[a + 2] = (IF r.is_sat THEN "1" ELSE "0") /\ line[a + 3] = "|"
      /\ \A i \in 1..b : line[a + 3 + i] = term[i]
  <2>1. PICK l : l = Line(k, r)
    OBVIOUS
  <2>2. line \in Text /\ Len(line) = n /\ \A i \in 1..n : line[i] = l[i]
    BY <1>1, <2>1 DEF BodyOf
  <2>3. /\ \A i \in 1..a : l[i] = k[i]
        /\ l[a + 1] = "|" /\ l[a + 2] = (IF r.is_sat THEN "1" ELSE "0") /\ l[a + 3] = "|"
        /\ \A i \in 1..b : l[a + 3 + i] = term[i]
    <3>1. Reads(l, k, r)
      BY <2>1, LineFacts
    <3> QED BY <1>1, <1>2, <3>1 DEF Reads
  <2>4. a + 1 \in 1..n /\ a + 2 \in 1..n /\ a + 3 \in 1..n /\ 1..a \subseteq 1..n
    BY <1>1
  <2>5. \A i \in 1..b : a + 3 + i \in 1..n
    BY <1>1
  <2>6. \A i \in 1..a : k[i] # "|"
    BY <1>1 DEF Plain
  <2> QED BY <2>2, <2>3, <2>4, <2>5, <2>6
<1>4. PICK parts, s : parts = Split(line, "|") /\ Splits(line, n, "|", parts, s)
  BY <1>3, SplitFacts
<1>5. parts \in Parts /\ Len(parts) \in Nat /\ \A j \in 1..Len(parts) : parts[j] \in Text
  BY <1>3, <1>4, SplitParts
<1>6. 1 \in 1..Len(parts) /\ s[1] = 0
  <2>1. Len(parts) > 0
    BY <1>5, PartsNotEmpty
  <2> QED BY <1>4, <1>5, <2>1 DEF Splits
<1>7. parts[1] = k /\ 2 \in 1..Len(parts) /\ s[2] = a + 1
  <2>1. a \in s[1]..n /\ a < n /\ (\A i \in (s[1] + 1)..a : line[i] # "|") /\ line[a + 1] = "|"
    BY <1>1, <1>3, <1>6
  <2>2. /\ Len(parts[1]) = a - s[1] /\ \A i \in 1..(a - s[1]) : parts[1][i] = line[s[1] + i]
        /\ a < n => 1 + 1 \in 1..Len(parts) /\ s[1 + 1] = a + 1
    <3>1. Stretch(line, n, "|", s[1], a)
      BY <2>1 DEF Stretch
    <3>2. Field(line, n, parts, s, 1, a)
      BY <1>4, <1>6, <2>1, <3>1, FieldAt
    <3> QED BY <3>2 DEF Field
  <2>3. Len(parts[1]) = a /\ \A i \in 1..a : parts[1][i] = k[i]
    BY <1>1, <1>3, <1>6, <2>2
  <2>4. parts[1] = k
    BY <1>1, <1>5, <1>6, <2>3, SameText
  <2> QED BY <2>1, <2>2, <2>4
<1>8. Len(parts[2]) = 1 /\ parts[2][1] = line[a + 2] /\ 3 \in 1..Len(parts) /\ s[3] = a + 3
  <2>1. /\ a + 2 \in s[2]..n /\ a + 2 < n /\ (\A i \in (s[2] + 1)..(a + 2) : line[i] # "|")
        /\ line[(a + 2) + 1] = "|"
    <3>1. line[a + 2] # "|"
      BY <1>3
    <3>2. \A i \in (s[2] + 1)..(a + 2) : i = a + 2
      BY <1>7
    <3>3. (a + 2) + 1 = a + 3 /\ a + 2 < n /\ a + 2 \in s[2]..n
      BY <1>1, <1>7
    <3> QED BY <1>3, <3>1, <3>2, <3>3
  <2>2. PICK e \in s[2]..n : e = a + 2
    BY <2>1
  <2>3. e < n /\ (\A i \in (s[2] + 1)..e : line[i] # "|") /\ line[e + 1] = "|"
    BY <2>1, <2>2
  <2>4. /\ Len(parts[2]) = e - s[2] /\ \A i \in 1..(e - s[2]) : parts[2][i] = line[s[2] + i]
        /\ 2 + 1 \in 1..Len(parts) /\ s[2 + 1] = e + 1
    <3>1. Stretch(line, n, "|", s[2], e)
      BY <2>3 DEF Stretch
    <3>2. Field(line, n, parts, s, 2, e)
      BY <1>4, <1>7, <2>3, <3>1, FieldAt
    <3> QED BY <2>3, <3>2 DEF Field
  <2>5. e - s[2] = 1 /\ s[2] + 1 = a + 2 /\ 1 \in 1..(e - s[2]) /\ e + 1 = a + 3
    BY <1>7, <2>2
  <2>6. parts[2][1] = line[s[2] + 1]
    BY <2>4, <2>5
  <2> QED BY <2>4, <2>5, <2>6
<1>9. (parts[2] = <<"1">>) = r.is_sat
  <2>1. PICK p \in Text : p = parts[2]
    BY <1>5, <1>7
  <2>2. PICK one : one = <<"1">>
    OBVIOUS
  <2>3. Len(one) = 1 /\ one[1] = "1" /\ one \in Text
    BY <2>2 DEF Text, Chars
  <2>4. r.is_sat \in BOOLEAN
    BY DEF Results
  <2>5. ASSUME r.is_sat PROVE p = one
    <3>1. Len(p) = 1 /\ p[1] = "1"
      BY <1>3, <1>8, <2>1, <2>5
    <3> QED BY <2>1, <2>3, <3>1, SameText
  <2>6. ASSUME p = one PROVE r.is_sat
    <3>1. line[a + 2] = "1"
      BY <1>8, <2>1, <2>3, <2>6
    <3> QED BY <1>3, <3>1
  <2> QED BY <2>1, <2>2, <2>4, <2>5, <2>6
<1>10. ASSUME ~Bar(term) PROVE parts[3] = term
  <2>1. \A i \in 1..b : term[i] # "|"
    <3>1. term \in Seq(Chars) /\ Len(term) = b
      BY <1>1, <1>2 DEF Text
    <3> QED BY <1>10, <3>1, InToSet DEF Bar
  <2>2. ASSUME NEW i \in (s[3] + 1)..n PROVE line[i] # "|"
    <3>1. PICK j \in 1..b : i = a + 3 + j
      <4>1. i - (a + 3) \in 1..b /\ i = a + 3 + (i - (a + 3))
        BY <1>1, <1>8
      <4> QED BY <4>1
    <3> QED BY <1>3, <2>1, <3>1
  <2>3. PICK e \in s[3]..n : e = n
    BY <1>1, <1>8
  <2>4. \A i \in (s[3] + 1)..e : line[i] # "|"
    BY <2>2, <2>3
  <2>5. Len(parts[3]) = e - s[3] /\ \A i \in 1..(e - s[3]) : parts[3][i] = line[s[3] + i]
    <3>1. e < n => line[e + 1] = "|"
      BY <2>3
    <3>2. Stretch(line, n, "|", s[3], e)
      BY <2>4, <3>1 DEF Stretch
    <3>3. Field(line, n, parts, s, 3, e)
      BY <1>4, <1>8, <3>2, FieldAt
    <3> QED BY <3>3 DEF Field
  <2>6. e - s[3] = b
    BY <1>1, <1>8, <2>3
  <2>7. Len(parts[3]) = b /\ \A i \in 1..b : parts[3][i] = term[i]
    BY <1>3, <1>8, <2>5, <2>6
  <2> QED BY <1>1, <1>2, <1>5, <1>8, <2>7, SameText
<1>11. PICK res : res = ResultOf(parts)
  OBVIOUS
<1>12. Len(parts) >= 2 /\ Len(parts) >= 3
  BY <1>5, <1>8
<1>13. res \in Results
  BY <1>5, <1>11, <1>12, ResultTyped
<1>14. res.is_sat = r.is_sat /\ res.term = parts[3]
  BY <1>9, <1>11, <1>12 DEF ResultOf
<1>15. SameResult(res, r)
  BY <1>2, <1>10, <1>14 DEF SameResult
<1>16. ParsedStep(found, line) = With(found, k, res)
  BY <1>4, <1>7, <1>11, <1>12 DEF ParsedStep
<1> QED BY <1>13, <1>15, <1>16

\* Each line of a flush is read as one.
LEMMA LinesRead ==
  ASSUME NEW es \in Entries, KeysPlain(es), TermsUnbroken(es),
         NEW text, NEW order, NEW g, NEW n, Writes(text, es, order, g, n)
  PROVE  /\ Len(Split(text, "\n")) = n + 1 /\ Len(Split(text, "\n")[n + 1]) = 0
         /\ \A i \in 1..n : BodyOf(Split(text, "\n")[i], order[i], es[order[i]])
<1> HIDE DEF Chars
<1>1. /\ n \in Nat /\ order \in [1..n -> DOMAIN es] /\ g \in [0..n -> Text] /\ g[0] = << >> /\ text = g[n]
      /\ \A i \in 1..n : g[i] = g[i - 1] \o Line(order[i], es[order[i]])
  BY DEF Writes
<1>2. text \in Text
  BY <1>1
<1>3. PICK N \in Nat : N = Len(text)
  BY <1>2 DEF Text
<1>4. PICK lines, s : lines = Split(text, "\n") /\ Splits(text, N, "\n", lines, s)
  BY <1>2, <1>3, SplitFacts
<1>5. Len(lines) \in Nat /\ \A j \in 1..Len(lines) : lines[j] \in Text
  BY <1>2, <1>4, SplitParts
<1>6. \A i \in 0..n : Len(g[i]) \in Nat
  BY <1>1 DEF Text
\* The lines before a line, and the line.
<1>7. ASSUME NEW i \in 1..n
      PROVE  Joins(g[i], g[i - 1], Line(order[i], es[order[i]]))
  <2>1. i - 1 \in 0..n /\ g[i - 1] \in Text
    BY <1>1
  <2>2. order[i] \in Text /\ es[order[i]] \in Results
    BY <1>1, EntriesFacts
  <2>3. Line(order[i], es[order[i]]) \in Text
    BY <2>2, LineFacts DEF Reads
  <2> QED BY <1>1, <2>1, <2>3, TextConcat
<1> DEFINE Before(i) == Len(g[i]) <= N /\ \A j \in 1..Len(g[i]) : text[j] = g[i][j]
           T == {d \in Nat : d <= n => Before(n - d)}
<1>8. \A i \in 0..n : Before(i)
  <2>1. 0 \in T
    BY <1>1, <1>3, <1>6
  <2>2. ASSUME NEW d \in Nat, d \in T PROVE d + 1 \in T
    <3> SUFFICES ASSUME d + 1 <= n PROVE Before(n - (d + 1))
      OBVIOUS
    <3>1. PICK i \in 1..n : i = n - d
      BY <1>1
    <3>2. i - 1 = n - (d + 1) /\ i - 1 \in 0..n
      BY <1>1, <3>1
    <3>3. Before(i)
      BY <1>1, <2>2, <3>1
    <3>4. PICK x : x = Line(order[i], es[order[i]])
      OBVIOUS
    <3>5. PICK b \in Nat, c \in Nat : b = Len(g[i - 1]) /\ c = Len(x) /\ Len(g[i]) = b + c
      BY <1>7, <3>4 DEF Joins
    <3>6. \A j \in 1..b : g[i][j] = g[i - 1][j]
      BY <1>7, <3>5 DEF Joins
    <3>7. b <= N
      BY <3>3, <3>5
    <3>8. ASSUME NEW j \in 1..b PROVE text[j] = g[i - 1][j]
      <4>1. j \in 1..Len(g[i])
        BY <3>5
      <4> QED BY <3>3, <3>6, <4>1
    <3>9. Before(i - 1)
      BY <3>5, <3>7, <3>8
    <3> QED BY <3>2, <3>9
  <2> HIDE DEF T
  <2>3. Nat \subseteq T
    BY <2>1, <2>2, Everything
  <2>4. ASSUME NEW i \in 0..n PROVE Before(i)
    <3>1. n - i \in Nat /\ n - i <= n /\ n - (n - i) = i
      BY <1>1
    <3>2. n - i \in T
      BY <2>3, <3>1
    <3>3. Before(n - (n - i))
      BY <3>1, <3>2 DEF T
    <3> QED BY <3>1, <3>3
  <2> QED BY <2>4
<1> HIDE DEF Before, T
<1> DEFINE Starts(i) == i + 1 \in 1..Len(lines) /\ s[i + 1] = Len(g[i])
           U == {i \in Nat : i <= n => Starts(i)}
<1>9. Starts(0)
  <2>1. Len(lines) > 0
    BY <1>4, <1>5, PartsNotEmpty DEF Splits
  <2>2. s[1] = 0
    BY <1>4 DEF Splits
  <2>3. Len(g[0]) = 0
    BY <1>1
  <2> QED BY <1>5, <2>1, <2>2, <2>3
\* The line after a start.
<1>10. ASSUME NEW i \in 1..n, Starts(i - 1)
       PROVE  Starts(i) /\ BodyOf(lines[i], order[i], es[order[i]])
  <2>1. PICK key, r : key = order[i] /\ r = es[key]
    OBVIOUS
  <2>2. /\ key \in Text /\ r \in Results /\ Plain(key) /\ Unbroken(r.term)
    BY <1>1, <2>1, EntriesFacts DEF KeysPlain, TermsUnbroken
  <2>0. PICK l : l = Line(key, r)
    OBVIOUS
  <2>3. PICK a \in Nat, b \in Nat : l = Line(key, r) /\ a = Len(key) /\ b = Len(r.term)
    <3>1. Len(key) \in Nat /\ Len(r.term) \in Nat
      BY <2>2, LineFacts DEF Reads
    <3> QED BY <2>0, <3>1
  <2>4. PICK m \in Nat : m = a + b + 3
    OBVIOUS
  <2>5. /\ l \in Text /\ Len(l) = m + 1
        /\ \A j \in 1..a : l[j] = key[j]
        /\ l[a + 1] = "|" /\ l[a + 2] = (IF r.is_sat THEN "1" ELSE "0") /\ l[a + 3] = "|"
        /\ \A j \in 1..b : l[a + 3 + j] = r.term[j]
        /\ l[m + 1] = "\n"
    <3>1. m + 1 = a + b + 4
      BY <2>4
    <3>2. Reads(l, key, r)
      BY <2>2, <2>3, LineFacts
    <3> QED BY <2>3, <2>4, <3>1, <3>2 DEF Reads
  <2>6. ASSUME NEW j \in 1..m PROVE l[j] # "\n"
    <3>1. CASE j \in 1..a
      BY <2>2, <2>3, <2>5, <3>1 DEF Plain
    <3>2. CASE j \in (a + 4)..m
      <4>1. PICK x \in 1..b : j = a + 3 + x
        <5>1. j - (a + 3) \in 1..b /\ j = a + 3 + (j - (a + 3))
          BY <2>4, <3>2
        <5> QED BY <5>1
      <4> QED BY <2>2, <2>3, <2>5, <4>1 DEF Unbroken
    <3>3. CASE j \in {a + 1, a + 2, a + 3}
      BY <2>5, <3>3
    <3> QED BY <2>4, <3>1, <3>2, <3>3
  <2>7. PICK o \in Nat : o = Len(g[i - 1]) /\ Len(g[i]) = o + (m + 1)
    <3>1. Joins(g[i], g[i - 1], l)
      BY <1>7, <2>1, <2>3
    <3> QED BY <2>5, <3>1 DEF Joins
  <2>8. ASSUME NEW j \in 1..(m + 1) PROVE text[o + j] = l[j]
    <3>0. PICK p \in Nat : p = o + j
      OBVIOUS
    <3>5. p \in 1..(o + (m + 1))
      BY ONLY <3>0, o \in Nat, m \in Nat, j \in 1..(m + 1)
    <3>6. i \in 0..n
      BY ONLY <1>1, i \in 1..n
    <3>1. o + j \in 1..Len(g[i]) /\ i \in 0..n
      BY <2>7, <3>0, <3>5, <3>6
    <3>2. text[o + j] = g[i][o + j]
      BY <1>8, <3>1 DEF Before
    <3>3. g[i][o + j] = l[j]
      <4>1. Joins(g[i], g[i - 1], l)
        BY <1>7, <2>1, <2>3
      <4> QED BY <2>5, <2>7, <4>1 DEF Joins
    <3> QED BY <3>2, <3>3
  <2>9. i \in 1..Len(lines) /\ s[i] = o
    <3>1. (i - 1) + 1 = i
      OBVIOUS
    <3> QED BY <1>10, <2>7, <3>1
  <2>10. o + (m + 1) <= N
    <3>1. i \in 0..n
      OBVIOUS
    <3> QED BY <1>8, <2>7, <3>1 DEF Before
  <2>11. PICK e \in s[i]..N : e = o + m
    BY <2>9, <2>10
  <2>12. ASSUME NEW x \in (s[i] + 1)..e PROVE text[x] # "\n"
    <3>1. PICK j \in 1..m : x = o + j
      <4>1. x - o \in 1..m /\ x = o + (x - o)
        BY <2>9, <2>11
      <4> QED BY <4>1
    <3>2. j \in 1..(m + 1)
      OBVIOUS
    <3> QED BY <2>6, <2>8, <3>1, <3>2
  <2>13. e < N /\ text[e + 1] = "\n" /\ e + 1 = o + (m + 1)
    <3>1. e < N /\ e + 1 = o + (m + 1) /\ m + 1 \in 1..(m + 1)
      BY <2>10, <2>11
    <3>2. text[o + (m + 1)] = l[m + 1]
      BY <2>8, <3>1
    <3> QED BY <2>5, <3>1, <3>2
  <2>14. /\ Len(lines[i]) = e - s[i] /\ \A x \in 1..(e - s[i]) : lines[i][x] = text[s[i] + x]
         /\ i + 1 \in 1..Len(lines) /\ s[i + 1] = e + 1
    <3>1. Stretch(text, N, "\n", s[i], e)
      BY <2>12, <2>13 DEF Stretch
    <3>2. Field(text, N, lines, s, i, e)
      BY <1>4, <2>9, <3>1, FieldAt
    <3> QED BY <2>13, <3>2 DEF Field
  <2>15. Starts(i)
    BY <2>7, <2>13, <2>14
  <2>16. e - s[i] = m
    BY <2>9, <2>11
  <2>17. ASSUME NEW x \in 1..m PROVE lines[i][x] = l[x]
    <3>1. x \in 1..(m + 1)
      OBVIOUS
    <3>2. lines[i][x] = text[o + x]
      BY <2>9, <2>14, <2>16
    <3> QED BY <2>8, <3>1, <3>2
  <2>18. BodyOf(lines[i], key, r)
    <3>1. Len(lines[i]) = m
      BY <2>14, <2>16
    <3> QED BY <1>5, <2>3, <2>4, <2>9, <2>17, <3>1 DEF BodyOf
  <2> QED BY <2>1, <2>15, <2>18
<1>11. \A i \in 0..n : Starts(i)
  <2>1. 0 \in U
    BY <1>9
  <2>2. ASSUME NEW i \in Nat, i \in U PROVE i + 1 \in U
    <3> SUFFICES ASSUME i + 1 <= n PROVE Starts(i + 1)
      OBVIOUS
    <3>1. PICK j \in 1..n : j = i + 1
      BY <1>1
    <3>2. j - 1 = i
      BY <3>1
    <3> HIDE DEF Starts
    <3>3. Starts(j - 1)
      BY <1>1, <2>2, <3>1, <3>2
    <3>4. Starts(j)
      BY <1>10, <3>3
    <3> QED BY <3>1, <3>4
  <2> HIDE DEF U
  <2>3. Nat \subseteq U
    BY <2>1, <2>2, Everything
  <2> HIDE DEF Starts
  <2>4. \A i \in 0..n : i \in U /\ i <= n
    BY <1>1, <2>3
  <2> QED BY <2>4 DEF U
<1>12. \A i \in 1..n : BodyOf(lines[i], order[i], es[order[i]])
  <2> SUFFICES ASSUME NEW i \in 1..n PROVE BodyOf(lines[i], order[i], es[order[i]])
    OBVIOUS
  <2> HIDE DEF Starts
  <2>1. i - 1 \in 0..n
    BY <1>1
  <2>2. Starts(i - 1)
    BY <1>11, <2>1
  <2> QED BY <1>10, <2>2
<1>13. Len(lines) = n + 1 /\ Len(lines[n + 1]) = 0
  <2>1. n + 1 \in 1..Len(lines) /\ s[n + 1] = N
    <3>1. n \in 0..n
      BY <1>1
    <3>2. Starts(n)
      BY <1>11, <3>1
    <3> QED BY <1>1, <1>3, <3>2
  <2>2. PICK e \in s[n + 1]..N : e = N
    BY <2>1
  <2>3. \A x \in (s[n + 1] + 1)..e : text[x] # "\n"
    <3>1. ~ \E x \in (s[n + 1] + 1)..e : TRUE
      BY <2>1, <2>2
    <3> QED BY <3>1
  <2>4. Len(lines[n + 1]) = e - s[n + 1] /\ (e = N) = (n + 1 = Len(lines))
    <3>1. e < N => text[e + 1] = "\n"
      BY <2>2
    <3>2. Stretch(text, N, "\n", s[n + 1], e)
      BY <2>3, <3>1 DEF Stretch
    <3>3. Field(text, N, lines, s, n + 1, e)
      BY <1>4, <2>1, <3>2, FieldAt
    <3> QED BY <3>3 DEF Field
  <2> QED BY <2>1, <2>2, <2>4
<1> QED BY <1>4, <1>12, <1>13

Same(read, es) ==
    /\ DOMAIN read = DOMAIN es
    /\ \A k \in DOMAIN es : SameResult(read[k], es[k])

\* A flush is read back whole.
LEMMA ReadBack ==
  ASSUME NEW es \in Entries, KeysPlain(es), TermsUnbroken(es), NEW text \in Contents(es)
  PROVE  Same(Parsed(text), es)
<1> HIDE DEF Chars
<1>1. PICK order, g, n : Writes(text, es, order, g, n)
  BY ContentsFacts
<1>2. n \in Nat /\ order \in [1..n -> DOMAIN es] /\ \A k \in DOMAIN es : \E i \in 1..n : order[i] = k
  BY <1>1 DEF Writes
<1>0. \A i, j \in 1..n : i # j => order[i] # order[j]
  BY <1>1 DEF Writes
<1>3. text \in Text
  BY ContentsHonest
<1>4. PICK lines : lines = Split(text, "\n")
  OBVIOUS
<1>5. /\ Len(lines) = n + 1 /\ Len(lines[n + 1]) = 0
      /\ \A i \in 1..n : BodyOf(lines[i], order[i], es[order[i]])
  BY <1>1, <1>4, LinesRead
<1>6. PICK f \in [0..(n + 1) -> Entries] :
            /\ f[0] = << >> /\ Parsed(text) = f[n + 1]
            /\ \A k \in 1..(n + 1) : f[k] = ParsedStep(f[k - 1], lines[k])
  BY <1>3, <1>4, <1>5, ParsedSteps
<1> DEFINE Has(k) == /\ DOMAIN f[k] = {order[i] : i \in 1..k}
                     /\ \A i \in 1..k : SameResult(f[k][order[i]], es[order[i]])
           T == {k \in Nat : k <= n => Has(k)}
<1>7. Has(0)
  <2>1. DOMAIN f[0] = {} /\ ~ \E i \in 1..0 : TRUE
    BY <1>6
  <2> QED BY <2>1
<1>8. ASSUME NEW k \in 1..n, Has(k - 1) PROVE Has(k)
  <2>1. PICK line, key, r : line = lines[k] /\ key = order[k] /\ r = es[key]
    OBVIOUS
  <2>2. key \in Text /\ r \in Results /\ Plain(key) /\ key \in DOMAIN es
    BY <1>2, <2>1, EntriesFacts DEF KeysPlain
  <2>3. BodyOf(line, key, r)
    BY <1>5, <2>1
  <2>4. k - 1 \in 0..(n + 1) /\ k \in 1..(n + 1)
    BY <1>2
  <2>5. PICK old \in Entries : old = f[k - 1]
    BY <2>4
  <2>6. PICK res \in Results : ParsedStep(old, line) = With(old, key, res) /\ SameResult(res, r)
    BY <2>2, <2>3, BodyRead
  <2>7. PICK new : new = With(old, key, res)
    OBVIOUS
  <2>8. /\ DOMAIN new = DOMAIN old \cup {key} /\ new[key] = res
        /\ \A x \in DOMAIN old : x # key => new[x] = old[x]
    BY <2>2, <2>7, Extended
  <2>9. f[k] = new
    BY <1>6, <2>1, <2>4, <2>5, <2>6, <2>7
  <2>10. 1..k = 1..(k - 1) \cup {k}
    BY <1>2
  <2>11. DOMAIN new = {order[i] : i \in 1..k}
    BY <1>8, <2>1, <2>5, <2>8, <2>10
  <2>12. ASSUME NEW i \in 1..k PROVE SameResult(new[order[i]], es[order[i]])
    <3>1. CASE i = k
      BY <2>1, <2>6, <2>8, <3>1
    <3>2. CASE i # k
      <4>1. i \in 1..(k - 1) /\ i \in 1..n
        BY <1>2, <3>2
      <4>2. order[i] # key /\ order[i] \in DOMAIN old
        BY <1>0, <1>8, <2>1, <2>5, <3>2, <4>1
      <4>3. new[order[i]] = old[order[i]]
        BY <2>8, <4>2
      <4> QED BY <1>8, <2>5, <4>1, <4>3
    <3> QED BY <3>1, <3>2
  <2> QED BY <2>9, <2>11, <2>12
<1>9. Has(n)
  <2> HIDE DEF Has
  <2>1. 0 \in T
    BY <1>7
  <2>2. ASSUME NEW k \in Nat, k \in T PROVE k + 1 \in T
    <3> SUFFICES ASSUME k + 1 <= n PROVE Has(k + 1)
      OBVIOUS
    <3>1. PICK j \in 1..n : j = k + 1
      BY <1>2
    <3>2. j - 1 = k
      BY <3>1
    <3>3. Has(j - 1)
      BY <1>2, <2>2, <3>1, <3>2
    <3>4. Has(j)
      BY <1>8, <3>3
    <3> QED BY <3>1, <3>4
  <2> HIDE DEF T
  <2>3. Nat \subseteq T
    BY <2>1, <2>2, Everything
  <2> QED BY <1>2, <2>3 DEF T
<1>10. f[n + 1] = f[n]
  <2>1. PICK line : line = lines[n + 1]
    OBVIOUS
  <2>2. line \in Text /\ Len(line) = 0
    BY <1>2, <1>3, <1>4, <1>5, <2>1, SplitParts
  <2>3. PICK parts, s : parts = Split(line, "|") /\ Splits(line, 0, "|", parts, s)
    BY <2>2, SplitFacts
  <2>4. parts \in Parts /\ Len(parts) \in Nat /\ Len(parts) > 0
    BY <2>2, <2>3, SplitParts, PartsNotEmpty
  <2>5. 1 \in 1..Len(parts) /\ s[1] = 0
    BY <2>3, <2>4 DEF Splits
  <2>6. PICK e \in s[1]..0 : e = 0
    BY <2>5
  <2>7. Stretch(line, 0, "|", s[1], e)
    BY <2>5, <2>6 DEF Stretch
  <2>8. Field(line, 0, parts, s, 1, e)
    BY <2>3, <2>5, <2>7, FieldAt
  <2>9. Len(parts) = 1
    BY <2>6, <2>8 DEF Field
  <2>10. n + 1 \in 1..(n + 1) /\ (n + 1) - 1 = n
    BY <1>2
  <2>11. f[n + 1] = ParsedStep(f[n], line)
    BY <1>6, <2>1, <2>10
  <2>12. ~(Len(Split(line, "|")) >= 2)
    <3>1. Split(line, "|") = parts
      BY <2>3
    <3>2. PICK c \in Nat : c = Len(parts) /\ ~(c >= 2)
      BY <2>9
    <3> QED BY <3>1, <3>2
  <2> QED BY <2>11, <2>12 DEF ParsedStep
<1>11. \A k \in DOMAIN es : k \in DOMAIN f[n] /\ SameResult(f[n][k], es[k])
  BY <1>2, <1>9
<1>12. DOMAIN f[n] \subseteq DOMAIN es
  BY <1>2, <1>9
<1> HIDE DEF Has, T
<1> QED BY <1>6, <1>10, <1>11, <1>12 DEF Same

-----------------------------------------------------------------------------
(* Writing in place.                                                        *)

Wrote(t, text, offset, piece) ==
    /\ t \in Text /\ Len(t) = IF offset + Len(piece) > Len(text) THEN offset + Len(piece) ELSE Len(text)
    /\ \A i \in 1..Len(piece) : t[offset + i] = piece[i]
    /\ \A i \in 1..Len(text) : i <= offset \/ i > offset + Len(piece) => t[i] = text[i]

LEMMA WrittenFacts ==
  ASSUME NEW text \in Text, NEW offset \in Nat, NEW piece \in Text
  PROVE  Wrote(WrittenAt(text, offset, piece), text, offset, piece)
<1>0. "NUL" \in Chars
  BY DEF Chars
<1> HIDE DEF Chars
<1>1. PICK a \in Nat, b \in Nat : a = Len(text) /\ b = Len(piece)
  BY DEF Text
<1>2. PICK n \in Nat : n = IF offset + b > a THEN offset + b ELSE a
  BY <1>1
<1>3. (\A i \in 1..a : text[i] \in Chars) /\ \A i \in 1..b : piece[i] \in Chars
  BY <1>1 DEF Text
<1> DEFINE Char(i) == CASE i > offset /\ i <= offset + b -> piece[i - offset]
                        [] (i <= offset \/ i > offset + b) /\ i <= a -> text[i]
                        [] i <= offset /\ i > a -> "NUL"
           f == [i \in 1..n |-> Char(i)]
<1>4. ASSUME NEW i \in 1..n
      PROVE  /\ Char(i) \in Chars
             /\ i > offset /\ i <= offset + b => Char(i) = piece[i - offset]
             /\ i <= a /\ (i <= offset \/ i > offset + b) => Char(i) = text[i]
  <2>1. CASE i > offset /\ i <= offset + b
    <3>1. i - offset \in 1..b
      BY <1>2, <2>1
    <3>2. Char(i) = piece[i - offset]
      BY <2>1
    <3> QED BY <1>3, <2>1, <3>1, <3>2
  <2>2. CASE i <= a /\ (i <= offset \/ i > offset + b)
    <3>1. Char(i) = text[i]
      BY <2>2
    <3>2. i \in 1..a
      BY <2>2
    <3> QED BY <1>3, <2>2, <3>1, <3>2
  <2>3. CASE i > a /\ ~(i > offset /\ i <= offset + b)
    <3>1. i <= offset /\ i > a
      BY <1>2, <2>3
    <3>2. Char(i) = "NUL"
      BY <3>1
    <3> HIDE DEF Char
    <3>3. Char(i) \in Chars
      BY <1>0, <3>2
    <3> QED BY <1>1, <2>3, <3>3
  <2>4. i \in Nat /\ (i > offset \/ i <= offset) /\ (i > a \/ i <= a) /\ (i > offset + b \/ i <= offset + b)
    BY <1>1, <1>2
  <2> HIDE DEF Char
  <2> QED BY <2>1, <2>2, <2>3, <2>4
<1> HIDE DEF Char
<1>5. f \in Seq(Chars) /\ Len(f) = n
  <2>1. f \in [1..n -> Chars]
    BY <1>4
  <2> HIDE DEF f
  <2> QED BY <2>1
<1>6. WrittenAt(text, offset, piece) = f \o << >>
  BY <1>1, <1>2 DEF WrittenAt, Char
<1>7. f \o << >> = f
  <2>1. PICK t : t = f \o << >>
    OBVIOUS
  <2>2. << >> \in Text /\ f \in Text /\ Len(<< >>) = 0
    BY <1>5 DEF Text
  <2>3. Joins(t, f, << >>)
    BY <2>1, <2>2, TextConcat
  <2>4. t \in Text /\ Len(t) = Len(f) /\ \A i \in 1..Len(f) : t[i] = f[i]
    BY <1>5, <2>2, <2>3 DEF Joins
  <2> QED BY <2>1, <2>2, <2>4, SameText
<1>8. \A i \in 1..n : f[i] = Char(i)
  OBVIOUS
<1> HIDE DEF f
<1>9. ASSUME NEW i \in 1..b PROVE f[offset + i] = piece[i]
  <2>1. PICK j \in 1..n : j = offset + i
    BY <1>2
  <2>2. j > offset /\ j <= offset + b /\ j - offset = i
    BY <2>1
  <2> QED BY <1>4, <1>8, <2>1, <2>2
<1>10. ASSUME NEW i \in 1..a, i <= offset \/ i > offset + b PROVE f[i] = text[i]
  <2>1. i \in 1..n /\ i <= a
    BY <1>2
  <2> QED BY <1>4, <1>8, <1>10, <2>1
<1> QED BY <1>1, <1>2, <1>5, <1>6, <1>7, <1>9, <1>10 DEF Wrote, Text

LEMMA SubText ==
  ASSUME NEW c \in Text, NEW lo \in Nat, NEW hi \in Nat, lo <= hi, hi <= Len(c)
  PROVE  /\ SubSeq(c, lo + 1, hi) \in Text /\ Len(SubSeq(c, lo + 1, hi)) = hi - lo
         /\ \A i \in 1..(hi - lo) : SubSeq(c, lo + 1, hi)[i] = c[lo + i]
<1> HIDE DEF Chars
<1>1. c \in Seq(Chars) /\ Len(c) \in Nat
  BY DEF Text
<1>2. PICK t : t = SubSeq(c, lo + 1, hi)
  OBVIOUS
<1>3. t = [i \in 1..(hi - lo) |-> c[lo + i]]
  <2>1. t = [i \in 1..(hi - (lo + 1) + 1) |-> c[(lo + 1) + i - 1]]
    BY <1>1, <1>2
  <2>2. hi - (lo + 1) + 1 = hi - lo /\ \A i \in 1..(hi - lo) : (lo + 1) + i - 1 = lo + i
    OBVIOUS
  <2> QED BY <2>1, <2>2
<1>4. \A i \in 1..(hi - lo) : c[lo + i] \in Chars
  <2> SUFFICES ASSUME NEW i \in 1..(hi - lo) PROVE c[lo + i] \in Chars
    OBVIOUS
  <2>1. lo + i \in 1..Len(c)
    BY <1>1
  <2> QED BY <1>1, <2>1
<1>5. t \in Seq(Chars) /\ Len(t) = hi - lo
  <2>1. PICK n \in Nat : n = hi - lo
    <3>1. hi - lo \in Nat
      OBVIOUS
    <3> QED BY <3>1
  <2>2. t \in [1..n -> Chars]
    BY <1>3, <1>4, <2>1
  <2> QED BY <2>1, <2>2
<1> QED BY <1>2, <1>3, <1>5 DEF Text

\* The next piece behind those before it.
LEMMA NextPiece ==
  ASSUME NEW c \in Text, NEW w \in Nat, NEW n \in Nat, w <= n, n <= Len(c)
  PROVE  WrittenAt(SubSeq(c, 1, w), w, SubSeq(c, w + 1, n)) = SubSeq(c, 1, n)
<1> HIDE DEF Chars
<1>0. Len(c) \in Nat
  BY DEF Text
<1>1. PICK before, piece, after : before = SubSeq(c, 1, w) /\ piece = SubSeq(c, w + 1, n) /\ after = SubSeq(c, 1, n)
  OBVIOUS
<1>2. before \in Text /\ Len(before) = w /\ \A i \in 1..w : before[i] = c[i]
  <2>1. /\ SubSeq(c, 0 + 1, w) \in Text /\ Len(SubSeq(c, 0 + 1, w)) = w - 0
        /\ \A i \in 1..(w - 0) : SubSeq(c, 0 + 1, w)[i] = c[0 + i]
    BY <1>0, SubText
  <2> QED BY <1>1, <2>1
<1>3. after \in Text /\ Len(after) = n /\ \A i \in 1..n : after[i] = c[i]
  <2>1. /\ SubSeq(c, 0 + 1, n) \in Text /\ Len(SubSeq(c, 0 + 1, n)) = n - 0
        /\ \A i \in 1..(n - 0) : SubSeq(c, 0 + 1, n)[i] = c[0 + i]
    BY <1>0, SubText
  <2> QED BY <1>1, <2>1
<1>4. piece \in Text /\ Len(piece) = n - w /\ \A i \in 1..(n - w) : piece[i] = c[w + i]
  BY <1>0, <1>1, SubText
<1>5. PICK t : t = WrittenAt(before, w, piece)
  OBVIOUS
<1>6. Wrote(t, before, w, piece)
  BY <1>2, <1>4, <1>5, WrittenFacts
<1>7. t \in Text /\ Len(t) = n
  BY <1>2, <1>4, <1>6 DEF Wrote
<1>8. ASSUME NEW i \in 1..n PROVE t[i] = c[i]
  <2>1. CASE i <= w
    <3>1. i \in 1..w
      BY <2>1
    <3>2. t[i] = before[i]
      BY <1>2, <1>6, <2>1, <3>1 DEF Wrote
    <3> QED BY <1>2, <3>1, <3>2
  <2>2. CASE i > w
    <3>1. PICK j \in 1..(n - w) : i = w + j
      <4>1. i - w \in 1..(n - w) /\ i = w + (i - w)
        BY <2>2
      <4> QED BY <4>1
    <3>2. t[w + j] = piece[j]
      BY <1>4, <1>6, <3>1 DEF Wrote
    <3> QED BY <1>4, <3>1, <3>2
  <2> QED BY <2>1, <2>2
<1>9. t = after
  BY <1>3, <1>7, <1>8, SameText
<1> QED BY <1>1, <1>5, <1>9

LEMMA WholeText ==
  ASSUME NEW c \in Text
  PROVE  SubSeq(c, 1, Len(c)) = c /\ SubSeq(c, 1, 0) = << >>
<1> HIDE DEF Chars
<1>1. PICK n \in Nat : n = Len(c)
  BY DEF Text
<1>2. /\ SubSeq(c, 0 + 1, n) \in Text /\ Len(SubSeq(c, 0 + 1, n)) = n - 0
      /\ \A i \in 1..(n - 0) : SubSeq(c, 0 + 1, n)[i] = c[0 + i]
  <2>1. 0 \in Nat /\ n \in Nat /\ 0 <= n /\ n <= Len(c)
    BY <1>1
  <2> QED BY ONLY <2>1, c \in Text, SubText
<1>3. SubSeq(c, 1, n) = c
  <2>1. PICK t : t = SubSeq(c, 1, n)
    OBVIOUS
  <2>2. 0 + 1 = 1 /\ n - 0 = n
    OBVIOUS
  <2>3. t \in Text /\ Len(t) = n /\ \A i \in 1..n : t[i] = c[0 + i]
    BY <1>2, <2>1, <2>2
  <2>4. \A i \in 1..n : t[i] = c[i]
    BY <2>3
  <2> QED BY <1>1, <2>1, <2>3, <2>4, SameText
<1>4. SubSeq(c, 1, 0) = << >>
  BY DEF Text
<1> QED BY <1>1, <1>3, <1>4

\* A flush in one piece over another file.
LEMMA OnePieceHonest ==
  ASSUME NEW c \in Text, Honest(c), Ended(c), NEW text \in Text, Honest(text)
  PROVE  Honest(WrittenAt(text, 0, c))
<1> HIDE DEF Chars
<1>1. PICK n \in Nat, a \in Nat : n = Len(c) /\ a = Len(text)
  BY DEF Text
<1>2. PICK t : t = WrittenAt(text, 0, c)
  OBVIOUS
<1>3. Wrote(t, text, 0, c)
  BY <1>2, WrittenFacts
<1>4. /\ t \in Text /\ Len(t) = (IF n > a THEN n ELSE a) /\ (\A i \in 1..n : t[i] = c[i])
      /\ \A i \in 1..a : i > n => t[i] = text[i]
  BY <1>1, <1>3 DEF Wrote
<1>5. CASE n >= a
  <2>1. Len(t) = n
    BY <1>4, <1>5
  <2>2. t = c
    BY <1>1, <1>4, <2>1, SameText
  <2> QED BY <1>2, <2>2
<1>6. CASE n < a
  <2>1. PICK rest : rest = SubSeq(text, n + 1, a)
    OBVIOUS
  <2>2. rest \in Text /\ Len(rest) = a - n /\ \A i \in 1..(a - n) : rest[i] = text[n + i]
    BY <1>1, <1>6, <2>1, SubText
  <2>3. Honest(rest)
    <3>1. n + Len(rest) <= Len(text)
      BY <1>1, <1>6, <2>2
    <3> QED BY <2>2, <3>1, HonestPart
  <2>4. PICK u : u = c \o rest
    OBVIOUS
  <2>5. Honest(u)
    BY <2>2, <2>3, <2>4, HonestConcat DEF Ended
  <2>6. Joins(u, c, rest)
    BY <2>2, <2>4, TextConcat
  <2>7. u \in Text /\ Len(u) = a /\ (\A i \in 1..n : u[i] = c[i]) /\ \A i \in 1..(a - n) : u[n + i] = rest[i]
    BY <1>1, <1>6, <2>2, <2>6 DEF Joins
  <2>8. ASSUME NEW i \in 1..a PROVE t[i] = u[i]
    <3>1. CASE i <= n
      <4>1. i \in 1..n
        BY <3>1
      <4> QED BY <1>4, <2>7, <4>1
    <3>2. CASE i > n
      <4>1. PICK j \in 1..(a - n) : i = n + j
        <5>1. i - n \in 1..(a - n) /\ i = n + (i - n)
          BY <3>2
        <5> QED BY <5>1
      <4>2. u[i] = text[i]
        BY <2>2, <2>7, <4>1
      <4> QED BY <1>4, <3>2, <4>2
    <3> QED BY <3>1, <3>2
  <2>9. Len(t) = a
    BY <1>4, <1>6
  <2>10. t = u
    BY <1>4, <2>7, <2>8, <2>9, SameText
  <2> QED BY <1>2, <2>5, <2>10
<1> QED BY <1>1, <1>5, <1>6

-----------------------------------------------------------------------------
(* The invariants.                                                          *)

Typed ==
    /\ file \in Text /\ entries \in [Processes -> Entries] /\ content \in [Processes -> Text]
    /\ pc \in [Processes -> {"down", "up", "truncate", "write"}] /\ written \in [Processes -> Nat]
    /\ owner \subseteq Processes /\ mixed \in BOOLEAN
\* What a process writes are its entries, and the file of an owner is what it
\* has written so far.
Flushes ==
    /\ \A p \in Processes : KeysPlain(entries[p])
    /\ \A p \in Processes : pc[p] \in {"truncate", "write"} => content[p] \in Contents(entries[p])
    /\ \A p \in Processes : pc[p] = "write" => written[p] <= Len(content[p])
    /\ \A p, q \in owner : p = q
    /\ \A p \in owner : pc[p] = "write" => file = SubSeq(content[p], 1, written[p])
    /\ \A p \in owner : pc[p] = "up" => file \in Contents(entries[p]) \/ entries[p] = Parsed(file)
Flushing == Typed /\ Flushes
\* No term says that an unsatisfiable formula is satisfiable.
NoVerdicts == \A t \in Terms : Honest(t)
Honesty == ~mixed => Honest(file) /\ \A p \in Processes : HonestEntries(entries[p])
\* No term has an end of line.
NoLineBreaks == \A t \in Terms : Unbroken(t)
Whole == \A p \in Processes : TermsUnbroken(entries[p])

LEMMA NoEntries == << >> \in Entries /\ KeysPlain(<< >>) /\ TermsUnbroken(<< >>) /\ HonestEntries(<< >>)
<1> HIDE DEF Chars
<1>1. PICK e : e = << >>
  OBVIOUS
<1>2. DOMAIN e = {} /\ e \in [{} -> Results]
  BY <1>1
<1>3. IsFiniteSet({}) /\ {} \in SUBSET Text
  BY FS_EmptySet
<1>4. e \in Entries
  BY <1>2, <1>3, MakeEntries
<1>5. KeysPlain(e) /\ TermsUnbroken(e) /\ HonestEntries(e)
  BY <1>2 DEF KeysPlain, TermsUnbroken, HonestEntries
<1> QED BY <1>1, <1>4, <1>5

LEMMA InitFlushing == Init => Flushing /\ (NoVerdicts => Honesty) /\ (NoLineBreaks => Whole)
<1> HIDE DEF Chars
<1> SUFFICES ASSUME Init PROVE Flushing /\ Honesty /\ Whole
  OBVIOUS
<1>1. PICK none : none = << >> /\ none \in Entries /\ KeysPlain(none) /\ TermsUnbroken(none) /\ HonestEntries(none)
  BY NoEntries
<1>2. none \in Text /\ Honest(none)
  BY <1>1, EmptyHonest
<1>3. /\ file = none /\ owner = {} /\ mixed = FALSE /\ entries = [p \in Processes |-> none]
      /\ pc = [p \in Processes |-> "down"] /\ content = [p \in Processes |-> none]
      /\ written = [p \in Processes |-> 0]
  BY <1>1 DEF Init
<1>4. Typed
  BY <1>1, <1>2, <1>3 DEF Typed
<1>5. Flushes
  BY <1>1, <1>3 DEF Flushes
<1>6. Honesty /\ Whole
  BY <1>1, <1>2, <1>3 DEF Honesty, Whole
<1> QED BY <1>4, <1>5, <1>6 DEF Flushing

\* Each invariant after a step of Open, Insert, Truncate, Write and Crash.
Preserved == Flushing' /\ (NoVerdicts /\ Honesty => Honesty') /\ (NoLineBreaks /\ Whole => Whole')

LEMMA OpenKeeps ==
  ASSUME Flushing, NEW p \in Processes, Open(p)
  PROVE  Preserved
<1> HIDE DEF Chars
<1>1. Typed /\ Flushes
  BY DEF Flushing
<1>2. PICK es : es = Parsed(file)
  OBVIOUS
<1>3. es \in Entries /\ Keeps(es, file)
  BY <1>1, <1>2, ParsedKeeps DEF Typed
<1>4. /\ pc[p] = "down" /\ entries' = [entries EXCEPT ![p] = es] /\ pc' = [pc EXCEPT ![p] = "up"]
      /\ UNCHANGED <<file, content, written, owner, mixed>>
  BY <1>2 DEF Open
<1>5. Typed'
  BY <1>1, <1>3, <1>4 DEF Typed
<1>6. /\ entries'[p] = es /\ pc'[p] = "up"
      /\ \A q \in Processes : q # p => entries'[q] = entries[q] /\ pc'[q] = pc[q]
  BY <1>1, <1>4 DEF Typed
<1>7. Flushes'
  <2>1. (\A q \in Processes : KeysPlain(entries[q]))'
    BY <1>1, <1>3, <1>4, <1>6 DEF Flushes, Keeps
  <2>2. (\A q \in Processes : pc[q] \in {"truncate", "write"} => content[q] \in Contents(entries[q]))'
    BY <1>1, <1>4, <1>6 DEF Flushes
  <2>3. (\A q \in Processes : pc[q] = "write" => written[q] <= Len(content[q]))'
    BY <1>1, <1>4, <1>6 DEF Flushes
  <2>4. (\A q, r \in owner : q = r)'
    BY <1>1, <1>4 DEF Flushes
  <2>5. (\A q \in owner : pc[q] = "write" => file = SubSeq(content[q], 1, written[q]))'
    BY <1>1, <1>4, <1>6 DEF Flushes, Typed
  <2>6. (\A q \in owner : pc[q] = "up" => file \in Contents(entries[q]) \/ entries[q] = Parsed(file))'
    BY <1>1, <1>2, <1>4, <1>6 DEF Flushes, Typed
  <2> QED BY <2>1, <2>2, <2>3, <2>4, <2>5, <2>6 DEF Flushes
<1>8. Honesty => Honesty'
  BY <1>3, <1>4, <1>6 DEF Honesty, Keeps
<1>9. Whole => Whole'
  BY <1>3, <1>6 DEF Whole, Keeps
<1> QED BY <1>5, <1>7, <1>8, <1>9 DEF Preserved, Flushing

LEMMA InsertKeeps ==
  ASSUME Flushing, NEW p \in Processes, Insert(p)
  PROVE  Preserved
<1> HIDE DEF Chars
<1>1. Typed /\ Flushes
  BY DEF Flushing
<1>2. PICK h \in Hashes, term \in Terms :
         entries' = [entries EXCEPT ![p] = With(@, h, [is_sat |-> h \in Satisfiable, term |-> term])]
  BY DEF Insert
<1>3. PICK res : res = [is_sat |-> h \in Satisfiable, term |-> term]
  OBVIOUS
<1>4. res \in Results /\ h \in Text /\ Plain(h) /\ res.term = term /\ res.is_sat = (h \in Satisfiable)
  BY <1>3, Texts DEF Results, Plain
<1>5. PICK old \in Entries : old = entries[p] /\ KeysPlain(old)
  BY <1>1 DEF Typed, Flushes
<1>6. PICK es : es = With(old, h, res)
  OBVIOUS
<1>7. /\ es \in Entries /\ DOMAIN es = DOMAIN old \cup {h} /\ es[h] = res
      /\ \A k \in DOMAIN old : k # h => es[k] = old[k]
  BY <1>4, <1>6, Extended
<1>8. entries' = [entries EXCEPT ![p] = es]
  BY <1>2, <1>3, <1>5, <1>6
<1>9. entries'[p] = es /\ \A q \in Processes : q # p => entries'[q] = entries[q]
  BY <1>1, <1>8 DEF Typed
<1>10. PICK text \in Contents(es) : content' = [content EXCEPT ![p] = text]
  BY <1>9 DEF Insert
<1>11. text \in Text
  BY <1>7, ContentsHonest
<1>12. pc[p] = "up" /\ pc' = [pc EXCEPT ![p] = "truncate"] /\ UNCHANGED <<file, written, owner, mixed>>
  BY DEF Insert
<1>13. Typed'
  BY <1>1, <1>7, <1>8, <1>10, <1>11, <1>12 DEF Typed
<1>14. /\ pc'[p] = "truncate" /\ content'[p] = text
       /\ \A q \in Processes : q # p => pc'[q] = pc[q] /\ content'[q] = content[q]
  BY <1>1, <1>10, <1>12 DEF Typed
<1>15. KeysPlain(es)
  BY <1>4, <1>5, <1>7 DEF KeysPlain
<1>16. Flushes'
  <2>1. (\A q \in Processes : KeysPlain(entries[q]))'
    BY <1>1, <1>9, <1>15 DEF Flushes
  <2>2. (\A q \in Processes : pc[q] \in {"truncate", "write"} => content[q] \in Contents(entries[q]))'
    BY <1>1, <1>9, <1>14 DEF Flushes
  <2>3. (\A q \in Processes : pc[q] = "write" => written[q] <= Len(content[q]))'
    BY <1>1, <1>12, <1>14 DEF Flushes
  <2>4. (\A q, r \in owner : q = r)'
    BY <1>1, <1>12 DEF Flushes
  <2>5. (\A q \in owner : pc[q] = "write" => file = SubSeq(content[q], 1, written[q]))'
    BY <1>1, <1>12, <1>14 DEF Flushes, Typed
  <2>6. (\A q \in owner : pc[q] = "up" => file \in Contents(entries[q]) \/ entries[q] = Parsed(file))'
    BY <1>1, <1>9, <1>12, <1>14 DEF Flushes, Typed
  <2> QED BY <2>1, <2>2, <2>3, <2>4, <2>5, <2>6 DEF Flushes
<1>17. NoVerdicts => Honest(Line(h, res))
  <2> SUFFICES ASSUME NoVerdicts PROVE Honest(Line(h, res))
    OBVIOUS
  <2>1. Honest(res.term)
    BY <1>4 DEF NoVerdicts
  <2>2. ASSUME res.is_sat, NEW g \in Hashes, EndsIn(h, g) PROVE g \in Satisfiable
    <3>1. Len(g) = Len(h)
      BY HashAssumption
    <3>2. PICK n \in Nat : n = Len(h)
      BY Texts
    <3>3. \A i \in 1..n : h[i] = g[i]
      <4> SUFFICES ASSUME NEW i \in 1..n PROVE h[i] = g[i]
        OBVIOUS
      <4>1. h[n - n + i] = g[i] /\ n - n + i = i
        BY <2>2, <3>1, <3>2 DEF EndsIn
      <4> QED BY <4>1
    <3>4. g \in Text /\ h \in Text
      BY Texts
    <3>5. h = g
      BY <3>1, <3>2, <3>3, <3>4, SameText
    <3> QED BY <1>4, <2>2, <3>5
  <2> QED BY <1>4, <2>1, <2>2, HonestLine
<1>18. NoVerdicts /\ Honesty => Honesty'
  <2> SUFFICES ASSUME NoVerdicts, Honesty, ~mixed PROVE Honest(file) /\ \A q \in Processes : HonestEntries(entries'[q])
    BY <1>12 DEF Honesty
  <2>1. HonestEntries(es)
    BY <1>5, <1>7, <1>17 DEF Honesty, HonestEntries
  <2> QED BY <1>9, <2>1 DEF Honesty
<1>19. NoLineBreaks /\ Whole => Whole'
  <2> SUFFICES ASSUME NoLineBreaks, Whole PROVE \A q \in Processes : TermsUnbroken(entries'[q])
    BY DEF Whole
  <2>1. TermsUnbroken(es)
    BY <1>4, <1>5, <1>7 DEF Whole, TermsUnbroken, NoLineBreaks
  <2> QED BY <1>9, <2>1 DEF Whole
<1> QED BY <1>13, <1>16, <1>18, <1>19 DEF Preserved, Flushing

LEMMA TruncateKeeps ==
  ASSUME Flushing, NEW p \in Processes, Truncate(p)
  PROVE  Preserved
<1> HIDE DEF Chars
<1>1. Typed /\ Flushes
  BY DEF Flushing
<1>2. /\ pc[p] = "truncate" /\ file' = << >> /\ written' = [written EXCEPT ![p] = 0]
      /\ owner' = (IF \E q \in Processes \ {p} : pc[q] = "write" THEN {} ELSE {p})
      /\ pc' = [pc EXCEPT ![p] = "write"] /\ UNCHANGED <<entries, content, mixed>>
  BY DEF Truncate
<1>3. owner' \subseteq {p} /\ owner' \subseteq Processes
  BY <1>2
<1>4. << >> \in Text /\ Honest(<< >>)
  BY EmptyHonest
<1>5. Typed'
  BY <1>1, <1>2, <1>3, <1>4 DEF Typed
<1>6. /\ pc'[p] = "write" /\ written'[p] = 0
      /\ \A q \in Processes : q # p => pc'[q] = pc[q] /\ written'[q] = written[q]
  BY <1>1, <1>2 DEF Typed
<1>7. content[p] \in Text
  BY <1>1 DEF Typed
<1>8. Len(content[p]) \in Nat /\ SubSeq(content[p], 1, 0) = << >>
  <2>1. Len(content[p]) \in Nat
    BY <1>7 DEF Text
  <2> QED BY <1>7, <2>1, WholeText
<1>9. Flushes'
  <2>1. (\A q \in Processes : KeysPlain(entries[q]))'
    BY <1>1, <1>2 DEF Flushes
  <2>2. (\A q \in Processes : pc[q] \in {"truncate", "write"} => content[q] \in Contents(entries[q]))'
    BY <1>1, <1>2, <1>6 DEF Flushes
  <2>3. (\A q \in Processes : pc[q] = "write" => written[q] <= Len(content[q]))'
    BY <1>1, <1>2, <1>6, <1>8 DEF Flushes
  <2>4. (\A q, r \in owner : q = r)'
    BY <1>3
  <2>5. (\A q \in owner : pc[q] = "write" => file = SubSeq(content[q], 1, written[q]))'
    BY <1>2, <1>3, <1>6, <1>8
  <2>6. (\A q \in owner : pc[q] = "up" => file \in Contents(entries[q]) \/ entries[q] = Parsed(file))'
    BY <1>3, <1>6
  <2> QED BY <2>1, <2>2, <2>3, <2>4, <2>5, <2>6 DEF Flushes
<1>10. Honesty => Honesty'
  BY <1>2, <1>4 DEF Honesty
<1>11. Whole => Whole'
  BY <1>2 DEF Whole
<1> QED BY <1>5, <1>9, <1>10, <1>11 DEF Preserved, Flushing

LEMMA WriteKeeps ==
  ASSUME Flushing, NEW p \in Processes, Write(p)
  PROVE  Preserved
<1> HIDE DEF Chars
<1>1. Typed /\ Flushes
  BY DEF Flushing
<1>2. PICK c \in Text, w \in Nat : c = content[p] /\ w = written[p]
  BY <1>1 DEF Typed
<1>3. PICK N \in Nat : N = Len(c)
  BY DEF Text
<1>4. /\ pc[p] = "write" /\ owner' = owner \intersect {p} /\ UNCHANGED entries
      /\ \E n \in IF written[p] = 0 THEN 1..Len(content[p]) ELSE {Len(content[p])} :
            /\ file' = WrittenAt(file, written[p], SubSeq(content[p], written[p] + 1, n))
            /\ mixed' = (mixed \/ (owner # {p} /\ (written[p] > 0 \/ n < Len(content[p]))))
            /\ IF n = Len(content[p])
               THEN /\ pc' = [pc EXCEPT ![p] = "up"]
                    /\ content' = [content EXCEPT ![p] = <<>>]
                    /\ written' = [written EXCEPT ![p] = 0]
               ELSE /\ written' = [written EXCEPT ![p] = n]
                    /\ UNCHANGED <<pc, content>>
  BY DEF Write
<1>5. PICK n \in IF w = 0 THEN 1..N ELSE {N} :
            /\ file' = WrittenAt(file, w, SubSeq(c, w + 1, n))
            /\ mixed' = (mixed \/ (owner # {p} /\ (w > 0 \/ n < N)))
            /\ IF n = N
               THEN /\ pc' = [pc EXCEPT ![p] = "up"]
                    /\ content' = [content EXCEPT ![p] = <<>>]
                    /\ written' = [written EXCEPT ![p] = 0]
               ELSE /\ written' = [written EXCEPT ![p] = n]
                    /\ UNCHANGED <<pc, content>>
  BY <1>2, <1>3, <1>4
<1>6. w <= N /\ c \in Contents(entries[p]) /\ entries[p] \in Entries
  BY <1>1, <1>2, <1>3, <1>4 DEF Flushes, Typed
<1>7. n \in Nat /\ w <= n /\ n <= N
  BY <1>5, <1>6
<1>8. PICK piece \in Text : piece = SubSeq(c, w + 1, n)
  BY <1>3, <1>7, SubText
<1>9. file' \in Text
  <2>1. Wrote(WrittenAt(file, w, piece), file, w, piece)
    BY <1>1, <1>8, WrittenFacts DEF Typed
  <2> QED BY <1>5, <1>8, <2>1 DEF Wrote
<1>10. << >> \in Text
  BY DEF Text
<1>11. Typed'
  <2>1. owner' \subseteq Processes /\ mixed' \in BOOLEAN /\ entries' \in [Processes -> Entries]
    BY <1>1, <1>4, <1>5 DEF Typed
  <2>2. /\ content' \in [Processes -> Text] /\ written' \in [Processes -> Nat]
        /\ pc' \in [Processes -> {"down", "up", "truncate", "write"}]
    <3>1. CASE n = N
      <4>1. /\ pc' = [pc EXCEPT ![p] = "up"] /\ content' = [content EXCEPT ![p] = <<>>]
            /\ written' = [written EXCEPT ![p] = 0]
        BY <1>5, <3>1
      <4> HIDE DEF Text
      <4> QED BY <1>1, <1>10, <4>1 DEF Typed
    <3>2. CASE n # N
      <4>1. written' = [written EXCEPT ![p] = n] /\ UNCHANGED <<pc, content>>
        BY <1>5, <3>2
      <4> QED BY <1>1, <1>7, <4>1 DEF Typed
    <3> QED BY <3>1, <3>2
  <2> QED BY <1>9, <2>1, <2>2 DEF Typed
<1>12. /\ \A q \in Processes : q # p => pc'[q] = pc[q] /\ content'[q] = content[q] /\ written'[q] = written[q]
       /\ n = N => pc'[p] = "up"
       /\ n # N => pc'[p] = "write" /\ content'[p] = c /\ written'[p] = n
  BY <1>1, <1>2, <1>4, <1>5 DEF Typed
<1>13. ASSUME p \in owner PROVE owner = {p} /\ file' = SubSeq(c, 1, n)
  <2>1. owner = {p}
    BY <1>1, <1>13 DEF Flushes
  <2>2. file = SubSeq(c, 1, w)
    BY <1>1, <1>2, <1>4, <1>13 DEF Flushes
  <2> QED BY <1>3, <1>5, <1>7, <2>1, <2>2, NextPiece
<1>14. owner' \subseteq {p} /\ (p \in owner' => p \in owner)
  BY <1>4
<1>15. Flushes'
  <2>1. (\A q \in Processes : KeysPlain(entries[q]))'
    BY <1>1, <1>4 DEF Flushes
  <2>2. (\A q \in Processes : pc[q] \in {"truncate", "write"} => content[q] \in Contents(entries[q]))'
    BY <1>1, <1>4, <1>6, <1>12 DEF Flushes
  <2>3. (\A q \in Processes : pc[q] = "write" => written[q] <= Len(content[q]))'
    BY <1>1, <1>3, <1>7, <1>12 DEF Flushes
  <2>4. (\A q, r \in owner : q = r)'
    BY <1>14
  <2>5. (\A q \in owner : pc[q] = "write" => file = SubSeq(content[q], 1, written[q]))'
    BY <1>12, <1>13, <1>14
  <2>6. (\A q \in owner : pc[q] = "up" => file \in Contents(entries[q]) \/ entries[q] = Parsed(file))'
    <3>1. ASSUME p \in owner, n = N PROVE file' \in Contents(entries[p])
      BY <1>3, <1>6, <1>13, <3>1, WholeText
    <3> QED BY <1>4, <1>12, <1>14, <3>1
  <2> QED BY <2>1, <2>2, <2>3, <2>4, <2>5, <2>6 DEF Flushes
<1>16. Honesty => Honesty'
  <2> SUFFICES ASSUME Honesty, ~mixed' PROVE Honest(file') /\ \A q \in Processes : HonestEntries(entries'[q])
    BY DEF Honesty
  <2>1. ~mixed /\ (owner # {p} => ~(w > 0 \/ n < N))
    BY <1>5
  <2>2. Honest(file) /\ \A q \in Processes : HonestEntries(entries[q])
    BY <2>1 DEF Honesty
  <2>3. Honest(c) /\ Ended(c)
    BY <1>6, <2>2, ContentsHonest
  <2>4. CASE owner = {p}
    <3>1. file' = SubSeq(c, 1, n)
      BY <1>13, <2>4
    <3>2. /\ SubSeq(c, 0 + 1, n) \in Text /\ Len(SubSeq(c, 0 + 1, n)) = n - 0
          /\ \A i \in 1..(n - 0) : SubSeq(c, 0 + 1, n)[i] = c[0 + i]
      <4>1. 0 \in Nat /\ 0 <= n /\ n <= Len(c)
        BY <1>3, <1>7
      <4> QED BY <1>7, <4>1, SubText
    <3>3. PICK t : t = file'
      OBVIOUS
    <3>4. t \in Text /\ Len(t) = n /\ \A i \in 1..n : t[i] = c[0 + i]
      BY <1>7, <3>1, <3>2, <3>3
    <3>5. 0 + Len(t) <= Len(c)
      BY <1>3, <1>7, <3>4
    <3>6. Honest(t)
      BY <2>3, <3>4, <3>5, HonestPart
    <3> QED BY <1>4, <2>2, <3>3, <3>6
  <2>5. CASE owner # {p}
    <3>1. w = 0 /\ n = N
      BY <1>7, <2>1, <2>5
    <3>2. SubSeq(c, w + 1, n) = c
      BY <1>3, <3>1, WholeText
    <3>3. file' = WrittenAt(file, 0, c)
      BY <1>5, <3>1, <3>2
    <3>4. Honest(file')
      BY <1>1, <2>2, <2>3, <3>3, OnePieceHonest DEF Typed
    <3> QED BY <1>4, <2>2, <3>4
  <2> QED BY <2>4, <2>5
<1>17. Whole => Whole'
  BY <1>4 DEF Whole
<1> QED BY <1>11, <1>15, <1>16, <1>17 DEF Preserved, Flushing

LEMMA CrashKeeps ==
  ASSUME Flushing, NEW p \in Processes, Crash(p)
  PROVE  Preserved
<1> HIDE DEF Chars
<1>1. Typed /\ Flushes
  BY DEF Flushing
<1>2. PICK none : none = << >> /\ none \in Entries /\ KeysPlain(none) /\ TermsUnbroken(none) /\ HonestEntries(none)
  BY NoEntries
<1>3. none \in Text
  BY <1>2 DEF Text
<1>4. /\ pc' = [pc EXCEPT ![p] = "down"] /\ entries' = [entries EXCEPT ![p] = none]
      /\ content' = [content EXCEPT ![p] = none] /\ written' = [written EXCEPT ![p] = 0]
      /\ owner' \subseteq owner /\ UNCHANGED <<file, mixed>>
  BY <1>2 DEF Crash
<1>5. Typed'
  BY <1>1, <1>2, <1>3, <1>4 DEF Typed
<1>6. /\ pc'[p] = "down" /\ entries'[p] = none
      /\ \A q \in Processes : q # p => /\ pc'[q] = pc[q] /\ entries'[q] = entries[q]
                                       /\ content'[q] = content[q] /\ written'[q] = written[q]
  BY <1>1, <1>4 DEF Typed
<1>7. Flushes'
  <2>1. (\A q \in Processes : KeysPlain(entries[q]))'
    BY <1>1, <1>2, <1>6 DEF Flushes
  <2>2. (\A q \in Processes : pc[q] \in {"truncate", "write"} => content[q] \in Contents(entries[q]))'
    BY <1>1, <1>6 DEF Flushes
  <2>3. (\A q \in Processes : pc[q] = "write" => written[q] <= Len(content[q]))'
    BY <1>1, <1>6 DEF Flushes
  <2>4. (\A q, r \in owner : q = r)'
    BY <1>1, <1>4 DEF Flushes
  <2>5. (\A q \in owner : pc[q] = "write" => file = SubSeq(content[q], 1, written[q]))'
    BY <1>1, <1>4, <1>6 DEF Flushes, Typed
  <2>6. (\A q \in owner : pc[q] = "up" => file \in Contents(entries[q]) \/ entries[q] = Parsed(file))'
    BY <1>1, <1>4, <1>6 DEF Flushes, Typed
  <2> QED BY <2>1, <2>2, <2>3, <2>4, <2>5, <2>6 DEF Flushes
<1>8. Honesty => Honesty'
  BY <1>2, <1>4, <1>6 DEF Honesty
<1>9. Whole => Whole'
  BY <1>2, <1>6 DEF Whole
<1> QED BY <1>5, <1>7, <1>8, <1>9 DEF Preserved, Flushing

LEMMA StepsKeep ==
  ASSUME Flushing, [Next]_vars
  PROVE  Preserved
<1>1. CASE UNCHANGED vars
  BY <1>1 DEF vars, Preserved, Flushing, Typed, Flushes, Honesty, Whole
<1>2. CASE Next
  <2>1. PICK p \in Processes : Open(p) \/ Insert(p) \/ Truncate(p) \/ Write(p) \/ Crash(p)
    BY <1>2 DEF Next
  <2> QED BY <2>1, OpenKeeps, InsertKeeps, TruncateKeeps, WriteKeeps, CrashKeeps
<1> QED BY <1>1, <1>2

LEMMA FlushingHolds == Spec => [](Flushing /\ (NoVerdicts => Honesty) /\ (NoLineBreaks => Whole))
<1> DEFINE I == Flushing /\ (NoVerdicts => Honesty) /\ (NoLineBreaks => Whole)
<1>1. Init => I
  BY InitFlushing
<1>2. I /\ [Next]_vars => I'
  <2> SUFFICES ASSUME I, [Next]_vars PROVE I'
    OBVIOUS
  <2>1. Preserved
    BY StepsKeep
  <2>2. NoVerdicts' <=> NoVerdicts
    BY DEF NoVerdicts, Honest, Says
  <2>3. NoLineBreaks' <=> NoLineBreaks
    BY DEF NoLineBreaks, Unbroken
  <2> QED BY <2>1, <2>2, <2>3 DEF Preserved
<1> HIDE DEF I
<1>3. Spec => []I
  BY <1>1, <1>2, PTL DEF Spec
<1> QED BY <1>3 DEF I

\* Unless a term names an unsatisfiable formula as satisfiable, no crash, no
\* read in the middle of a flush and no overlap of flushes that go out in one
\* piece makes the cache call such a formula satisfiable.
THEOREM VerdictsKept == Spec => [](NoVerdicts => SatHonest)
<1>1. Flushing /\ (NoVerdicts => Honesty) => (NoVerdicts => SatHonest)
  <2> HIDE DEF Chars
  <2> SUFFICES ASSUME Flushing, Honesty, ~mixed, NEW p \in Processes, NEW h \in DOMAIN entries[p] \intersect Hashes,
                      entries[p][h].is_sat
               PROVE  h \in Satisfiable
    BY DEF SatHonest
  <2>1. PICK es \in Entries : es = entries[p] /\ HonestEntries(es)
    BY DEF Flushing, Typed, Honesty
  <2>2. PICK r \in Results : r = es[h]
    BY <2>1, EntriesFacts
  <2>3. PICK l : l = Line(h, r)
    OBVIOUS
  <2>4. Honest(l)
    BY <2>1, <2>2, <2>3 DEF HonestEntries
  <2>5. h \in Text
    BY Texts
  <2>6. Reads(l, h, r)
    BY <2>3, <2>5, LineFacts
  <2>7. PICK n \in Nat, m \in Nat : n = Len(h) /\ m = Len(r.term)
    BY <2>6 DEF Reads
  <2>8. Len(l) = n + m + 4 /\ (\A i \in 1..n : l[i] = h[i]) /\ l[n + 1] = "|" /\ l[n + 2] = "1"
    BY <2>1, <2>2, <2>6, <2>7 DEF Reads
  <2>9. \A k \in 1..n : l[n - n + k] = h[k]
    <3>1. \A k \in 1..n : n - n + k = k
      OBVIOUS
    <3> QED BY <2>8, <3>1
  <2>10. Says(l, h, n)
    BY <2>7, <2>8, <2>9 DEF Says
  <2> QED BY <2>4, <2>10 DEF Honest
<1> QED BY <1>1, FlushingHolds, PTL

\* Unless a term has an end of line, a flush no other process wrote into is
\* read back whole.
THEOREM FlushesReadBack == Spec => [](NoLineBreaks => RoundTrip)
<1>1. Flushing /\ (NoLineBreaks => Whole) => (NoLineBreaks => RoundTrip)
  <2> HIDE DEF Chars
  <2> SUFFICES ASSUME Flushing, Whole, NEW p \in owner, pc[p] = "up"
               PROVE  /\ DOMAIN Parsed(file) = DOMAIN entries[p]
                      /\ \A h \in DOMAIN Parsed(file) :
                            /\ Parsed(file)[h].is_sat = entries[p][h].is_sat
                            /\ "|" \notin ToSet(entries[p][h].term) => Parsed(file)[h].term = entries[p][h].term
    BY DEF RoundTrip
  <2>1. p \in Processes /\ (file \in Contents(entries[p]) \/ entries[p] = Parsed(file))
    BY DEF Flushing, Typed, Flushes
  <2>2. CASE entries[p] = Parsed(file)
    BY <2>2
  <2>3. CASE file \in Contents(entries[p])
    <3>1. entries[p] \in Entries /\ KeysPlain(entries[p]) /\ TermsUnbroken(entries[p])
      BY <2>1 DEF Flushing, Typed, Flushes, Whole
    <3>2. Same(Parsed(file), entries[p])
      BY <2>3, <3>1, ReadBack
    <3> QED BY <3>2 DEF Same, SameResult, Bar
  <2> QED BY <2>1, <2>2, <2>3
<1> QED BY <1>1, FlushingHolds, PTL
=============================================================================
