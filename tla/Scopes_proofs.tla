--------------------------- MODULE Scopes_proofs ---------------------------
(***************************************************************************)
(* The solver's vector of assertions with its scope marks is SMT-LIB's      *)
(* assertion stack (AssertionStack), whatever is asserted, pushed and       *)
(* popped (Scopes).                                                         *)
(***************************************************************************)
EXTENDS Scopes, Induction_proofs

-----------------------------------------------------------------------------
(* Parts of a sequence.                                                     *)

LEMMA PartIs ==
  ASSUME NEW S, NEW s \in Seq(S), NEW lo \in Nat, NEW hi \in Nat, lo <= hi, hi <= Len(s)
  PROVE  /\ SubSeq(s, lo + 1, hi) = [i \in 1..(hi - lo) |-> s[lo + i]]
         /\ SubSeq(s, lo + 1, hi) \in Seq(S) /\ Len(SubSeq(s, lo + 1, hi)) = hi - lo
<1>1. PICK t : t = SubSeq(s, lo + 1, hi)
  OBVIOUS
<1>2. t = [i \in 1..(hi - lo) |-> s[lo + i]]
  <2>1. t = [i \in 1..(hi - (lo + 1) + 1) |-> s[(lo + 1) + i - 1]]
    BY <1>1
  <2>2. hi - (lo + 1) + 1 = hi - lo /\ \A i \in 1..(hi - lo) : (lo + 1) + i - 1 = lo + i
    OBVIOUS
  <2> QED BY <2>1, <2>2
<1>3. \A i \in 1..(hi - lo) : s[lo + i] \in S
  <2> SUFFICES ASSUME NEW i \in 1..(hi - lo) PROVE s[lo + i] \in S
    OBVIOUS
  <2>1. lo + i \in 1..Len(s)
    OBVIOUS
  <2> QED BY <2>1
<1>4. t \in Seq(S) /\ Len(t) = hi - lo
  <2>1. PICK n \in Nat : n = hi - lo
    <3>1. hi - lo \in Nat
      OBVIOUS
    <3> QED BY <3>1
  <2>2. t \in [1..n -> S]
    BY <1>2, <1>3, <2>1
  <2> QED BY <2>1, <2>2
<1> QED BY <1>1, <1>2, <1>4

\* Sequences that agree have the same parts.
LEMMA SamePart ==
  ASSUME NEW S, NEW s \in Seq(S), NEW T, NEW t \in Seq(T), NEW lo \in Nat, NEW hi \in Nat, lo <= hi,
         hi <= Len(s), hi <= Len(t), \A i \in 1..hi : s[i] = t[i]
  PROVE  SubSeq(s, lo + 1, hi) = SubSeq(t, lo + 1, hi)
<1>1. \A i \in 1..(hi - lo) : s[lo + i] = t[lo + i]
  <2> SUFFICES ASSUME NEW i \in 1..(hi - lo) PROVE s[lo + i] = t[lo + i]
    OBVIOUS
  <2>1. lo + i \in 1..hi
    OBVIOUS
  <2> QED BY <2>1
<1>2. SubSeq(s, lo + 1, hi) = [i \in 1..(hi - lo) |-> s[lo + i]]
  BY PartIs
<1>3. SubSeq(t, lo + 1, hi) = [i \in 1..(hi - lo) |-> t[lo + i]]
  BY PartIs
<1> QED BY <1>1, <1>2, <1>3

LEMMA NoneBehind ==
  ASSUME NEW S, NEW s \in Seq(S)
  PROVE  s \o << >> = s
<1>1. << >> \in Seq(S) /\ Len(<< >>) = 0
  OBVIOUS
<1>2. PICK t : t = s \o << >>
  OBVIOUS
<1>3. t \in Seq(S) /\ Len(t) = Len(s) /\ \A i \in 1..Len(s) : t[i] = s[i]
  BY <1>1, <1>2
<1>4. t = s
  BY <1>3
<1> QED BY <1>2, <1>4

LEMMA AllOf ==
  ASSUME NEW S, NEW s \in Seq(S)
  PROVE  SubSeq(s, 1, Len(s)) = s
<1>1. PICK n \in Nat : n = Len(s)
  OBVIOUS
<1>2. SubSeq(s, 0 + 1, n) = [i \in 1..(n - 0) |-> s[0 + i]]
  BY <1>1, PartIs
<1>3. s = [i \in 1..n |-> s[i]]
  BY <1>1
<1>4. SubSeq(s, 1, n) = [i \in 1..n |-> s[i]]
  BY <1>2
<1> QED BY <1>1, <1>3, <1>4

-----------------------------------------------------------------------------
(* The levels of a vector of assertions.                                    *)

\* The marks are in order and within the assertions.
Marked(a, m) ==
    /\ m \in Seq(Nat)
    /\ \A i \in 1..Len(m) : m[i] <= Len(a)
    /\ \A i, j \in 1..Len(m) : i <= j => m[i] <= m[j]
IsStack(S, a, m) == a \in Seq(S) /\ Marked(a, m)
From(m, i) == IF i = 1 THEN 0 ELSE m[i - 1]
To(a, m, i) == IF i = Len(m) + 1 THEN Len(a) ELSE m[i]
Level(a, m, i) == SubSeq(a, From(m, i) + 1, To(a, m, i))
LevelsOf(a, m) ==
    LET marks == <<0>> \o m \o <<Len(a)>>
    IN  [i \in 1..(Len(m) + 1) |-> SubSeq(a, marks[i] + 1, marks[i + 1])] \o << >>

LEMMA Bounds ==
  ASSUME NEW S, NEW a, NEW m, IsStack(S, a, m), NEW i \in 1..(Len(m) + 1)
  PROVE  /\ Len(m) \in Nat /\ Len(a) \in Nat
         /\ From(m, i) \in Nat /\ To(a, m, i) \in Nat /\ From(m, i) <= To(a, m, i) /\ To(a, m, i) <= Len(a)
<1>1. /\ a \in Seq(S) /\ m \in Seq(Nat) /\ (\A j \in 1..Len(m) : m[j] <= Len(a))
      /\ \A j, k \in 1..Len(m) : j <= k => m[j] <= m[k]
  BY DEF IsStack, Marked
<1>2. PICK n \in Nat, l \in Nat : n = Len(m) /\ l = Len(a)
  BY <1>1
<1>3. \A j \in 1..n : m[j] \in Nat /\ m[j] <= l
  BY <1>1, <1>2
<1>4. i # 1 => i - 1 \in 1..n
  BY <1>2
<1>5. i # n + 1 => i \in 1..n
  BY <1>2
<1>6. i # 1 /\ i # n + 1 => m[i - 1] <= m[i]
  BY <1>1, <1>2, <1>4, <1>5
<1>7. From(m, i) \in Nat /\ From(m, i) <= l
  BY <1>3, <1>4 DEF From
<1>8. To(a, m, i) \in Nat /\ To(a, m, i) <= l
  BY <1>2, <1>3, <1>5 DEF To
<1>9. From(m, i) <= To(a, m, i)
  BY <1>2, <1>3, <1>5, <1>6, <1>7 DEF From, To
<1> QED BY <1>2, <1>7, <1>8, <1>9

LEMMA LevelsFacts ==
  ASSUME NEW S, NEW a, NEW m, IsStack(S, a, m)
  PROVE  /\ LevelsOf(a, m) = [i \in 1..(Len(m) + 1) |-> Level(a, m, i)]
         /\ LevelsOf(a, m) \in Seq(Seq(S)) /\ Len(LevelsOf(a, m)) = Len(m) + 1
<1>1. a \in Seq(S) /\ m \in Seq(Nat)
  BY DEF IsStack, Marked
<1>2. PICK n \in Nat, l \in Nat : n = Len(m) /\ l = Len(a)
  BY <1>1
<1>3. PICK marks : marks = <<0>> \o m \o <<Len(a)>>
  OBVIOUS
<1>4. marks[1] = 0 /\ marks[n + 2] = l /\ \A i \in 1..n : marks[i + 1] = m[i]
  <2>1. PICK b : b = <<0>> \o m
    OBVIOUS
  <2>2. b \in Seq(Nat) /\ Len(b) = n + 1 /\ b[1] = 0 /\ \A i \in 1..n : b[1 + i] = m[i]
    BY <1>1, <1>2, <2>1
  <2>. PICK last : last = <<l>>
    OBVIOUS
  <2>3. last \in Seq(Nat) /\ Len(last) = 1 /\ last[1] = l
    OBVIOUS
  <2>7. marks = b \o last
    BY <1>2, <1>3, <2>1
  <2>8. b \o last = [i \in 1..(Len(b) + Len(last)) |-> IF i <= Len(b) THEN b[i] ELSE last[i - Len(b)]]
    BY <2>2, <2>3
  <2>9. marks = [i \in 1..(n + 2) |-> IF i <= n + 1 THEN b[i] ELSE last[i - (n + 1)]]
    BY <2>2, <2>3, <2>7, <2>8
  <2>4. \A i \in 1..(n + 1) : marks[i] = b[i]
    BY <2>9
  <2>5. marks[(n + 1) + 1] = l
    BY <2>3, <2>9
  <2>6. 1 \in 1..(n + 1) /\ (n + 1) + 1 = n + 2 /\ \A i \in 1..n : i + 1 \in 1..(n + 1) /\ 1 + i = i + 1
    OBVIOUS
  <2> QED BY <2>2, <2>4, <2>5, <2>6
<1>5. ASSUME NEW i \in 1..(n + 1) PROVE marks[i] = From(m, i) /\ marks[i + 1] = To(a, m, i)
  <2>1. marks[i] = From(m, i)
    <3>1. CASE i = 1
      BY <1>4, <3>1 DEF From
    <3>2. CASE i # 1
      <4>1. i - 1 \in 1..n /\ (i - 1) + 1 = i
        BY <3>2
      <4> QED BY <1>4, <3>2, <4>1 DEF From
    <3> QED BY <3>1, <3>2
  <2>2. marks[i + 1] = To(a, m, i)
    <3>1. CASE i = n + 1
      <4>1. i + 1 = n + 2
        BY <3>1
      <4> QED BY <1>2, <1>4, <3>1, <4>1 DEF To
    <3>2. CASE i # n + 1
      <4>1. i \in 1..n
        BY <3>2
      <4> QED BY <1>2, <1>4, <3>2, <4>1 DEF To
    <3> QED BY <3>1, <3>2
  <2> QED BY <2>1, <2>2
<1>6. PICK f : f = [i \in 1..(n + 1) |-> Level(a, m, i)]
  OBVIOUS
<1>7. LevelsOf(a, m) = f \o << >>
  BY <1>2, <1>3, <1>5, <1>6 DEF LevelsOf, Level
<1>8. ASSUME NEW i \in 1..(n + 1) PROVE f[i] \in Seq(S)
  <2>1. PICK lo \in Nat, hi \in Nat : lo = From(m, i) /\ hi = To(a, m, i) /\ lo <= hi /\ hi <= Len(a)
    BY <1>2, Bounds
  <2>2. SubSeq(a, lo + 1, hi) \in Seq(S)
    BY <1>1, <2>1, PartIs
  <2> QED BY <1>6, <2>1, <2>2 DEF Level
<1>9. f \in Seq(Seq(S)) /\ Len(f) = n + 1
  <2> DEFINE Q == Seq(S)
  <2> HIDE DEF Q
  <2>1. f \in [1..(n + 1) -> Q]
    BY <1>6, <1>8 DEF Q
  <2>2. f \in Seq(Q) /\ Len(f) = n + 1
    BY <2>1
  <2> QED BY <2>2 DEF Q
<1>10. f \o << >> = f
  BY <1>9, NoneBehind
<1> QED BY <1>2, <1>6, <1>7, <1>9, <1>10

\* A level that ends within what two vectors share is a level of both.
LEMMA SameLevel ==
  ASSUME NEW S, NEW a, NEW m, IsStack(S, a, m), NEW T, NEW b, NEW o, IsStack(T, b, o),
         NEW i \in 1..(Len(m) + 1), i <= Len(o) + 1, From(o, i) = From(m, i), To(b, o, i) = To(a, m, i),
         \A j \in 1..To(a, m, i) : a[j] = b[j]
  PROVE  Level(b, o, i) = Level(a, m, i)
<1>1. a \in Seq(S) /\ b \in Seq(T) /\ i \in 1..(Len(o) + 1)
  BY DEF IsStack, Marked
<1>2. PICK lo \in Nat, hi \in Nat : lo = From(m, i) /\ hi = To(a, m, i) /\ lo <= hi /\ hi <= Len(a)
  BY Bounds
<1>3. To(b, o, i) <= Len(b)
  BY <1>1, Bounds
<1>4. SubSeq(a, lo + 1, hi) = SubSeq(b, lo + 1, hi)
  <2>1. hi <= Len(b) /\ \A j \in 1..hi : a[j] = b[j]
    BY <1>2, <1>3
  <2>2. a \in Seq(S) /\ b \in Seq(T) /\ lo <= hi /\ hi <= Len(a)
    BY <1>1, <1>2
  <2> QED BY ONLY lo \in Nat, hi \in Nat, <2>1, <2>2, SamePart
<1>5. Level(b, o, i) = SubSeq(b, lo + 1, hi)
  BY <1>2 DEF Level
<1>6. Level(a, m, i) = SubSeq(a, lo + 1, hi)
  BY <1>2 DEF Level
<1> QED BY <1>4, <1>5, <1>6

\* A new assertion.
Grown(S, a, m, x) == IsStack(S \cup {x}, Append(a, x), m)

LEMMA AddStack ==
  ASSUME NEW S, NEW a, NEW m, IsStack(S, a, m), NEW x
  PROVE  Grown(S, a, m, x)
<1>1. /\ a \in Seq(S) /\ m \in Seq(Nat) /\ (\A j \in 1..Len(m) : m[j] <= Len(a))
      /\ \A j, k \in 1..Len(m) : j <= k => m[j] <= m[k]
  BY DEF IsStack, Marked
<1>2. PICK b : b = Append(a, x)
  OBVIOUS
<1>3. PICK T : T = S \cup {x}
  OBVIOUS
<1>4. x \in T /\ a \in Seq(T)
  BY <1>1, <1>3
<1>5. b \in Seq(T) /\ Len(b) = Len(a) + 1
  BY <1>2, <1>4
<1>6. \A j \in 1..Len(m) : m[j] <= Len(b)
  <2> SUFFICES ASSUME NEW j \in 1..Len(m) PROVE m[j] <= Len(b)
    OBVIOUS
  <2>1. m[j] \in Nat /\ Len(a) \in Nat /\ m[j] <= Len(a)
    BY <1>1
  <2> QED BY <1>5, <2>1
<1> QED BY <1>1, <1>2, <1>3, <1>5, <1>6 DEF Grown, IsStack, Marked

LEMMA AddLevels ==
  ASSUME NEW S, NEW a, NEW m, IsStack(S, a, m), NEW x, NEW new, new = LevelsOf(Append(a, x), m),
         NEW old, old = LevelsOf(a, m)
  PROVE  /\ Last(new) # << >>
         /\ new = [old EXCEPT ![Len(old)] = Append(@, Last(Last(new)))]
<1>1. a \in Seq(S) /\ m \in Seq(Nat)
  BY DEF IsStack, Marked
<1>2. PICK n \in Nat, l \in Nat : n = Len(m) /\ l = Len(a)
  BY <1>1
<1>3. PICK b : b = Append(a, x)
  OBVIOUS
<1>4. PICK T : T = S \cup {x}
  OBVIOUS
<1>5. IsStack(T, b, m)
  <2>1. Grown(S, a, m, x)
    BY AddStack
  <2> QED BY <1>3, <1>4, <2>1 DEF Grown
<1>6. x \in T /\ a \in Seq(T)
  BY <1>1, <1>4
<1>7. b \in Seq(T) /\ Len(b) = l + 1 /\ b[l + 1] = x /\ \A j \in 1..l : b[j] = a[j]
  BY <1>2, <1>3, <1>6
<1>8. new = [i \in 1..(n + 1) |-> Level(b, m, i)] /\ new \in Seq(Seq(T)) /\ Len(new) = n + 1
  BY <1>2, <1>3, <1>5, LevelsFacts
<1>9. old = [i \in 1..(n + 1) |-> Level(a, m, i)] /\ old \in Seq(Seq(S)) /\ Len(old) = n + 1
  BY <1>2, LevelsFacts
<1>10. ASSUME NEW i \in 1..n PROVE new[i] = old[i]
  <2>1. i \in 1..(n + 1) /\ i # n + 1
    OBVIOUS
  <2>2. To(b, m, i) = To(a, m, i)
    BY <1>2, <2>1 DEF To
  <2>3. To(a, m, i) \in Nat /\ To(a, m, i) <= l
    BY <1>2, <2>1, Bounds
  <2>4. \A j \in 1..To(a, m, i) : a[j] = b[j]
    BY <1>7, <2>3
  <2>5. Level(b, m, i) = Level(a, m, i)
    BY <1>2, <1>5, <2>1, <2>2, <2>4, SameLevel
  <2> QED BY <1>8, <1>9, <2>1, <2>5
<1>11. PICK f \in Nat : f = From(m, n + 1) /\ f <= l
  <2>1. n + 1 \in 1..(Len(m) + 1)
    BY <1>2
  <2>2. To(a, m, n + 1) = l
    BY <1>2 DEF To
  <2> QED BY <2>1, <2>2, Bounds
<1>12. PICK t : t = new[n + 1]
  OBVIOUS
<1>13. PICK s : s = old[n + 1]
  OBVIOUS
<1>14. t = [k \in 1..(l + 1 - f) |-> b[f + k]] /\ t \in Seq(T) /\ Len(t) = l + 1 - f
  <2>1. To(b, m, n + 1) = l + 1
    BY <1>2, <1>7 DEF To
  <2>2. n + 1 \in 1..(n + 1)
    OBVIOUS
  <2>3. t = SubSeq(b, f + 1, l + 1)
    BY <1>8, <1>11, <1>12, <2>1, <2>2 DEF Level
  <2>4. l + 1 \in Nat /\ f <= l + 1 /\ l + 1 <= Len(b)
    BY <1>7, <1>11
  <2> QED BY <1>7, <2>3, <2>4, PartIs
<1>15. s = [k \in 1..(l - f) |-> a[f + k]] /\ s \in Seq(S) /\ Len(s) = l - f
  <2>1. To(a, m, n + 1) = l
    BY <1>2 DEF To
  <2>2. n + 1 \in 1..(n + 1)
    OBVIOUS
  <2>3. s = SubSeq(a, f + 1, l)
    BY <1>9, <1>11, <1>13, <2>1, <2>2 DEF Level
  <2> QED BY SMTT(60), <1>1, <1>2, <1>11, <2>3, PartIs
<1>16. PICK d \in Nat : d = l - f
  <2>1. l - f \in Nat
    BY <1>11
  <2> QED BY <2>1
<1>17. t[d + 1] = x
  <2>1. d + 1 \in 1..(l + 1 - f) /\ f + (d + 1) = l + 1
    BY <1>11, <1>16
  <2> QED BY <1>7, <1>14, <2>1
<1>18. Len(t) = d + 1 /\ Len(s) = d
  BY <1>11, <1>14, <1>15, <1>16
<1>19. \A k \in 1..d : t[k] = s[k]
  <2> SUFFICES ASSUME NEW k \in 1..d PROVE t[k] = s[k]
    OBVIOUS
  <2>1. k \in 1..(l + 1 - f) /\ k \in 1..(l - f) /\ f + k \in 1..l
    BY <1>11, <1>16
  <2> QED BY <1>7, <1>14, <1>15, <2>1
<1>20. t = Append(s, x)
  <2>1. PICK u : u = Append(s, x)
    OBVIOUS
  <2>2. s \in Seq(T)
    BY <1>4, <1>15
  <2>3. u \in Seq(T) /\ Len(u) = d + 1 /\ u[d + 1] = x /\ \A k \in 1..d : u[k] = s[k]
    BY <1>6, <1>18, <2>1, <2>2
  <2>4. \A k \in 1..(d + 1) : u[k] = t[k]
    <3> SUFFICES ASSUME NEW k \in 1..(d + 1) PROVE u[k] = t[k]
      OBVIOUS
    <3>1. CASE k = d + 1
      BY <1>17, <2>3, <3>1
    <3>2. CASE k \in 1..d
      BY <1>19, <2>3, <3>2
    <3> QED BY <3>1, <3>2
  <2>5. u = [k \in 1..(d + 1) |-> u[k]]
    BY <2>3
  <2>6. t = [k \in 1..(d + 1) |-> t[k]]
    BY <1>14, <1>18
  <2>7. u = t
    BY <2>4, <2>5, <2>6
  <2> QED BY <2>1, <2>7
<1>21. Last(new) = t
  BY <1>8, <1>12 DEF Last
<1>22. Last(t) = x
  BY <1>17, <1>18 DEF Last
<1>23. t # << >>
  <2>1. Len(<< >>) = 0
    OBVIOUS
  <2> QED BY <1>18, <2>1
<1>24. new = [old EXCEPT ![n + 1] = Append(@, x)]
  <2>1. new = [i \in 1..(n + 1) |-> IF i = n + 1 THEN t ELSE old[i]]
    <3>1. ASSUME NEW i \in 1..(n + 1) PROVE new[i] = IF i = n + 1 THEN t ELSE old[i]
      <4>1. CASE i = n + 1
        BY <1>12, <4>1
      <4>2. CASE i \in 1..n
        BY <1>10, <4>2
      <4> QED BY <4>1, <4>2
    <3> QED BY <1>8, <3>1
  <2>2. [old EXCEPT ![n + 1] = Append(@, x)] = [i \in 1..(n + 1) |-> IF i = n + 1 THEN Append(s, x) ELSE old[i]]
    BY <1>9, <1>13
  <2> QED BY <1>20, <2>1, <2>2
<1> QED BY <1>9, <1>21, <1>22, <1>23, <1>24

\* New scopes: their marks are the number of assertions.
PushedMarks(a, m, k) == m \o [i \in 1..k |-> Len(a)]

AreMarks(a, m, k, o) ==
    /\ o \in Seq(Nat) /\ Len(o) = Len(m) + k
    /\ \A i \in 1..Len(m) : o[i] = m[i]
    /\ \A i \in 1..(Len(m) + k) : i > Len(m) => o[i] = Len(a)

LEMMA PushMarks ==
  ASSUME NEW S, NEW a, NEW m, IsStack(S, a, m), NEW k \in Nat, NEW o, o = PushedMarks(a, m, k)
  PROVE  AreMarks(a, m, k, o)
<1>1. a \in Seq(S) /\ m \in Seq(Nat)
  BY DEF IsStack, Marked
<1>2. PICK n \in Nat, l \in Nat : n = Len(m) /\ l = Len(a)
  BY <1>1
<1>3. PICK p : p = [i \in 1..k |-> l]
  OBVIOUS
<1>4. p \in Seq(Nat) /\ Len(p) = k /\ \A i \in 1..k : p[i] = l
  BY <1>3
<1>5. o = m \o p
  BY <1>2, <1>3 DEF PushedMarks
<1>6. /\ m \o p \in Seq(Nat) /\ Len(m \o p) = Len(m) + Len(p)
      /\ m \o p = [i \in 1..(Len(m) + Len(p)) |-> IF i <= Len(m) THEN m[i] ELSE p[i - Len(m)]]
  <2>1. PICK N : N = Nat
    OBVIOUS
  <2>2. m \in Seq(N) /\ p \in Seq(N)
    BY <1>1, <1>4, <2>1
  <2>3. /\ m \o p \in Seq(N) /\ Len(m \o p) = Len(m) + Len(p)
        /\ m \o p = [i \in 1..(Len(m) + Len(p)) |-> IF i <= Len(m) THEN m[i] ELSE p[i - Len(m)]]
    BY ONLY <2>2, ConcatIs
  <2> QED BY <2>1, <2>3
<1>7. o = [i \in 1..(n + k) |-> IF i <= n THEN m[i] ELSE p[i - n]]
  BY <1>2, <1>4, <1>5, <1>6
<1>8. o \in Seq(Nat) /\ Len(o) = n + k
  BY <1>2, <1>4, <1>5, <1>6
<1>9. \A i \in 1..n : o[i] = m[i]
  BY <1>7
<1>10. ASSUME NEW i \in 1..(n + k), i > n PROVE o[i] = l
  <2>1. i - n \in 1..k
    BY <1>10
  <2> QED BY <1>4, <1>7, <1>10, <2>1
<1> QED BY <1>2, <1>8, <1>9, <1>10 DEF AreMarks

LEMMA PushStack ==
  ASSUME NEW S, NEW a, NEW m, IsStack(S, a, m), NEW k \in Nat, NEW o, o = PushedMarks(a, m, k)
  PROVE  IsStack(S, a, o)
<1>1. /\ a \in Seq(S) /\ m \in Seq(Nat) /\ (\A j \in 1..Len(m) : m[j] <= Len(a))
      /\ \A i, j \in 1..Len(m) : i <= j => m[i] <= m[j]
  BY DEF IsStack, Marked
<1>2. PICK n \in Nat, l \in Nat : n = Len(m) /\ l = Len(a)
  BY <1>1
<1>3. /\ o \in Seq(Nat) /\ Len(o) = n + k /\ (\A i \in 1..n : o[i] = m[i])
      /\ \A i \in 1..(n + k) : i > n => o[i] = l
  <2>1. AreMarks(a, m, k, o)
    BY PushMarks
  <2> QED BY <1>2, <2>1 DEF AreMarks
<1>4. ASSUME NEW i \in 1..(n + k) PROVE o[i] \in Nat /\ o[i] <= l
  <2>1. CASE i > n
    BY <1>3, <2>1
  <2>2. CASE i \in 1..n
    <3>1. m[i] \in Nat /\ m[i] <= l
      BY <1>1, <1>2, <2>2
    <3> QED BY <1>3, <2>2, <3>1
  <2> QED BY <2>1, <2>2
<1>5. ASSUME NEW i \in 1..(n + k), NEW j \in 1..(n + k), i <= j PROVE o[i] <= o[j]
  <2>1. CASE j > n
    BY <1>3, <1>4, <2>1
  <2>2. CASE ~(j > n)
    <3>1. i \in 1..n /\ j \in 1..n
      BY <1>5, <2>2
    <3>2. m[i] <= m[j]
      BY <1>1, <1>2, <1>5, <3>1
    <3> QED BY <1>3, <3>1, <3>2
  <2> QED BY <2>1, <2>2
<1> QED BY <1>1, <1>2, <1>3, <1>4, <1>5 DEF IsStack, Marked

LEMMA PushLevels ==
  ASSUME NEW S, NEW a, NEW m, IsStack(S, a, m), NEW k \in Nat,
         NEW new, new = LevelsOf(a, PushedMarks(a, m, k)), NEW old, old = LevelsOf(a, m)
  PROVE  Len(new) = Len(old) + k /\ Len(old) \in Nat /\ new = old \o [i \in 1..(Len(new) - Len(old)) |-> << >>]
<1>1. a \in Seq(S) /\ m \in Seq(Nat)
  BY DEF IsStack, Marked
<1>2. PICK n \in Nat, l \in Nat : n = Len(m) /\ l = Len(a)
  BY <1>1
<1>3. PICK o : o = PushedMarks(a, m, k)
  OBVIOUS
<1>4. IsStack(S, a, o)
  BY <1>3, PushStack
<1>5. /\ o \in Seq(Nat) /\ Len(o) = n + k /\ (\A i \in 1..n : o[i] = m[i])
      /\ \A i \in 1..(n + k) : i > n => o[i] = l
  <2>1. AreMarks(a, m, k, o)
    BY <1>3, PushMarks
  <2> QED BY <1>2, <2>1 DEF AreMarks
<1>6. new = [i \in 1..(n + k + 1) |-> Level(a, o, i)] /\ new \in Seq(Seq(S)) /\ Len(new) = n + k + 1
  BY <1>3, <1>4, <1>5, LevelsFacts
<1>7. old = [i \in 1..(n + 1) |-> Level(a, m, i)] /\ old \in Seq(Seq(S)) /\ Len(old) = n + 1
  BY <1>2, LevelsFacts
<1>8. ASSUME NEW i \in 1..(n + 1) PROVE new[i] = old[i]
  <2>1. i \in 1..(n + k + 1) /\ i <= Len(o) + 1 /\ i \in 1..(Len(m) + 1)
    BY <1>2, <1>5
  <2>2. From(o, i) = From(m, i)
    <3>1. i = 1 \/ i - 1 \in 1..n
      OBVIOUS
    <3> QED BY <1>5, <3>1 DEF From
  <2>3. To(a, o, i) = To(a, m, i)
    <3>1. CASE i = n + 1
      <4>1. i = n + k + 1 \/ (i \in 1..(n + k) /\ i > n)
        BY <3>1
      <4> QED BY <1>2, <1>5, <3>1, <4>1 DEF To
    <3>2. CASE i # n + 1
      <4>1. i \in 1..n /\ i # n + k + 1
        BY <3>2
      <4> QED BY <1>2, <1>5, <4>1, <3>2 DEF To
    <3> QED BY <3>1, <3>2
  <2>4. Level(a, o, i) = Level(a, m, i)
    BY <2>2, <2>3 DEF Level
  <2> QED BY <1>6, <1>7, <2>1, <2>4
<1>9. ASSUME NEW i \in 1..(n + k + 1), i > n + 1 PROVE new[i] = << >>
  <2>1. i - 1 \in 1..(n + k) /\ i - 1 > n /\ i # 1
    BY <1>9
  <2>2. From(o, i) = l
    BY <1>5, <2>1 DEF From
  <2>3. To(a, o, i) = l
    <3>1. i = n + k + 1 \/ (i \in 1..(n + k) /\ i > n)
      BY <1>9
    <3> QED BY <1>2, <1>5, <3>1 DEF To
  <2>4. PICK t : t = SubSeq(a, l + 1, l)
    OBVIOUS
  <2>5. t \in Seq(S) /\ Len(t) = 0
    <3>1. l - l = 0 /\ l <= l /\ l <= Len(a)
      BY <1>2
    <3> QED BY <1>1, <2>4, <3>1, PartIs
  <2>6. t = << >>
    BY <2>5
  <2> QED BY <1>6, <2>2, <2>3, <2>4, <2>6 DEF Level
<1>10. PICK p : p = [i \in 1..k |-> << >>]
  OBVIOUS
<1>11. PICK Q : Q = Seq(S)
  OBVIOUS
<1>12. p \in Seq(Q) /\ Len(p) = k /\ \A i \in 1..k : p[i] = << >>
  <2>1. << >> \in Q
    BY <1>11
  <2> QED BY <1>10, <2>1
<1>13. old \o p = [i \in 1..((n + 1) + k) |-> IF i <= n + 1 THEN old[i] ELSE p[i - (n + 1)]]
  <2>1. old \in Seq(Q)
    BY <1>7, <1>11
  <2>2. old \o p = [i \in 1..(Len(old) + Len(p)) |-> IF i <= Len(old) THEN old[i] ELSE p[i - Len(old)]]
    BY <1>12, <2>1, ConcatIs
  <2> QED BY <1>7, <1>12, <2>2
<1>14. new = [i \in 1..((n + 1) + k) |-> new[i]]
  <2>1. n + k + 1 = (n + 1) + k
    OBVIOUS
  <2> QED BY <1>6, <2>1
<1>15. ASSUME NEW i \in 1..((n + 1) + k) PROVE new[i] = IF i <= n + 1 THEN old[i] ELSE p[i - (n + 1)]
  <2>1. CASE i <= n + 1
    BY <1>8, <2>1
  <2>2. CASE ~(i <= n + 1)
    <3>1. i - (n + 1) \in 1..k /\ i > n + 1 /\ i \in 1..(n + k + 1)
      BY <2>2
    <3> QED BY <1>9, <1>12, <2>2, <3>1
  <2> QED BY <2>1, <2>2
<1>16. new = old \o p
  BY <1>13, <1>14, <1>15
<1>17. Len(new) - Len(old) = k /\ Len(new) = Len(old) + k /\ Len(old) \in Nat
  BY <1>6, <1>7
<1>18. p = [i \in 1..(Len(new) - Len(old)) |-> << >>]
  BY <1>10, <1>17
<1> QED BY <1>16, <1>17, <1>18

\* The first scopes of a stack, with the assertions below the first one dropped.
KeptAssertions(a, m, r) == SubSeq(a, 1, m[r + 1])
KeptMarks(m, r) == SubSeq(m, 1, r)

LEMMA KeptFacts ==
  ASSUME NEW S, NEW a, NEW m, IsStack(S, a, m), NEW r \in Nat, r < Len(m),
         NEW b, b = KeptAssertions(a, m, r), NEW o, o = KeptMarks(m, r)
  PROVE  /\ b \in Seq(S) /\ Len(b) = m[r + 1] /\ \A i \in 1..Len(b) : b[i] = a[i]
         /\ o \in Seq(Nat) /\ Len(o) = r /\ \A i \in 1..r : o[i] = m[i]
<1>1. /\ a \in Seq(S) /\ m \in Seq(Nat) /\ (\A j \in 1..Len(m) : m[j] <= Len(a))
  BY DEF IsStack, Marked
<1>2. PICK h \in Nat : h = m[r + 1] /\ h <= Len(a)
  <2>1. r + 1 \in 1..Len(m)
    BY <1>1
  <2> QED BY <1>1, <2>1
<1>3. b = SubSeq(a, 0 + 1, h) /\ o = SubSeq(m, 0 + 1, r)
  BY <1>2 DEF KeptAssertions, KeptMarks
<1>4. b = [i \in 1..(h - 0) |-> a[0 + i]] /\ b \in Seq(S) /\ Len(b) = h - 0
  BY <1>1, <1>2, <1>3, PartIs
<1>5. o = [i \in 1..(r - 0) |-> m[0 + i]] /\ o \in Seq(Nat) /\ Len(o) = r - 0
  BY <1>1, <1>3, PartIs
<1> QED BY <1>2, <1>4, <1>5

LEMMA KeptStack ==
  ASSUME NEW S, NEW a, NEW m, IsStack(S, a, m), NEW r \in Nat, r < Len(m)
  PROVE  IsStack(S, KeptAssertions(a, m, r), KeptMarks(m, r))
<1>1. /\ a \in Seq(S) /\ m \in Seq(Nat)
      /\ \A i, j \in 1..Len(m) : i <= j => m[i] <= m[j]
  BY DEF IsStack, Marked
<1>2. PICK b, o : b = KeptAssertions(a, m, r) /\ o = KeptMarks(m, r)
  OBVIOUS
<1>3. /\ b \in Seq(S) /\ Len(b) = m[r + 1]
      /\ o \in Seq(Nat) /\ Len(o) = r /\ \A i \in 1..r : o[i] = m[i]
  BY <1>2, KeptFacts
<1>4. ASSUME NEW i \in 1..r PROVE o[i] <= Len(b)
  <2>1. i \in 1..Len(m) /\ r + 1 \in 1..Len(m) /\ i <= r + 1
    BY <1>1
  <2> QED BY <1>1, <1>3, <2>1
<1>5. ASSUME NEW i \in 1..r, NEW j \in 1..r, i <= j PROVE o[i] <= o[j]
  <2>1. i \in 1..Len(m) /\ j \in 1..Len(m)
    BY <1>1
  <2> QED BY <1>1, <1>3, <1>5, <2>1
<1> QED BY <1>2, <1>3, <1>4, <1>5 DEF IsStack, Marked

LEMMA KeptLevels ==
  ASSUME NEW S, NEW a, NEW m, IsStack(S, a, m), NEW r \in Nat, r < Len(m),
         NEW new, new = LevelsOf(KeptAssertions(a, m, r), KeptMarks(m, r)), NEW old, old = LevelsOf(a, m)
  PROVE  Len(old) = Len(m) + 1 /\ new = SubSeq(old, 1, r + 1)
<1>1. a \in Seq(S) /\ m \in Seq(Nat)
  BY DEF IsStack, Marked
<1>2. PICK n \in Nat : n = Len(m)
  BY <1>1
<1>3. PICK b, o : b = KeptAssertions(a, m, r) /\ o = KeptMarks(m, r)
  OBVIOUS
<1>4. /\ b \in Seq(S) /\ Len(b) = m[r + 1] /\ (\A i \in 1..Len(b) : b[i] = a[i])
      /\ o \in Seq(Nat) /\ Len(o) = r /\ \A i \in 1..r : o[i] = m[i]
  BY <1>3, KeptFacts
<1>5. IsStack(S, b, o)
  BY <1>3, KeptStack
<1>6. new = [i \in 1..(r + 1) |-> Level(b, o, i)] /\ new \in Seq(Seq(S)) /\ Len(new) = r + 1
  BY SMTT(60), <1>3, <1>4, <1>5, LevelsFacts
<1>7. old = [i \in 1..(n + 1) |-> Level(a, m, i)] /\ old \in Seq(Seq(S)) /\ Len(old) = n + 1
  BY <1>2, LevelsFacts
<1>8. ASSUME NEW i \in 1..(r + 1) PROVE new[i] = old[i]
  <2>1. i \in 1..(n + 1) /\ i # n + 1 /\ i \in 1..(Len(m) + 1) /\ i <= Len(o) + 1
    BY <1>2, <1>4
  <2>2. From(o, i) = From(m, i)
    <3>1. i = 1 \/ i - 1 \in 1..r
      OBVIOUS
    <3> QED BY <1>4, <3>1 DEF From
  <2>3. To(b, o, i) = To(a, m, i)
    <3>1. To(a, m, i) = m[i]
      BY <1>2, <2>1 DEF To
    <3>2. i = r + 1 \/ (i # r + 1 /\ i \in 1..r)
      OBVIOUS
    <3> QED BY <1>4, <3>1, <3>2 DEF To
  <2>4. To(b, o, i) \in Nat /\ To(b, o, i) <= Len(b)
    <3>1. i \in 1..(Len(o) + 1)
      BY <1>4
    <3> QED BY <1>5, <3>1, Bounds
  <2>5. \A j \in 1..To(a, m, i) : a[j] = b[j]
    <3>1. Len(b) \in Nat
      BY <1>4
    <3> QED BY <1>4, <2>3, <2>4, <3>1
  <2>6. Level(b, o, i) = Level(a, m, i)
    BY <1>5, <2>1, <2>2, <2>3, <2>5, SameLevel
  <2> QED BY <1>6, <1>7, <2>1, <2>6
<1>9. SubSeq(old, 0 + 1, r + 1) = [i \in 1..((r + 1) - 0) |-> old[0 + i]]
  <2>1. 0 <= r + 1 /\ r + 1 <= Len(old) /\ r + 1 \in Nat /\ 0 \in Nat
    BY <1>2, <1>7
  <2>2. PICK Q : Q = Seq(S)
    OBVIOUS
  <2>3. old \in Seq(Q)
    BY <1>7, <2>2
  <2> QED BY <2>1, <2>3, PartIs
<1>10. SubSeq(old, 1, r + 1) = [i \in 1..(r + 1) |-> old[i]]
  BY <1>9
<1>11. new = [i \in 1..(r + 1) |-> new[i]]
  BY <1>6
<1> QED BY <1>2, <1>7, <1>8, <1>10, <1>11

-----------------------------------------------------------------------------
(* The assertions and scopes implement the assertion stack.                 *)

IsAStack == \E S : IsStack(S, assertions, scopes)

LEMMA LevelsIs ==
  Levels = LevelsOf(assertions, scopes)
<1> QED BY DEF Levels, LevelsOf

LEMMA LevelsAre ==
  Levels' = LevelsOf(assertions', scopes')
<1> QED BY DEF Levels, LevelsOf

LEMMA EmptyStack ==
  LevelsOf(<< >>, << >>) = <<<< >>>> /\ IsStack({}, << >>, << >>)
<1>1. << >> \in Seq({}) /\ << >> \in Seq(Nat) /\ Len(<< >>) = 0
  OBVIOUS
<1>2. IsStack({}, << >>, << >>)
  BY <1>1 DEF IsStack, Marked
<1>3. PICK new : new = LevelsOf(<< >>, << >>)
  OBVIOUS
<1>4. new = [i \in 1..1 |-> Level(<< >>, << >>, i)] /\ new \in Seq(Seq({})) /\ Len(new) = 1
  <2>1. /\ new = [i \in 1..(Len(<< >>) + 1) |-> Level(<< >>, << >>, i)]
        /\ new \in Seq(Seq({})) /\ Len(new) = Len(<< >>) + 1
    <3>1. PICK e, S : e = << >> /\ S = {}
      OBVIOUS
    <3>2. IsStack(S, e, e) /\ new = LevelsOf(e, e)
      BY <1>2, <1>3, <3>1
    <3>3. new = [i \in 1..(Len(e) + 1) |-> Level(e, e, i)] /\ new \in Seq(Seq(S)) /\ Len(new) = Len(e) + 1
      BY <3>2, LevelsFacts
    <3> QED BY <3>1, <3>3
  <2>2. Len(<< >>) + 1 = 1
    BY <1>1
  <2> QED BY <2>1, <2>2
<1>5. new[1] = << >>
  <2>1. From(<< >>, 1) = 0 /\ To(<< >>, << >>, 1) = 0
    BY <1>1 DEF From, To
  <2>2. PICK t : t = SubSeq(<< >>, 0 + 1, 0)
    OBVIOUS
  <2>3. t \in Seq({}) /\ Len(t) = 0
    <3>1. 0 \in Nat /\ 0 <= 0 /\ 0 <= Len(<< >>) /\ 0 - 0 = 0
      BY <1>1
    <3> QED BY <1>1, <2>2, <3>1, PartIs
  <2>4. t = << >>
    BY <2>3
  <2> QED BY <1>4, <2>1, <2>2, <2>4 DEF Level
<1>6. new = <<<< >>>>
  BY <1>4, <1>5
<1> QED BY <1>2, <1>3, <1>6

\* One step of the assertions is a step of the stack, or leaves it as it is.
LEMMA StepIs ==
  ASSUME IsAStack, [StackNext]_stack
  PROVE  IsAStack' /\ [Stack!Next]_Levels
<1>1. PICK S : IsStack(S, assertions, scopes)
  BY DEF IsAStack
<1>2. PICK a, m : a = assertions /\ m = scopes
  OBVIOUS
<1>3. PICK b, o : b = assertions' /\ o = scopes'
  OBVIOUS
<1>4. PICK old : old = LevelsOf(a, m)
  OBVIOUS
<1>5. PICK new : new = LevelsOf(b, o)
  OBVIOUS
<1>6. Levels = old /\ Levels' = new
  BY <1>2, <1>3, <1>4, <1>5, LevelsIs, LevelsAre
<1>7. IsStack(S, a, m)
  BY <1>1, <1>2
<1>8. CASE UNCHANGED stack
  <2>1. b = a /\ o = m
    BY <1>2, <1>3, <1>8 DEF stack
  <2> QED BY <1>2, <1>3, <1>4, <1>5, <1>6, <1>7, <2>1 DEF IsAStack
<1>9. ASSUME NEW term, AddFormula(term)
      PROVE  IsAStack' /\ [Stack!Next]_Levels
  <2>1. b = Append(a, term) /\ o = m
    BY <1>2, <1>3, <1>9 DEF AddFormula
  <2>2. IsStack(S \cup {term}, b, o)
    <3>1. Grown(S, a, m, term)
      BY <1>7, AddStack
    <3> QED BY <2>1, <3>1 DEF Grown
  <2>3. Last(new) # << >> /\ new = [old EXCEPT ![Len(old)] = Append(@, Last(Last(new)))]
    BY <1>4, <1>5, <1>7, <2>1, AddLevels
  <2>4. Stack!AddFormula
    <3>1. Last(Levels') # << >>
      BY <1>6, <2>3
    <3>2. Levels' = [Levels EXCEPT ![Len(Levels)] = Append(@, Last(Last(Levels')))]
      BY <1>6, <2>3
    <3> QED BY <3>1, <3>2 DEF Stack!AddFormula, Last, Stack!Last
  <2> QED BY <1>3, <2>2, <2>4 DEF IsAStack, Stack!Next
<1>10. ASSUME NEW n \in Nat, PushScopes(n)
       PROVE  IsAStack' /\ [Stack!Next]_Levels
  <2>1. b = a /\ o = PushedMarks(a, m, n)
    BY <1>2, <1>3, <1>10 DEF PushScopes, PushedMarks
  <2>2. IsStack(S, b, o)
    BY <1>7, <2>1, PushStack
  <2>3. Len(new) = Len(old) + n /\ Len(old) \in Nat /\ new = old \o [i \in 1..(Len(new) - Len(old)) |-> << >>]
    BY SMTT(60), <1>4, <1>5, <1>7, <2>1, PushLevels
  <2>4. CASE n = 0
    <3>1. Len(new) - Len(old) = 0
      BY <2>3, <2>4
    <3>2. PICK p : p = [i \in 1..(Len(new) - Len(old)) |-> << >>]
      OBVIOUS
    <3>3. p = << >>
      BY <3>1, <3>2
    <3>4. old \in Seq(Seq(S))
      BY <1>4, <1>7, LevelsFacts
    <3>5. old \o << >> = old
      BY <3>4, NoneBehind
    <3>6. new = old
      BY <2>3, <3>2, <3>3, <3>5
    <3> QED BY <1>3, <1>6, <2>2, <3>6 DEF IsAStack
  <2>5. CASE n > 0
    <3>1. Len(new) > Len(old)
      BY <2>3, <2>5
    <3>2. Stack!Push
      BY <1>6, <2>3, <3>1 DEF Stack!Push
    <3> QED BY <1>3, <2>2, <3>2 DEF IsAStack, Stack!Next
  <2> QED BY <2>4, <2>5
<1>11. ASSUME NEW n \in Nat, PopScopes(n)
       PROVE  IsAStack' /\ [Stack!Next]_Levels
  <2>1. a \in Seq(S) /\ m \in Seq(Nat)
    BY <1>7 DEF IsStack, Marked
  <2>2. PICK r : r = Remaining(n)
    OBVIOUS
  <2>3. o = SubSeq(m, 1, r) /\ b = IF n = 0 \/ m = << >> THEN a ELSE SubSeq(a, 1, m[r + 1])
    BY <1>2, <1>3, <1>11, <2>2 DEF PopScopes, Truncated
  <2>4. r = IF n > Len(m) THEN 0 ELSE Len(m) - n
    BY <1>2, <2>2 DEF Remaining
  <2>5. CASE n = 0 \/ m = << >>
    <3>1. r = Len(m)
      BY <2>1, <2>4, <2>5
    <3>2. SubSeq(m, 1, Len(m)) = m
      BY <2>1, AllOf
    <3>3. o = m /\ b = a
      BY <2>3, <2>5, <3>1, <3>2
    <3> QED BY <1>2, <1>3, <1>4, <1>5, <1>6, <1>7, <3>3 DEF IsAStack
  <2>6. CASE ~(n = 0 \/ m = << >>)
    <3>1. Len(m) \in Nat /\ Len(m) # 0
      BY <2>1, <2>6
    <3>2. r \in Nat /\ r < Len(m)
      BY <2>4, <2>6, <3>1
    <3>3. b = KeptAssertions(a, m, r) /\ o = KeptMarks(m, r)
      BY <2>3, <2>6 DEF KeptAssertions, KeptMarks
    <3>4. IsStack(S, b, o)
      BY <1>7, <3>2, <3>3, KeptStack
    <3>5. Len(old) = Len(m) + 1 /\ new = SubSeq(old, 1, r + 1)
      BY <1>4, <1>5, <1>7, <3>2, <3>3, KeptLevels
    <3>6. r + 1 \in 1..(Len(old) - 1)
      BY <3>1, <3>2, <3>5
    <3>7. Stack!Pop
      BY <1>6, <3>5, <3>6 DEF Stack!Pop
    <3> QED BY <1>3, <3>4, <3>7 DEF IsAStack, Stack!Next
  <2> QED BY <2>5, <2>6
<1>12. CASE DropAll
  <2>1. b = << >> /\ o = << >>
    BY <1>3, <1>12 DEF DropAll
  <2>2. new = <<<< >>>> /\ IsStack({}, b, o)
    BY <1>5, <2>1, EmptyStack
  <2>3. Stack!Reset
    BY <1>6, <2>2 DEF Stack!Reset
  <2> QED BY <1>3, <2>2, <2>3 DEF IsAStack, Stack!Next
<1> QED BY <1>8, <1>9, <1>10, <1>11, <1>12 DEF StackNext

\* Whatever is asserted, pushed, popped and reset (engine.rs assert_formula,
\* push, pop, reset), the vector with its marks is SMT-LIB's assertion stack.
THEOREM ScopesAreAStack == StackSpec => ImplementsStack
<1>1. StackInit => IsAStack /\ Stack!Init
  <2> SUFFICES ASSUME StackInit PROVE IsAStack /\ Stack!Init
    OBVIOUS
  <2>1. assertions = << >> /\ scopes = << >>
    BY DEF StackInit
  <2>2. Levels = <<<< >>>> /\ IsStack({}, assertions, scopes)
    BY <2>1, EmptyStack, LevelsIs
  <2> QED BY <2>2 DEF IsAStack, Stack!Init
<1>2. IsAStack /\ [StackNext]_stack => IsAStack' /\ [Stack!Next]_Levels
  BY StepIs
<1> QED BY <1>1, <1>2, PTL DEF StackSpec, ImplementsStack, Stack!Spec
=============================================================================
