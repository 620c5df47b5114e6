--------------------------- MODULE FileNameProofs ---------------------------
(* Theorems about FileName. *)
EXTENDS FileName, SequenceTheorems, WellFoundedInduction, TLAPS

LessThan == {p \in Nat \X Nat : p[1] < p[2]}

\* The library's well-founded order of the natural numbers, without the operator <.
LEMMA LessThanIsWellFounded == IsWellFoundedOn(LessThan, Nat)
<1>1. OpToRel(<, Nat) = LessThan BY DEF OpToRel, LessThan
<1> QED BY <1>1, NatLessThanWellFounded DEF OpToRel, LessThan

\* A set of natural numbers that is not empty has a least element.
LEMMA Least ==
  ASSUME NEW T \in SUBSET Nat, T # {}
  PROVE  \E x \in T : \A y \in T : x <= y
<1>1. PICK x \in T : \A y \in T : ~(<<y, x>> \in LessThan) BY LessThanIsWellFounded, WFMin, Zenon
<1>2. \A y \in T : y < x => <<y, x>> \in LessThan BY DEF LessThan
<1>3. \A y \in T : ~(y < x) BY <1>1, <1>2, Zenon
<1>4. \A y \in T : x <= y BY <1>3, SMT
<1> QED BY <1>4

\* And a greatest one, if it is bounded.
LEMMA Greatest ==
  ASSUME NEW m \in Nat, NEW T \in SUBSET (0 .. m), T # {}
  PROVE  \E x \in T : \A y \in T : x >= y
<1> DEFINE Mirror == {i \in Nat : \E x \in T : i = m - x}
<1>1. Mirror \in SUBSET Nat /\ Mirror # {}
  <2>1. PICK x \in T : TRUE OBVIOUS
  <2>2. m - x \in Mirror BY <2>1
  <2> QED BY <2>2
<1>2. PICK i \in Mirror : \A j \in Mirror : i <= j BY <1>1, Least
<1>3. PICK x \in T : i = m - x BY <1>2
<1>4. ASSUME NEW y \in T PROVE x >= y
  <2>1. m - y \in Mirror OBVIOUS
  <2>2. i <= m - y BY <1>2, <2>1
  <2> QED BY <1>3, <2>2
<1> QED BY <1>4

\* What find('.') finds.
LEMMA FindDotFinds ==
  ASSUME NEW s \in Seq(STRING)
  PROVE  /\ FindDot(s) \in 1 .. Len(s) + 1
         /\ FindDot(s) <= Len(s) => s[FindDot(s)] = "."
         /\ \A j \in 1 .. FindDot(s) - 1 : s[j] # "."
<1> DEFINE I == {j \in 1 .. Len(s) : s[j] = "."}
<1>1. CASE I = {}
  <2>1. FindDot(s) = Len(s) + 1 BY <1>1 DEF FindDot, SelectInSeq
  <2> QED BY <1>1, <2>1
<1>2. CASE I # {}
  <2>1. \E x \in I : \A y \in I : x <= y
    <3>1. I \in SUBSET Nat OBVIOUS
    <3> QED BY <1>2, <3>1, Least
  <2>2. Min(I) \in I /\ \A y \in I : Min(I) <= y BY <2>1 DEF Min
  <2>3. FindDot(s) = Min(I) BY <1>2, <2>2 DEF FindDot, SelectInSeq
  <2>4. PICK x \in I : FindDot(s) = x /\ \A y \in I : x <= y BY <2>2, <2>3
  <2>5. x \in 1 .. Len(s) /\ s[x] = "." BY <2>4
  <2>6. ASSUME NEW j \in 1 .. x - 1 PROVE s[j] # "."
    <3>1. j \in 1 .. Len(s) /\ ~(x <= j) BY <2>5
    <3> QED BY <3>1, <2>4
  <2> QED BY <2>4, <2>5, <2>6
<1> QED BY <1>1, <1>2

\* What follows the last slash has none; there is a slash before it, if anything is.
LEMMA BaseHasNoSlash ==
  ASSUME NEW f \in Seq(STRING)
  PROVE  /\ Base(f) \in Seq(STRING)
         /\ \A i \in DOMAIN Base(f) : Base(f)[i] # "/"
         /\ \/ Base(f) = f
            \/ \E k \in DOMAIN f : f[k] = "/" /\ Base(f) = SubSeq(f, k + 1, Len(f))
<1> DEFINE I == {j \in 1 .. Len(f) : f[j] = "/"}
           m == SelectLastInSeq(f, LAMBDA c : c = "/")
<1>1. CASE I = {}
  <2>1. m = 0 BY <1>1 DEF SelectLastInSeq
  <2>2. Base(f) = f BY <2>1 DEF Base
  <2> QED BY <1>1, <2>2
<1>2. CASE I # {}
  <2>1. \E x \in I : \A y \in I : x >= y
    <3>1. I \in SUBSET (0 .. Len(f)) /\ Len(f) \in Nat OBVIOUS
    <3> QED BY <1>2, <3>1, Greatest
  <2>2. Max(I) \in I /\ \A y \in I : Max(I) >= y BY <2>1 DEF Max
  <2>3. m = Max(I) BY <1>2 DEF SelectLastInSeq
  <2> HIDE DEF m
  <2>4. PICK x \in I : m = x /\ \A y \in I : x >= y BY <2>2, <2>3
  <2>5. x \in 1 .. Len(f) /\ f[x] = "/" BY <2>4
  <2>6. Base(f) = SubSeq(f, x + 1, Len(f)) BY <2>4 DEF Base, m
  <2>7. ASSUME NEW i \in 1 .. Len(f) - x PROVE f[x + i] # "/"
    <3>1. x + i \in 1 .. Len(f) /\ ~(x >= x + i) BY <2>5
    <3> QED BY <3>1, <2>4
  <2>8. /\ Base(f) \in Seq(STRING) /\ Len(Base(f)) = Len(f) - x
        /\ \A i \in 1 .. Len(f) - x : Base(f)[i] = f[x + i] BY <2>5, <2>6
  <2>9. \A i \in DOMAIN Base(f) : Base(f)[i] # "/"
    <3>1. DOMAIN Base(f) = 1 .. Len(f) - x BY <2>8
    <3> QED BY <3>1, <2>7, <2>8
  <2>10. \E k \in DOMAIN f : f[k] = "/" /\ Base(f) = SubSeq(f, k + 1, Len(f))
    <3>1. x \in DOMAIN f BY <2>5
    <3> QED BY <3>1, <2>5, <2>6
  <2> QED BY <2>8, <2>9, <2>10
<1> QED BY <1>1, <1>2

\* A sequence is what lies before one of its elements, the element, and what follows.
LEMMA Joined ==
  ASSUME NEW s \in Seq(STRING), NEW d \in 1 .. Len(s)
  PROVE  s = SubSeq(s, 1, d - 1) \o <<s[d]>> \o SubSeq(s, d + 1, Len(s))
<1> DEFINE n == SubSeq(s, 1, d - 1)
           m == <<s[d]>>
           x == SubSeq(s, d + 1, Len(s))
<1>1. n \in Seq(STRING) /\ Len(n) = d - 1 /\ \A i \in 1 .. d - 1 : n[i] = s[i] OBVIOUS
<1>2. m \in Seq(STRING) /\ Len(m) = 1 /\ m[1] = s[d] OBVIOUS
<1>3. /\ x \in Seq(STRING) /\ Len(x) = Len(s) - d
      /\ \A i \in 1 .. Len(s) - d : x[i] = s[d + i]
  OBVIOUS
<1> HIDE DEF n, m, x
<1>0. Len(s) \in Nat /\ d \in Nat /\ d >= 1 /\ d <= Len(s) OBVIOUS
<1>4. /\ n \o m \in Seq(STRING)
      /\ Len(n \o m) = Len(n) + Len(m)
      /\ \A i \in 1 .. Len(n) + Len(m) : (n \o m)[i] = IF i <= Len(n) THEN n[i] ELSE m[i - Len(n)]
  BY <1>1, <1>2, ConcatProperties, Zenon
<1> DEFINE h == n \o m
           t == h \o x
<1> HIDE DEF h, t
<1>5. h \in Seq(STRING) /\ Len(h) = d BY <1>1, <1>2, <1>0, <1>4 DEF h
<1>6. ASSUME NEW i \in 1 .. d PROVE h[i] = s[i]
  <2>1. h[i] = IF i <= d - 1 THEN n[i] ELSE m[i - (d - 1)] BY <1>1, <1>2, <1>0, <1>4 DEF h
  <2>2. CASE i \in 1 .. d - 1 BY <2>1, <2>2, <1>1, <1>0
  <2>3. CASE i = d
    <3>1. h[d] = m[d - (d - 1)] /\ d - (d - 1) = 1 BY <2>1, <2>3, <1>0
    <3> QED BY <3>1, <2>3, <1>2
  <2> QED BY <2>2, <2>3, <1>0
<1>7. /\ t \in Seq(STRING)
      /\ Len(t) = Len(h) + Len(x)
      /\ \A i \in 1 .. Len(h) + Len(x) : t[i] = IF i <= Len(h) THEN h[i] ELSE x[i - Len(h)]
  BY <1>3, <1>5, ConcatProperties, Zenon DEF t
<1>8. Len(t) = Len(s) BY <1>3, <1>0, <1>5, <1>7
<1>9. ASSUME NEW i \in 1 .. Len(s) PROVE t[i] = s[i]
  <2>1. CASE i <= d BY <2>1, <1>3, <1>0, <1>5, <1>6, <1>7
  <2>2. CASE i > d
    <3>1. t[i] = x[i - d] BY <2>2, <1>3, <1>0, <1>5, <1>7
    <3>2. i - d \in 1 .. Len(s) - d /\ d + (i - d) = i BY <2>2, <1>0
    <3>3. x[i - d] = s[d + (i - d)] BY <3>2, <1>3
    <3> QED BY <3>1, <3>2, <3>3
  <2> QED BY <2>1, <2>2, <1>0
<1>10. s = t BY <1>7, <1>8, <1>9, SeqEqual
<1> QED BY <1>10 DEF t, h, n, m, x

\* The two functions cut what FindDot looks at, s, at the same place.
LEMMA Cut ==
  ASSUME NEW s \in Seq(STRING), NEW d \in 1 .. Len(s) + 1,
         d <= Len(s) => s[d] = ".", \A j \in 1 .. d - 1 : s[j] # "."
  PROVE  LET n == SubSeq(s, 1, d - 1)  x == SubSeq(s, d + 1, Len(s)) IN
           /\ n \in Seq(STRING) /\ x \in Seq(STRING)
           /\ (s = n /\ x = <<>>) \/ s = n \o <<".">> \o x
           /\ \A i \in DOMAIN n : n[i] # "."
<1> DEFINE n == SubSeq(s, 1, d - 1)
           x == SubSeq(s, d + 1, Len(s))
<1>1. n \in Seq(STRING) /\ Len(n) = d - 1 /\ \A i \in 1 .. d - 1 : n[i] = s[i] OBVIOUS
<1>2. d = Len(s) + 1 => s = n /\ x = <<>> OBVIOUS
<1>3. d <= Len(s) =>
        /\ x \in Seq(STRING) /\ Len(x) = Len(s) - d
        /\ \A i \in 1 .. Len(s) - d : x[i] = s[d + i]
  OBVIOUS
<1> SUFFICES /\ n \in Seq(STRING) /\ x \in Seq(STRING)
             /\ (s = n /\ x = <<>>) \/ s = n \o <<".">> \o x
             /\ \A i \in DOMAIN n : n[i] # "."
  OBVIOUS
<1> HIDE DEF n, x
<1>4. \A i \in DOMAIN n : n[i] # "." BY <1>1
<1>5. CASE d = Len(s) + 1 BY <1>1, <1>2, <1>4, <1>5
<1>6. CASE d \in 1 .. Len(s)
  <2>1. s[d] = "." BY <1>6
  <2>2. s = n \o <<".">> \o x BY <1>6, <2>1, Joined DEF n, x
  <2>3. x \in Seq(STRING) BY <1>3, <1>6
  <2> QED BY <1>1, <1>4, <2>2, <2>3
<1>7. d = Len(s) + 1 \/ d \in 1 .. Len(s) OBVIOUS
<1> QED BY <1>5, <1>6, <1>7

LEMMA RestIsString == ASSUME NEW b \in Seq(STRING) PROVE Rest(b) \in Seq(STRING)
<1>1. CASE Hidden(b) BY <1>1 DEF Rest, Hidden
<1>2. CASE ~Hidden(b) BY <1>2 DEF Rest
<1> QED BY <1>1, <1>2

\* The two halves of any name.
LEMMA NameSplits == ASSUME NEW f \in Seq(STRING) PROVE Splits(f)
<1> DEFINE b == Base(f)
           r == Rest(b)
           d == FindDot(r)
           n == SubSeq(r, 1, d - 1)
           s == SubSeq(r, d + 1, Len(r))
<1>1. /\ b \in Seq(STRING)
      /\ \A i \in DOMAIN b : b[i] # "/"
      /\ b = f \/ \E k \in DOMAIN f : f[k] = "/" /\ b = SubSeq(f, k + 1, Len(f))
  BY BaseHasNoSlash
<1>2. r \in Seq(STRING) BY <1>1, RestIsString
<1>3. /\ n \in Seq(STRING) /\ s \in Seq(STRING)
      /\ (r = n /\ s = <<>>) \/ r = n \o <<".">> \o s
      /\ \A i \in DOMAIN n : n[i] # "."
  BY <1>2, FindDotFinds, Cut
<1>4. GetSuffix(f) = s BY DEF GetSuffix
<1>5. CASE Hidden(b)
  <2>1. GetNameWithoutSuffix(f) = <<".">> \o n BY <1>5 DEF GetNameWithoutSuffix
  <2>2. r = Tail(b) /\ b # <<>> /\ b[1] = "." BY <1>5 DEF Rest, Hidden
  <2> HIDE DEF b, r, d, n, s
  <2>3. b = <<".">> \o r BY <1>1, <2>2
  <2>4. r = n \o <<".">> \o s => b = (<<".">> \o n) \o <<".">> \o s BY <1>3, <2>3
  <2>5. \A i \in 2 .. Len(<<".">> \o n) : (<<".">> \o n)[i] # "." BY <1>3
  <2>6. <<".">> \o n # <<>> BY <1>3
  <2>7. (b = <<".">> \o n /\ s = <<>>) \/ b = (<<".">> \o n) \o <<".">> \o s
    BY <1>3, <2>3, <2>4
  <2> QED BY <1>1, <1>4, <2>1, <2>5, <2>6, <2>7 DEF Splits, b
<1>6. CASE ~Hidden(b)
  <2>1. GetNameWithoutSuffix(f) = n BY <1>3, <1>6 DEF GetNameWithoutSuffix
  <2>2. r = b /\ (b = <<>> \/ b[1] # ".") BY <1>6 DEF Rest, Hidden
  <2> HIDE DEF b, r, d, n, s
  <2>3. \A i \in 2 .. Len(n) : n[i] # "." BY <1>3
  <2>4. ASSUME n = <<>> PROVE b = <<>>
    <3>1. b = n \o <<".">> \o s => b # <<>> /\ b[1] = "." BY <1>3, <2>4
    <3> QED BY <1>3, <2>2, <2>4, <3>1
  <2> QED BY <1>1, <1>3, <1>4, <2>1, <2>2, <2>3, <2>4 DEF Splits, b
<1> QED BY <1>5, <1>6

\* Every name is cut once, at the first dot that does not begin it, into the name that
\* GetNameWithoutSuffix returns and the suffix that GetSuffix returns.
THEOREM NamesAlwaysSplit == NamesSplit
BY FileNameAssumption, NameSplits DEF NamesSplit
=============================================================================
