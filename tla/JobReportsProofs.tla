-------------------------- MODULE JobReportsProofs --------------------------
(***************************************************************************)
(* Theorems about JobReports, for any number of wrappers, any files of     *)
(* others, any command lines, codes, outputs and limits: no report is lost *)
(* unsaid, no command is left alone, and output is told as asked.          *)
(***************************************************************************)
EXTENDS JobReports, SequenceTheorems, TLAPS

-----------------------------------------------------------------------------
(* The output of a failed run.                                             *)
Shown == (Lines \ {"secret", "begin", "key"}) \cup {"masked"}
Output == [out : Seq(Lines), err : Seq(Lines)]

LEMMA LargerOf ==
  ASSUME NEW a \in Int, NEW b \in Int
  PROVE  Max({a, b}) = IF a >= b THEN a ELSE b
BY DEF Max

LEMMA SmallerOf ==
  ASSUME NEW a \in Int, NEW b \in Int
  PROVE  Min({a, b}) = IF a <= b THEN a ELSE b
BY DEF Min

\* t is how s ends.
EndOf(t, s) ==
    /\ Len(t) <= Len(s)
    /\ \A i \in 1..Len(t) : t[i] = s[Len(s) - Len(t) + i]

\* The tail of a sequence: as long as it may be, with the sequence's own end.
LEMMA TailShape ==
  ASSUME NEW S, NEW s \in Seq(S), NEW n \in Nat
  PROVE  /\ LastN(s, n) \in Seq(S)
         /\ Len(LastN(s, n)) = IF Len(s) <= n THEN Len(s) ELSE n
         /\ s # <<>> /\ n > 0 => /\ LastN(s, n) # <<>>
                                 /\ LastN(s, n)[Len(LastN(s, n))] = s[Len(s)]
         /\ EndOf(LastN(s, n), s)
<1>1. PICK L \in Nat : L = Len(s)
  BY LenProperties
<1>2. \A i \in 1..L : s[i] \in S
  BY <1>1, ElementOfSeq
<1>3. L - n + 1 \in Int
  BY <1>1
<1>4. PICK m \in Int : m = Max({1, L - n + 1})
  BY <1>3, LargerOf
<1>5. m = IF L <= n THEN 1 ELSE L - n + 1
  BY <1>3, <1>4, LargerOf
<1>6. LastN(s, n) = SubSeq(s, m, L)
  BY <1>1, <1>4 DEF LastN
<1>7. m >= 1 /\ \A i \in m..L : s[i] \in S
  BY <1>2, <1>5
<1>8. /\ LastN(s, n) \in Seq(S)
      /\ Len(LastN(s, n)) = IF m <= L THEN L - m + 1 ELSE 0
      /\ \A i \in 1..L - m + 1 : LastN(s, n)[i] = s[m + i - 1]
  BY <1>6, <1>7, SubSeqProperties
<1>9. (IF m <= L THEN L - m + 1 ELSE 0) = IF L <= n THEN L ELSE n
  BY <1>5
<1>10. ASSUME s # <<>>, n > 0
       PROVE  /\ LastN(s, n) # <<>>
              /\ LastN(s, n)[Len(LastN(s, n))] = s[Len(s)]
  <2>1. L > 0
    BY <1>10, <1>1, EmptySeq
  <2>2. m <= L /\ L - m + 1 \in 1..L - m + 1 /\ m + (L - m + 1) - 1 = L
    BY <1>5, <1>10, <2>1
  <2>3. LastN(s, n)[L - m + 1] = s[m + (L - m + 1) - 1]
    BY <1>8, <2>2
  <2>4. Len(LastN(s, n)) = L - m + 1
    BY <1>8, <2>2
  <2>5. Len(LastN(s, n)) # 0
    BY <2>2, <2>4
  <2>6. LastN(s, n) # <<>>
    BY <2>5, EmptySeq
  <2> QED  BY <1>1, <2>2, <2>3, <2>4, <2>6
<1>11. EndOf(LastN(s, n), s)
  <2>1. PICK K \in Nat : K = Len(LastN(s, n)) /\ K = (IF m <= L THEN L - m + 1 ELSE 0)
    BY <1>8, LenProperties
  <2>2. K <= L
    BY <1>7, <2>1
  <2>3. ASSUME NEW i \in 1..K PROVE LastN(s, n)[i] = s[L - K + i]
    <3>1. m <= L /\ K = L - m + 1
      BY <2>1
    <3>2. i \in 1..L - m + 1 /\ m + i - 1 = L - K + i
      BY <3>1
    <3> QED  BY <1>8, <3>2
  <2> QED  BY <1>1, <2>1, <2>2, <2>3 DEF EndOf
<1> QED  BY <1>1, <1>8, <1>9, <1>10, <1>11

\* What is kept of both outputs are the ends a and b of them: all of an output,
\* or half the room at least.
KeptOf(a, b, o, e) ==
    /\ EndOf(a, o) /\ EndOf(b, e)
    /\ Len(a) <= MaxLines /\ Len(b) <= MaxLines
    /\ Len(a) = Len(o) \/ Len(a) >= MaxLines \div 2
    /\ Len(b) = Len(e) \/ Len(b) >= MaxLines \div 2

\* What is kept of both outputs fits, and where two lines do, the last line
\* of the error output is among them and comes last.
LEMMA LastLinesShape ==
  ASSUME NEW S, NEW o \in Seq(S), NEW e \in Seq(S)
  PROVE  /\ lastLines(o, e) \in Seq(S)
         /\ Len(lastLines(o, e)) \in Nat /\ Len(lastLines(o, e)) <= MaxLines
         /\ MaxLines >= 2 /\ e # <<>> =>
              /\ lastLines(o, e) # <<>>
              /\ lastLines(o, e)[Len(lastLines(o, e))] = e[Len(e)]
         /\ \E a \in Seq(S), b \in Seq(S) : lastLines(o, e) = a \o b /\ KeptOf(a, b, o, e)
<1> DEFINE k == IF Len(e) > MaxLines \div 2 /\ o # <<>> THEN MaxLines \div 2
                ELSE IF Len(e) <= MaxLines THEN Len(e) ELSE MaxLines
           a == LastN(o, MaxLines - k)
           b == LastN(e, k)
<1>1. Len(e) \in Nat /\ Len(o) \in Nat /\ MaxLines \in Nat /\ MaxLines > 0
  BY LenProperties, JobAssumptions
<1>2. Min({Len(e), MaxLines}) = IF Len(e) <= MaxLines THEN Len(e) ELSE MaxLines
  BY <1>1, SmallerOf
<1>3. lastLines(o, e) = a \o b
  BY <1>2 DEF lastLines
<1>4. k \in Nat /\ MaxLines - k \in Nat
  BY <1>1
<1>5. /\ a \in Seq(S) /\ Len(a) = IF Len(o) <= MaxLines - k THEN Len(o) ELSE MaxLines - k
      /\ b \in Seq(S) /\ Len(b) = IF Len(e) <= k THEN Len(e) ELSE k
      /\ e # <<>> /\ k > 0 => b # <<>> /\ b[Len(b)] = e[Len(e)]
      /\ EndOf(a, o) /\ EndOf(b, e)
  <2> HIDE DEF k
  <2> QED  BY <1>4, TailShape
<1>6. /\ a \o b \in Seq(S) /\ Len(a \o b) = Len(a) + Len(b)
      /\ \A i \in 1 .. Len(a) + Len(b) :
           (a \o b)[i] = IF i <= Len(a) THEN a[i] ELSE b[i - Len(a)]
  <2> HIDE DEF a, b
  <2> QED  BY <1>5, ConcatProperties
<1>7. Len(a) \in Nat /\ Len(b) \in Nat /\ Len(a) + Len(b) <= MaxLines
  <2>1. \A x, y, z, t \in Nat : z - t \in Nat =>
          (IF x <= z - t THEN x ELSE z - t) + (IF y <= t THEN y ELSE t) <= z
    OBVIOUS
  <2> HIDE DEF k, a, b
  <2>2. Len(a) \in Nat /\ Len(b) \in Nat
    BY <1>1, <1>4, <1>5
  <2> QED  BY <1>1, <1>4, <1>5, <2>1, <2>2
<1>8. ASSUME MaxLines >= 2, e # <<>>
      PROVE  a \o b # <<>> /\ (a \o b)[Len(a \o b)] = e[Len(e)]
  <2>1. Len(e) > 0
    BY <1>8, <1>1, EmptySeq
  <2>2. k > 0
    BY <1>1, <1>8, <2>1
  <2> HIDE DEF k, a, b
  <2>3. b # <<>> /\ b[Len(b)] = e[Len(e)]
    BY <1>5, <1>8, <2>2
  <2>4. Len(b) > 0
    BY <1>5, <1>7, <2>3, EmptySeq
  <2>5. (a \o b)[Len(a) + Len(b)] = b[Len(b)]
    BY <1>6, <1>7, <2>4
  <2>6. a \o b # <<>>
    BY <1>6, <1>7, <2>4, EmptySeq
  <2> QED  BY <1>6, <2>3, <2>5, <2>6
<1>9. KeptOf(a, b, o, e)
  <2>1. PICK half \in Nat : half = MaxLines \div 2 /\ half + half <= MaxLines
    BY <1>1
  <2>2. PICK x \in Nat, y \in Nat : x = Len(o) /\ y = Len(e)
    BY <1>1
  <2>3. PICK K \in Nat : K = k /\ MaxLines - K \in Nat
    BY <1>4
  <2>4. \/ y > half /\ K = half
        \/ x = 0 /\ K = IF y <= MaxLines THEN y ELSE MaxLines
        \/ y <= half /\ K = IF y <= MaxLines THEN y ELSE MaxLines
    <3>1. o = <<>> => x = 0
      BY <2>2, EmptySeq
    <3> QED  BY <2>1, <2>2, <2>3, <3>1
  <2>5. /\ Len(a) = IF x <= MaxLines - K THEN x ELSE MaxLines - K
        /\ Len(b) = IF y <= K THEN y ELSE K
    BY <1>5, <2>2, <2>3
  <2> HIDE DEF a, b, k
  <2>6. PICK m \in Nat : m = MaxLines
    BY <1>1
  <2>7. PICK A \in Nat, B \in Nat : A = Len(a) /\ B = Len(b)
    BY <1>7
  <2>8. /\ A <= m /\ B <= m
        /\ A = x \/ A >= half
        /\ B = y \/ B >= half
    BY <2>1, <2>3, <2>4, <2>5, <2>6, <2>7
  <2> QED  BY <1>5, <2>1, <2>2, <2>6, <2>7, <2>8 DEF KeptOf
<1> HIDE DEF a, b, k
<1>10. \E x \in Seq(S), y \in Seq(S) : lastLines(o, e) = x \o y /\ KeptOf(x, y, o, e)
  BY <1>3, <1>5, <1>9, Zenon
<1>11. PICK l \in Nat : l = Len(a) + Len(b) /\ l <= MaxLines
  BY <1>7
<1>12. /\ lastLines(o, e) \in Seq(S)
       /\ Len(lastLines(o, e)) \in Nat /\ Len(lastLines(o, e)) <= MaxLines
  BY <1>3, <1>6, <1>11
<1>13. MaxLines >= 2 /\ e # <<>> =>
         /\ lastLines(o, e) # <<>>
         /\ lastLines(o, e)[Len(lastLines(o, e))] = e[Len(e)]
  BY <1>3, <1>8
<1> QED  BY <1>10, <1>12, <1>13

\* Masking hides what Mask recognises and never adds, drops or moves a line.
LEMMA MaskShape ==
  ASSUME NEW s \in Seq(Lines)
  PROVE  /\ MaskLines(s) \in Seq(Shown)
         /\ Len(MaskLines(s)) = Len(s)
         /\ \A i \in 1..Len(s) : MaskLines(s)[i] \in {s[i], "masked"}
         /\ \A i \in 1..Len(s) : InKey(s, i) => MaskLines(s)[i] = "masked"
<1> DEFINE t == [i \in 1..Len(s) |-> IF InKey(s, i) THEN "masked" ELSE Mask(s[i])]
<1>1. Len(s) \in Nat /\ \A i \in 1..Len(s) : s[i] \in Lines
  BY LenProperties, ElementOfSeq
<1>2. MaskLines(s) = t
  BY DEF MaskLines
<1>3. ASSUME NEW i \in 1..Len(s)
      PROVE  /\ t[i] \in {s[i], "masked"} /\ t[i] \in Shown
             /\ InKey(s, i) => t[i] = "masked"
  <2>1. t[i] = IF InKey(s, i) THEN "masked" ELSE Mask(s[i])
    OBVIOUS
  <2>2. Mask(s[i]) \in {s[i], "masked"} /\ Mask(s[i]) \in Shown /\ "masked" \in Shown
    BY <1>1 DEF Mask, Shown, Lines
  <2> HIDE DEF t
  <2>3. CASE InKey(s, i)
    <3>1. t[i] = "masked"
      BY <2>1, <2>3
    <3> QED  BY <2>2, <3>1
  <2>4. CASE ~InKey(s, i)
    <3>1. t[i] = Mask(s[i])
      BY <2>1, <2>4
    <3> QED  BY <2>2, <2>4, <3>1
  <2> QED  BY <2>3, <2>4
<1>4. t \in [1..Len(s) -> Shown]
  <2>1. \A i \in 1..Len(s) : t[i] \in Shown
    BY <1>3
  <2>2. t = [i \in 1..Len(s) |-> t[i]]
    OBVIOUS
  <2> HIDE DEF t
  <2> QED  BY <2>1, <2>2
<1> HIDE DEF t
<1>5. t \in Seq(Shown) /\ Len(t) = Len(s)
  BY <1>1, <1>4, SeqDef, LenProperties
<1> QED  BY <1>2, <1>3, <1>5

\* The end of an output that holds its last n lines, or all it has, of which
\* KeysNear holds, has every short line of a key after that key's first line.
LEMMA NearKept ==
  ASSUME NEW s \in Seq(Lines), NEW t \in Seq(Lines), EndOf(t, s), KeysNear(s),
         Len(t) <= MaxLines, Len(t) = Len(s) \/ Len(t) >= MaxLines \div 2,
         NEW i \in 1..Len(t), t[i] = "rest"
  PROVE  InKey(t, i)
<1>1. PICK L \in Nat, K \in Nat : L = Len(s) /\ K = Len(t) /\ K <= L
  BY LenProperties DEF EndOf
<1>2. PICK half \in Nat : half = MaxLines \div 2
  BY JobAssumptions
<1>3. MaxLines \in Nat
  BY JobAssumptions
<1> DEFINE d == L - K
           p == d + i
<1>4. d \in Nat /\ p \in 1..L /\ p > L - MaxLines /\ i \in 1..K
  BY <1>1, <1>3
<1>5. s[p] = "rest" /\ DOMAIN s = 1..L
  BY <1>1, <1>4, LenProperties DEF EndOf
<1>6. PICK j \in 1..p - 1 : /\ j > L - half /\ s[j] = "begin"
                           /\ \A k \in j + 1..p - 1 : s[k] # "end"
  BY <1>1, <1>2, <1>4, <1>5 DEF KeysNear
<1>7. j - d \in 1..i - 1 /\ d + (j - d) = j
  <2>1. CASE K = L
    BY <1>4, <1>6, <2>1
  <2>2. CASE K >= half
    BY <1>1, <1>2, <1>4, <1>6, <2>2
  <2> QED  BY <1>1, <1>2, <2>1, <2>2
<1>8. \A q \in 1..K : t[q] = s[d + q]
  BY <1>1 DEF EndOf
<1>9. t[j - d] = "begin"
  <2>1. j - d \in 1..K
    BY <1>4, <1>7
  <2> QED  BY <1>6, <1>7, <1>8, <2>1
<1>10. ASSUME NEW k \in (j - d) + 1..i - 1 PROVE t[k] # "end"
  <2>1. k \in 1..K /\ d + k \in j + 1..p - 1
    BY <1>4, <1>7
  <2> QED  BY <1>6, <1>8, <2>1
<1> QED  BY <1>7, <1>9, <1>10 DEF InKey

\* A key's line stays one where something comes before it or after it.
LEMMA InKeyJoined ==
  ASSUME NEW a \in Seq(Lines), NEW b \in Seq(Lines)
  PROVE  /\ \A i \in 1..Len(a) : InKey(a, i) => InKey(a \o b, i)
         /\ \A i \in 1..Len(b) : InKey(b, i) => InKey(a \o b, Len(a) + i)
<1>1. PICK A \in Nat, B \in Nat : A = Len(a) /\ B = Len(b)
  BY LenProperties
<1> DEFINE ab == a \o b
<1>2. /\ \A i \in 1..A : ab[i] = a[i]
      /\ \A i \in 1..B : ab[A + i] = b[i]
  <2>1. \A i \in 1..A + B : ab[i] = IF i <= A THEN a[i] ELSE b[i - A]
    BY <1>1, ConcatProperties
  <2>2. \A i \in 1..A : ab[i] = a[i]
    BY <1>1, <2>1
  <2>3. ASSUME NEW i \in 1..B PROVE ab[A + i] = b[i]
    <3>1. A + i \in 1..A + B /\ ~(A + i <= A) /\ (A + i) - A = i
      BY <1>1
    <3> QED  BY <2>1, <3>1
  <2> QED  BY <2>2, <2>3
<1> HIDE DEF ab
<1>3. ASSUME NEW i \in 1..A, InKey(a, i)
      PROVE  InKey(ab, i)
  <2>1. PICK j \in 1..i - 1 : a[j] = "begin" /\ \A k \in j + 1..i - 1 : a[k] # "end"
    BY <1>3 DEF InKey
  <2>2. j \in 1..A /\ \A k \in j + 1..i - 1 : k \in 1..A
    BY <1>1, <1>3
  <2>3. ab[j] = "begin" /\ \A k \in j + 1..i - 1 : ab[k] # "end"
    BY <1>2, <2>1, <2>2
  <2> QED  BY <2>3 DEF InKey
<1>4. ASSUME NEW i \in 1..B, InKey(b, i)
      PROVE  InKey(ab, A + i)
  <2>1. PICK j \in 1..i - 1 : b[j] = "begin" /\ \A k \in j + 1..i - 1 : b[k] # "end"
    BY <1>4 DEF InKey
  <2>2. j \in 1..B /\ A + j \in 1..(A + i) - 1
    BY <1>1, <1>4
  <2>3. ab[A + j] = "begin"
    BY <1>2, <2>1, <2>2
  <2>4. ASSUME NEW k \in (A + j) + 1..(A + i) - 1 PROVE ab[k] # "end"
    <3>1. k - A \in 1..B /\ k - A \in j + 1..i - 1 /\ A + (k - A) = k
      BY <1>1, <1>4
    <3>2. ab[A + (k - A)] = b[k - A] /\ b[k - A] # "end"
      BY <1>2, <2>1, <3>1
    <3> QED  BY <3>1, <3>2
  <2> QED  BY <2>2, <2>3, <2>4 DEF InKey
<1> QED  BY <1>1, <1>3, <1>4 DEF ab

\* The end of an end is an end.
LEMMA EndOfEnd ==
  ASSUME NEW S, NEW s \in Seq(S), NEW t \in Seq(S), NEW u \in Seq(S), EndOf(t, s), EndOf(u, t)
  PROVE  EndOf(u, s)
<1>1. PICK L \in Nat, K \in Nat, M \in Nat :
        L = Len(s) /\ K = Len(t) /\ M = Len(u) /\ K <= L /\ M <= K
  BY LenProperties DEF EndOf
<1>2. ASSUME NEW i \in 1..M PROVE u[i] = s[L - M + i]
  <2>1. u[i] = t[K - M + i] /\ K - M + i \in 1..K
    BY <1>1 DEF EndOf
  <2>2. t[K - M + i] = s[L - K + (K - M + i)]
    BY <1>1, <2>1 DEF EndOf
  <2>3. L - K + (K - M + i) = L - M + i
    BY <1>1
  <2> QED  BY <2>1, <2>2, <2>3
<1> QED  BY <1>1, <1>2 DEF EndOf

\* Where keys begin near the end, the lines kept hold no short line of a key
\* without its first line before it.
LEMMA KeysKept ==
  ASSUME NEW o \in Seq(Lines), NEW e \in Seq(Lines), KeysNear(o), KeysNear(e)
  PROVE  LET s == lastLines(tailBuffer(o), tailBuffer(e)) IN
         \A i \in 1..Len(s) : s[i] = "rest" => InKey(s, i)
<1> DEFINE oo == tailBuffer(o)
           ee == tailBuffer(e)
           s == lastLines(oo, ee)
<1>1. PICK half \in Nat : half = MaxLines \div 2 /\ half <= MaxLines
  BY JobAssumptions
<1>2. /\ oo \in Seq(Lines) /\ EndOf(oo, o) /\ Len(oo) = IF Len(o) <= MaxLines THEN Len(o) ELSE MaxLines
      /\ ee \in Seq(Lines) /\ EndOf(ee, e) /\ Len(ee) = IF Len(e) <= MaxLines THEN Len(e) ELSE MaxLines
  BY TailShape, JobAssumptions DEF tailBuffer
<1> HIDE DEF oo, ee
<1>3. PICK a \in Seq(Lines), b \in Seq(Lines) : s = a \o b /\ KeptOf(a, b, oo, ee)
  BY <1>2, LastLinesShape
<1>4. PICK A \in Nat, B \in Nat : A = Len(a) /\ B = Len(b)
  BY LenProperties
<1>5. EndOf(a, o) /\ EndOf(b, e)
  BY <1>2, <1>3, EndOfEnd DEF KeptOf
<1>6. /\ Len(a) <= MaxLines /\ (Len(a) = Len(o) \/ Len(a) >= MaxLines \div 2)
      /\ Len(b) <= MaxLines /\ (Len(b) = Len(e) \/ Len(b) >= MaxLines \div 2)
  BY <1>1, <1>2, <1>3, LenProperties DEF KeptOf
<1>7. /\ \A i \in 1..Len(a) : a[i] = "rest" => InKey(a, i)
      /\ \A i \in 1..Len(b) : b[i] = "rest" => InKey(b, i)
  BY <1>5, <1>6, NearKept
<1>8. /\ Len(s) = A + B
      /\ \A i \in 1..A + B : s[i] = IF i <= A THEN a[i] ELSE b[i - A]
  BY <1>3, <1>4, ConcatProperties
<1>9. /\ \A i \in 1..A : InKey(a, i) => InKey(s, i)
      /\ \A i \in 1..B : InKey(b, i) => InKey(s, A + i)
  BY <1>3, <1>4, InKeyJoined
<1> HIDE DEF s
<1>10. ASSUME NEW i \in 1..A + B, s[i] = "rest" PROVE InKey(s, i)
  <2>1. CASE i <= A
    BY <1>4, <1>7, <1>8, <1>9, <1>10, <2>1
  <2>2. CASE ~(i <= A)
    <3>1. i - A \in 1..B /\ A + (i - A) = i
      BY <1>10, <2>2
    <3>2. InKey(b, i - A)
      BY <1>4, <1>7, <1>8, <1>10, <2>2, <3>1
    <3>3. InKey(s, A + (i - A))
      BY <1>9, <3>1, <3>2
    <3> QED  BY <3>1, <3>3
  <2> QED  BY <2>1, <2>2
<1> QED  BY <1>8, <1>10 DEF s, oo, ee

-----------------------------------------------------------------------------
(* The inductive invariant, in parts.                                      *)
Places == {"asked", "ready", "running", "write", "rename", "exit", "killed"}
Given == UNION {CommandLines[w] : w \in Wrappers}
Quiets == {FALSE} \cup {Parse(args).quiet : args \in Given}
Jobs == {""} \cup {Parse(args).job : args \in Given}
Report == [job : Jobs, code : 0..255, signal : BOOLEAN, error : BOOLEAN,
           output : Seq(Shown), withheld : BOOLEAN]
File == [id : Wrappers \cup Litter, form : Forms, mod : Nat]
Fates == {"none", "early", "other", "aged", "crowded", "unread", "sent"}

Process == [pc : Places, code : 0..255, quiet : Quiets, said : BOOLEAN]

WrapperType ==
    /\ wrapper \in [Wrappers -> Process]
    /\ cmd \in [Wrappers -> {"none", "running", "ended"}]
    /\ report \in [Wrappers -> Report]
    /\ wrote \in [Wrappers -> Output]
    /\ now \in Nat

FolderType ==
    /\ folder \subseteq File /\ found \subseteq File /\ out \subseteq File
    /\ look \subseteq (Wrappers \cup Litter) \X Forms
    /\ fate \in [Wrappers -> Fates]
    /\ \A f \in out : f.id \in Wrappers

\* A command runs only while its wrapper waits for it.
Watched == \A w \in Wrappers : cmd[w] = "running" => wrapper[w].pc = "running"

\* A wrapper's file is its own and the only one: partial until the rename,
\* which is the last thing the wrapper does; and what Take has found of it is
\* the report that is there, if it still is.
FilesOwn ==
    /\ \A f \in folder : f.id \in Wrappers =>
         /\ f.form = "tmp" => wrapper[f.id].pc \in {"rename", "killed"}
         /\ f.form # "tmp" => wrapper[f.id].pc = "exit"
    /\ \A f, g \in folder : f.id = g.id /\ f.id \in Wrappers => f = g
    /\ \A f \in found \cup out : f.id \in Wrappers =>
         /\ wrapper[f.id].pc = "exit"
         /\ \A g \in folder : g.id = f.id => g = f

\* What a report says of the output is decided when it is made, from what the
\* command wrote and from whether the wrapper was told to be quiet.
ToldAsAsked(r, quiet, o) ==
    /\ r.code = 0 \/ quiet => r.output = <<>>
    /\ MaxLines >= 2 /\ r.code # 0 /\ ~quiet /\ o.err # <<>> =>
         r.output # <<>> /\ r.output[Len(r.output)] \in {o.err[Len(o.err)], "masked"}
    /\ Len(r.output) <= MaxLines
    /\ KeysNear(o.out) /\ KeysNear(o.err) =>
         \A i \in 1..Len(r.output) : r.output[i] # "rest"

ReportAsAsked ==
    \A w \in Wrappers :
        /\ wrapper[w].pc \in {"asked", "ready", "running"} => report[w].code = 0
        /\ ToldAsAsked(report[w], wrapper[w].quiet, wrote[w])

-----------------------------------------------------------------------------
(* What the operations do.                                                 *)

\* The tail of nothing is nothing.
LEMMA TailOfNothing == LastN(<<>>, MaxLines) = <<>>
<1>1. PICK z \in Seq(Shown) : z = <<>> /\ Len(z) = 0
  BY EmptySeq
<1>2. MaxLines \in Nat
  BY JobAssumptions
<1>3. /\ LastN(z, MaxLines) \in Seq(Shown)
      /\ Len(LastN(z, MaxLines)) = IF Len(z) <= MaxLines THEN Len(z) ELSE MaxLines
  BY <1>2, TailShape
<1>4. Len(LastN(z, MaxLines)) = 0
  BY <1>1, <1>2, <1>3
<1>5. LastN(z, MaxLines) = <<>>
  BY <1>3, <1>4, EmptySeq
<1> QED  BY <1>1, <1>5

\* Told makes a report of the same run whose output is as asked.
LEMMA ToldShape ==
  ASSUME NEW r \in Report, r.output = <<>>, NEW quiet, NEW o \in Output
  PROVE  /\ Told(r, quiet, o) \in Report
         /\ ToldAsAsked(Told(r, quiet, o), quiet, o)
<1> DEFINE t == Told(r, quiet, o)
           a == tailBuffer(o.out)
           e == tailBuffer(o.err)
           m == MaskLines(lastLines(a, e))
<1>1. MaxLines \in Nat /\ MaxLines > 0 /\ Len(<<>>) = 0
  BY JobAssumptions, EmptySeq
<1>2. CASE r.code = 0 \/ quiet
  <2>1. PICK q \in Report : /\ t = Clipped(q) /\ q.code = r.code /\ q.output = <<>>
    <3>1. [r EXCEPT !.withheld = TRUE] \in Report
      BY DEF Report
    <3>2. [r EXCEPT !.withheld = TRUE].code = r.code /\ [r EXCEPT !.withheld = TRUE].output = <<>>
      BY DEF Report
    <3>3. t = Clipped(IF r.code = 0 THEN r ELSE [r EXCEPT !.withheld = TRUE])
      BY <1>2, Zenon DEF Told
    <3>4. CASE r.code = 0
      BY <3>3, <3>4
    <3>5. CASE r.code # 0
      BY <3>1, <3>2, <3>3, <3>5
    <3> QED  BY <3>4, <3>5
  <2>2. Clipped(q) = [q EXCEPT !.output = <<>>]
    BY <2>1, TailOfNothing DEF Clipped, Report
  <2>3. <<>> \in Seq(Shown)
    BY EmptySeq
  <2>4. /\ [q EXCEPT !.output = <<>>] \in Report
        /\ [q EXCEPT !.output = <<>>].output = <<>>
        /\ [q EXCEPT !.output = <<>>].code = q.code
    BY <2>3 DEF Report
  <2>5. t.output = <<>> /\ t.code = r.code /\ t \in Report
    BY <2>1, <2>2, <2>4, Zenon
  <2>6. PICK z \in Report : z = Told(r, quiet, o)
    BY <2>5, Zenon
  <2>7. z.output = <<>> /\ z.code = r.code
    BY <2>5, <2>6, Zenon
  <2>8. Len(z.output) <= MaxLines /\ \A i \in 1..Len(z.output) : z.output[i] # "rest"
    BY <1>1, <2>7
  <2>9. ToldAsAsked(z, quiet, o)
    BY <1>2, <2>7, <2>8 DEF ToldAsAsked
  <2> QED  BY <2>6, <2>9, Zenon
<1>3. CASE ~(r.code = 0 \/ quiet)
  <2>1. /\ a \in Seq(Lines) /\ e \in Seq(Lines)
        /\ o.err # <<>> => e # <<>> /\ e[Len(e)] = o.err[Len(o.err)]
    BY <1>1, TailShape DEF tailBuffer, Output
  <2>2. /\ lastLines(a, e) \in Seq(Lines)
        /\ Len(lastLines(a, e)) \in Nat /\ Len(lastLines(a, e)) <= MaxLines
        /\ MaxLines >= 2 /\ e # <<>> =>
             /\ lastLines(a, e) # <<>>
             /\ lastLines(a, e)[Len(lastLines(a, e))] = e[Len(e)]
    BY <2>1, LastLinesShape
  <2> HIDE DEF a, e
  <2>3. /\ m \in Seq(Shown) /\ Len(m) = Len(lastLines(a, e))
        /\ \A i \in 1..Len(lastLines(a, e)) : m[i] \in {lastLines(a, e)[i], "masked"}
        /\ \A i \in 1..Len(lastLines(a, e)) : InKey(lastLines(a, e), i) => m[i] = "masked"
    BY <2>2, MaskShape
  <2>4. t = [r EXCEPT !.output = LastN(m, MaxLines)]
    BY <1>3 DEF Told, Clipped, Report, a, e
  <2> HIDE DEF m, t
  <2>5. /\ LastN(m, MaxLines) \in Seq(Shown)
        /\ Len(LastN(m, MaxLines)) <= MaxLines
        /\ m # <<>> => /\ LastN(m, MaxLines) # <<>>
                       /\ LastN(m, MaxLines)[Len(LastN(m, MaxLines))] = m[Len(m)]
    BY <1>1, <2>2, <2>3, TailShape
  <2>6. t \in Report /\ t.code = r.code /\ t.output = LastN(m, MaxLines)
    BY <2>4, <2>5 DEF Report
  <2>7. ASSUME MaxLines >= 2, o.err # <<>>
        PROVE  m # <<>> /\ m[Len(m)] \in {o.err[Len(o.err)], "masked"}
    <3>1. lastLines(a, e) # <<>> /\ lastLines(a, e)[Len(lastLines(a, e))] = o.err[Len(o.err)]
      BY <2>1, <2>2, <2>7
    <3>2. Len(lastLines(a, e)) > 0
      BY <2>2, <3>1, EmptySeq
    <3> QED  BY <2>2, <2>3, <3>1, <3>2, EmptySeq
  <2>10. ASSUME KeysNear(o.out), KeysNear(o.err)
         PROVE  \A i \in 1..Len(t.output) : t.output[i] # "rest"
    <3>1. ASSUME NEW i \in 1..Len(m) PROVE m[i] # "rest"
      <4>1. lastLines(a, e)[i] = "rest" => InKey(lastLines(a, e), i)
        BY <2>3, <2>10, <3>1, KeysKept DEF Output, a, e
      <4> QED  BY <2>3, <3>1, <4>1
    <3>2. EndOf(LastN(m, MaxLines), m)
      BY <1>1, <2>3, TailShape
    <3>3. PICK L \in Nat, K \in Nat : L = Len(m) /\ K = Len(LastN(m, MaxLines)) /\ K <= L
      BY <2>3, <2>5, <3>2, LenProperties DEF EndOf
    <3>4. ASSUME NEW i \in 1..K PROVE LastN(m, MaxLines)[i] # "rest"
      <4>1. L - K + i \in 1..L
        BY <3>3
      <4> QED  BY <3>1, <3>2, <3>3, <4>1 DEF EndOf
    <3> QED  BY <2>6, <3>3, <3>4
  <2>8. /\ t.output = <<>> \/ (r.code # 0 /\ ~quiet)
        /\ Len(t.output) <= MaxLines
    BY <1>3, <2>5, <2>6
  <2>9. MaxLines >= 2 /\ o.err # <<>> =>
          t.output # <<>> /\ t.output[Len(t.output)] \in {o.err[Len(o.err)], "masked"}
    BY <2>5, <2>6, <2>7
  <2> HIDE DEF t
  <2>11. ToldAsAsked(t, quiet, o)
    BY <1>3, <2>6, <2>8, <2>9, <2>10 DEF ToldAsAsked
  <2> QED  BY <2>6, <2>11 DEF t
<1> QED  BY <1>2, <1>3

\* Files that go are files of the folder named like the ones to remove.
LEMMA UnlinkEffect ==
  ASSUME NEW S, NEW why, Unlink(S, why)
  PROVE  \E gone \in SUBSET folder :
           /\ \A f \in gone : \E g \in S : f.id = g.id /\ f.form = g.form
           /\ folder' = folder \ gone
           /\ fate' = [w \in Wrappers |->
                IF \E f \in gone : f.id = w /\ f.form = "json" THEN why ELSE fate[w]]
<1>1. PICK S1 \in SUBSET S :
        LET gone == {f \in folder : \E g \in S1 : f.id = g.id /\ f.form = g.form} IN
        /\ folder' = folder \ gone
        /\ fate' = [w \in Wrappers |->
             IF \E f \in gone : f.id = w /\ f.form = "json" THEN why ELSE fate[w]]
  BY DEF Unlink
<1> DEFINE gone == {f \in folder : \E g \in S1 : f.id = g.id /\ f.form = g.form}
<1>2. gone \in SUBSET folder /\ \A f \in gone : \E g \in S : f.id = g.id /\ f.form = g.form
  OBVIOUS
<1> QED  BY <1>1, <1>2

\* A look at one entry: only what has aged goes as a report, and only reports
\* that are there are found.
LEMMA LookEffect ==
  ASSUME FolderType, Look
  PROVE  /\ \E S \in SUBSET folder, why \in {"early", "other", "aged"} :
              /\ Unlink(S, why)
              /\ why # "aged" => \A f \in S : f.form # "json"
         /\ look' \subseteq look
         /\ found' \subseteq found \cup {f \in folder : f.form = "json"}
         /\ out' = out
<1> DEFINE entry == CHOOSE e \in look : TRUE
           here == At(entry[1], entry[2])
<1>1. entry \in look
  BY DEF Look
<1>2. entry[2] \in Forms
  BY <1>1 DEF FolderType
<1>3. /\ look' = look \ {entry} /\ out' = out
      /\ CASE entry[2] = "tmp" ->
                 Unlink({f \in here : Expired(f)}, "early") /\ UNCHANGED found
           [] entry[2] = "other" -> Unlink(here, "other") /\ UNCHANGED found
           [] entry[2] = "json" ->
                 /\ Unlink({f \in here : now - f.mod > MaxAge}, "aged")
                 /\ found' = found \cup {f \in here : now - f.mod <= MaxAge}
  BY DEF Look
<1>4. here \subseteq folder /\ \A f \in here : f.form = entry[2]
  BY DEF At
<1> HIDE DEF entry, here
<1>5. CASE entry[2] = "tmp"
  <2> DEFINE S == {f \in here : Expired(f)}
  <2>1. Unlink(S, "early") /\ found' = found
    BY <1>3, <1>5
  <2>2. S \in SUBSET folder /\ \A f \in S : f.form # "json"
    BY <1>4, <1>5
  <2> HIDE DEF S
  <2> QED  BY <1>3, <2>1, <2>2
<1>6. CASE entry[2] = "other"
  <2>1. Unlink(here, "other") /\ found' = found
    BY <1>3, <1>6
  <2>2. here \in SUBSET folder /\ \A f \in here : f.form # "json"
    BY <1>4, <1>6
  <2> QED  BY <1>3, <2>1, <2>2
<1>7. CASE entry[2] = "json"
  <2> DEFINE S == {f \in here : now - f.mod > MaxAge}
  <2>1. Unlink(S, "aged") /\ found' \subseteq found \cup here
    BY <1>3, <1>7
  <2>2. S \in SUBSET folder /\ here \subseteq {f \in folder : f.form = "json"}
    BY <1>4, <1>7
  <2> HIDE DEF S
  <2> QED  BY <1>3, <2>1, <2>2
<1> QED  BY <1>2, <1>5, <1>6, <1>7 DEF Forms

\* What a rename leaves: the report, or nothing of the partial file.
LEMMA RenameEffect ==
  ASSUME NEW w \in Wrappers, Rename(w)
  PROVE  \E made \in SUBSET {[f EXCEPT !.form = "json"] : f \in At(w, "tmp")} :
           /\ folder' = (folder \ At(w, "tmp")) \cup made
           /\ wrapper' = [wrapper EXCEPT ![w].pc = "exit", ![w].said = (made = {})]
<1>1. PICK renamed \in BOOLEAN :
        LET made == {[f EXCEPT !.form = "json"] : f \in IF renamed THEN At(w, "tmp") ELSE {}} IN
        /\ folder' = (folder \ At(w, "tmp")) \cup made
        /\ wrapper' = [wrapper EXCEPT ![w].pc = "exit", ![w].said = (made = {})]
  BY DEF Rename, Succeeds
<1> DEFINE made == {[f EXCEPT !.form = "json"] : f \in IF renamed THEN At(w, "tmp") ELSE {}}
<1>2. made \subseteq {[f EXCEPT !.form = "json"] : f \in At(w, "tmp")}
  OBVIOUS
<1> QED  BY <1>1, <1>2

-----------------------------------------------------------------------------
(* The invariant holds at the start and no step breaks it.                 *)
LEMMA InitHolds ==
  ASSUME Init
  PROVE  WrapperType /\ FolderType /\ Watched /\ FilesOwn /\ ReportAsAsked /\ NoSilentLoss
<1>1. <<>> \in Seq(Shown) /\ <<>> \in Seq(Lines) /\ Len(<<>>) = 0 /\ 0 <= MaxLines
  BY EmptySeq, JobAssumptions
<1>2. NoReport \in Report
  BY <1>1 DEF NoReport, Report, Jobs
<1>3. WrapperType
  BY <1>1, <1>2 DEF Init, WrapperType, Process, Idle, Silent, Places, Quiets, Output
<1>4. FolderType
  BY DEF Init, FolderType, Fates
<1>5. Watched /\ FilesOwn /\ NoSilentLoss
  BY DEF Init, Watched, FilesOwn, Idle, NoSilentLoss
<1>6. NoReport.code = 0 /\ NoReport.output = <<>> /\ Silent.err = <<>>
  BY DEF NoReport, Silent
<1>7. ToldAsAsked(NoReport, FALSE, Silent)
  <2>1. Len(NoReport.output) <= MaxLines /\ \A i \in 1..Len(NoReport.output) : NoReport.output[i] # "rest"
    BY <1>1, <1>6
  <2> QED  BY <1>6, <2>1 DEF ToldAsAsked
<1>8. ReportAsAsked
  BY <1>6, <1>7 DEF Init, ReportAsAsked, Idle
<1> QED  BY <1>3, <1>4, <1>5, <1>8

\* What concluding a run changes of the wrappers' state.
RunConcluded(w) ==
    \E r \in Report, o \in Output, c \in 0..255 :
        /\ wrapper' = [wrapper EXCEPT ![w].pc = "write", ![w].code = c]
        /\ report' = [report EXCEPT ![w] = r]
        /\ wrote' = [wrote EXCEPT ![w] = o]
        /\ ToldAsAsked(r, wrapper[w].quiet, o)

\* What a wrapper concludes is a report on its run, as asked.
LEMMA ConcludedEffect ==
  ASSUME NEW w \in Wrappers, NEW r \in Report, r.output = <<>>, NEW o \in Output,
         Concluded(w, r, o)
  PROVE  RunConcluded(w)
<1>1. /\ Told(r, wrapper[w].quiet, o) \in Report
      /\ ToldAsAsked(Told(r, wrapper[w].quiet, o), wrapper[w].quiet, o)
  BY ToldShape
<1>2. r.code \in 0..255
  BY DEF Report
<1> QED  BY <1>1, <1>2 DEF Concluded, RunConcluded

\* A report with one more thing said of its run is a report, and its output is
\* as it was.
LEMMA CodeShape ==
  ASSUME NEW d \in Report, NEW n \in 0..255
  PROVE  \E a \in Report : a = [d EXCEPT !.code = n] /\ a.output = d.output
<1>1. [d EXCEPT !.code = n] \in Report /\ [d EXCEPT !.code = n].output = d.output
  BY DEF Report
<1> QED  BY <1>1, Zenon

LEMMA OutcomeShape ==
  ASSUME NEW d \in Report, NEW e \in BOOLEAN
  PROVE  /\ \E a \in Report : a = [d EXCEPT !.signal = e] /\ a.output = d.output
         /\ \E a \in Report : a = [d EXCEPT !.error = e] /\ a.output = d.output
<1>1. [d EXCEPT !.signal = e] \in Report /\ [d EXCEPT !.signal = e].output = d.output
  BY DEF Report
<1>2. [d EXCEPT !.error = e] \in Report /\ [d EXCEPT !.error = e].output = d.output
  BY DEF Report
<1> QED  BY <1>1, <1>2, Zenon

\* The two ways a run is concluded.
LEMMA StartFailsEffect ==
  ASSUME WrapperType, ReportAsAsked, NEW w \in Wrappers, NEW c, StartFails(w, c)
  PROVE  RunConcluded(w)
<1>1. PICK r : r = [report[w] EXCEPT !.code = c, !.error = TRUE]
  OBVIOUS
<1>2. c \in 0..255 /\ Concluded(w, r, Silent)
  BY <1>1 DEF StartFails
<1>3. report[w] \in Report /\ report[w].output = <<>> /\ Silent \in Output
  BY EmptySeq DEF WrapperType, ReportAsAsked, ToldAsAsked, StartFails, Silent, Output
<1>4. PICK e \in BOOLEAN : e = TRUE
  OBVIOUS
<1>5. PICK d \in Report : d = report[w]
  BY <1>3
<1>6. PICK a \in Report : a = [d EXCEPT !.code = c] /\ a.output = d.output
  BY <1>2, CodeShape, Zenon
<1>7. PICK b \in Report : b = [a EXCEPT !.error = e] /\ b.output = a.output
  BY OutcomeShape, Zenon
<1>8. r = b
  BY <1>1, <1>4, <1>5, <1>6, <1>7, Zenon
<1>9. r \in Report /\ r.output = <<>>
  BY <1>3, <1>5, <1>6, <1>7, <1>8, Zenon
<1> QED  BY <1>2, <1>3, <1>9, ConcludedEffect

LEMMA EndsEffect ==
  ASSUME WrapperType, ReportAsAsked,
         NEW w \in Wrappers, NEW c \in Codes, NEW o \in Outputs, Ends(w, c, o)
  PROVE  RunConcluded(w)
<1>1. PICK copied \in Succeeds("copy") :
        LET code == IF c = 0 /\ ~copied THEN 126 ELSE c IN
        Concluded(w, [report[w] EXCEPT !.code = code, !.signal = (c = 143),
                                       !.error = (code # c)], o)
  BY DEF Ends
<1>2. PICK code : code = IF c = 0 /\ ~copied THEN 126 ELSE c
  OBVIOUS
<1>3. o \in Output /\ code \in 0..255
  BY <1>2, OutputsAssumption, JobAssumptions DEF Output
<1>4. PICK s \in BOOLEAN, e \in BOOLEAN : s = (c = 143) /\ e = (code # c)
  BY Zenon
<1>5. report[w] \in Report /\ report[w].output = <<>>
  BY DEF WrapperType, ReportAsAsked, ToldAsAsked, Ends
<1>6. PICK d \in Report : d = report[w]
  BY <1>5
<1>7. PICK a \in Report : a = [d EXCEPT !.code = code] /\ a.output = d.output
  BY <1>3, CodeShape, Zenon
<1>8. PICK b \in Report : b = [a EXCEPT !.signal = s] /\ b.output = a.output
  BY OutcomeShape, Zenon
<1>9. PICK r \in Report : r = [b EXCEPT !.error = e] /\ r.output = b.output
  BY OutcomeShape, Zenon
<1>10. r = [report[w] EXCEPT !.code = code, !.signal = (c = 143), !.error = (code # c)]
  BY <1>4, <1>6, <1>7, <1>8, <1>9, Zenon
<1>11. Concluded(w, r, o)
  BY <1>1, <1>2, <1>10, Zenon
<1>12. r.output = <<>>
  BY <1>5, <1>6, <1>7, <1>8, <1>9, Zenon
<1> QED  BY <1>3, <1>11, <1>12, ConcludedEffect

LEMMA ConcludedPlace ==
  ASSUME WrapperType, NEW w \in Wrappers, RunConcluded(w)
  PROVE  /\ \A v \in Wrappers : v # w =>
              wrapper'[v] = wrapper[v] /\ report'[v] = report[v] /\ wrote'[v] = wrote[v]
         /\ wrapper'[w].pc = "write" /\ wrapper'[w].quiet = wrapper[w].quiet
         /\ ToldAsAsked(report'[w], wrapper[w].quiet, wrote'[w])
<1>1. PICK r \in Report, o \in Output, c \in 0..255 :
        /\ wrapper' = [wrapper EXCEPT ![w].pc = "write", ![w].code = c]
        /\ report' = [report EXCEPT ![w] = r]
        /\ wrote' = [wrote EXCEPT ![w] = o]
        /\ ToldAsAsked(r, wrapper[w].quiet, o)
  BY DEF RunConcluded
<1>2. report'[w] = r /\ wrote'[w] = o
  BY <1>1 DEF WrapperType
<1>3. wrapper'[w].pc = "write" /\ wrapper'[w].quiet = wrapper[w].quiet
  BY <1>1 DEF WrapperType, Process
<1>4. \A v \in Wrappers : v # w =>
        wrapper'[v] = wrapper[v] /\ report'[v] = report[v] /\ wrote'[v] = wrote[v]
  BY <1>1 DEF WrapperType
<1> QED  BY <1>1, <1>2, <1>3, <1>4

\* Every step keeps the wrappers' state in its type.
LEMMA WrapperTypeStep ==
  ASSUME WrapperType, ReportAsAsked, [Next]_vars
  PROVE  WrapperType'
<1>1. ASSUME NEW w \in Wrappers, NEW args \in CommandLines[w], Refuse(w, args)
      PROVE  WrapperType'
  <2> DEFINE c == IF Parse(args).ok THEN 126 ELSE 2
  <2>1. c \in 0..255 /\ wrapper[w] \in Process
    BY DEF WrapperType
  <2>2. /\ wrapper' = [wrapper EXCEPT ![w].pc = "exit", ![w].said = TRUE, ![w].code = c]
        /\ UNCHANGED <<cmd, report, now, wrote>>
    BY <1>1 DEF Refuse
  <2> HIDE DEF c
  <2>3. [wrapper[w] EXCEPT !.pc = "exit", !.said = TRUE, !.code = c] \in Process
    BY <2>1 DEF Process, Places
  <2> QED  BY <2>2, <2>3 DEF WrapperType
<1>2. ASSUME NEW w \in Wrappers, NEW args \in CommandLines[w], Begin(w, args)
      PROVE  WrapperType'
  <2> DEFINE q == Parse(args).quiet
             j == Parse(args).job
  <2>1. /\ q \in Quiets /\ j \in Jobs
        /\ wrapper[w] \in Process /\ report[w] \in Report
    BY DEF Quiets, Jobs, Given, WrapperType
  <2>2. /\ wrapper' = [wrapper EXCEPT ![w].pc = "ready", ![w].quiet = q]
        /\ report' = [report EXCEPT ![w].job = j]
        /\ UNCHANGED <<cmd, now, wrote>>
    BY <1>2 DEF Begin
  <2> HIDE DEF q, j
  <2>3. [report[w] EXCEPT !.job = j] \in Report
    BY <2>1 DEF Report
  <2>4. [wrapper[w] EXCEPT !.pc = "ready", !.quiet = q] \in Process
    BY <2>1 DEF Process, Places
  <2> QED  BY <2>2, <2>3, <2>4 DEF WrapperType
<1>3. ASSUME NEW w \in Wrappers, Start(w)
      PROVE  WrapperType'
  <2>1. [wrapper[w] EXCEPT !.pc = "running"] \in Process
    BY DEF WrapperType, Process, Places
  <2> QED  BY <1>3, <2>1 DEF Start, WrapperType
<1>4. ASSUME NEW w \in Wrappers, RunConcluded(w), UNCHANGED now,
             UNCHANGED cmd \/ cmd' = [cmd EXCEPT ![w] = "ended"]
      PROVE  WrapperType'
  <2>1. PICK r \in Report, o \in Output, c \in 0..255 :
          /\ wrapper' = [wrapper EXCEPT ![w].pc = "write", ![w].code = c]
          /\ report' = [report EXCEPT ![w] = r]
          /\ wrote' = [wrote EXCEPT ![w] = o]
    BY <1>4 DEF RunConcluded
  <2>2. wrapper[w] \in Process
    BY DEF WrapperType
  <2>3. [wrapper[w] EXCEPT !.pc = "write", !.code = c] \in Process
    BY <2>2 DEF Process, Places
  <2> QED  BY <1>4, <2>1, <2>3 DEF WrapperType
<1>5. ASSUME NEW w \in Wrappers, NEW c \in {126, 127}, StartFails(w, c)
      PROVE  WrapperType'
  BY <1>4, <1>5, StartFailsEffect DEF StartFails
<1>6. ASSUME NEW w \in Wrappers, NEW c \in Codes, NEW o \in Outputs, Ends(w, c, o)
      PROVE  WrapperType'
  BY <1>4, <1>6, EndsEffect DEF Ends
<1>7. ASSUME NEW w \in Wrappers, Forward(w)
      PROVE  WrapperType'
  BY <1>7 DEF Forward, WrapperType
<1>8. ASSUME NEW w \in Wrappers, WriteTmp(w) \/ Rename(w) \/ Stop(w)
      PROVE  WrapperType'
  <2>1. wrapper[w] \in Process
    BY DEF WrapperType
  <2>2. /\ [wrapper[w] EXCEPT !.pc = "rename"] \in Process
        /\ [wrapper[w] EXCEPT !.pc = "exit", !.said = TRUE] \in Process
        /\ \A b \in BOOLEAN : [wrapper[w] EXCEPT !.pc = "exit", !.said = b] \in Process
        /\ [wrapper[w] EXCEPT !.pc = "killed"] \in Process
    BY <2>1 DEF Process, Places
  <2>3. UNCHANGED <<cmd, report, now, wrote>>
    BY <1>8 DEF WriteTmp, Rename, Stop
  <2>4. CASE Rename(w)
    <3>1. PICK b \in BOOLEAN : wrapper' = [wrapper EXCEPT ![w].pc = "exit", ![w].said = b]
      BY <2>4, RenameEffect
    <3> QED  BY <2>2, <2>3, <3>1 DEF WrapperType
  <2>5. CASE WriteTmp(w) \/ Stop(w)
    <3>1. wrapper' \in [Wrappers -> Process]
      BY <2>2, <2>5 DEF WriteTmp, Stop, WrapperType
    <3> QED  BY <2>3, <3>1 DEF WrapperType
  <2> QED  BY <1>8, <2>4, <2>5
<1>9. ASSUME UNCHANGED job, UNCHANGED now \/ Tick
      PROVE  WrapperType'
  BY <1>9 DEF job, Tick, WrapperType
<1>10. ASSUME Agent \/ \E id \in Litter, form \in Forms : Drop(id, form)
      PROVE  UNCHANGED job /\ UNCHANGED now
  BY <1>10 DEF Agent, TakeList, Look, Trim, Read, TakeDone, Accepted, Failed, Drop
<1>11. CASE UNCHANGED vars
  BY <1>11 DEF vars, WrapperType
<1>12. CASE Tick
  BY <1>9, <1>12 DEF Tick
<1> QED  BY <1>1, <1>2, <1>3, <1>5, <1>6, <1>7, <1>8, <1>9, <1>10, <1>11, <1>12
         DEF Next, Wrapped

LEMMA UnlinkType ==
  ASSUME FolderType, NEW S, NEW why \in Fates, Unlink(S, why)
  PROVE  folder' \subseteq folder /\ fate' \in [Wrappers -> Fates]
BY UnlinkEffect DEF FolderType

\* Every step keeps the files and the agent's lists in their types.
LEMMA FolderTypeStep ==
  ASSUME WrapperType, FolderType, [Next]_vars
  PROVE  FolderType'
<1>1. ASSUME UNCHANGED <<folder, agent, fate>>
      PROVE  FolderType'
  BY <1>1 DEF agent, FolderType
<1>2. ASSUME NEW w \in Wrappers, Wrapped(w) \/ Stop(w)
      PROVE  FolderType'
  <2>1. CASE WriteTmp(w)
    <3>1. [id |-> w, form |-> "tmp", mod |-> now] \in File
      BY DEF WrapperType, File, Forms
    <3>2. /\ folder' \subseteq folder \cup {[id |-> w, form |-> "tmp", mod |-> now]}
          /\ UNCHANGED <<agent, fate>>
      BY <2>1 DEF WriteTmp
    <3> QED  BY <3>1, <3>2 DEF FolderType, agent
  <2>2. CASE Rename(w)
    <3>1. \A f \in File : [f EXCEPT !.form = "json"] \in File
      BY DEF File, Forms
    <3>2. {[f EXCEPT !.form = "json"] : f \in At(w, "tmp")} \subseteq File
      BY <3>1 DEF At, FolderType
    <3>3. folder' \subseteq File /\ UNCHANGED <<agent, fate>>
      BY <2>2, <3>2 DEF Rename, FolderType
    <3> QED  BY <3>3 DEF FolderType, agent
  <2>3. ASSUME NEW args, Refuse(w, args) \/ Begin(w, args)
        PROVE  FolderType'
    BY <1>1, <2>3 DEF Refuse, Begin
  <2>4. CASE Start(w) \/ Forward(w) \/ Stop(w)
    BY <1>1, <2>4 DEF Start, Forward, Stop
  <2>5. ASSUME NEW c, StartFails(w, c) \/ \E o \in Outputs : Ends(w, c, o)
        PROVE  FolderType'
    BY <1>1, <2>5 DEF StartFails, Ends
  <2> QED  BY <1>2, <2>1, <2>2, <2>3, <2>4, <2>5 DEF Wrapped
<1>3. ASSUME NEW id \in Litter, NEW form \in Forms, Drop(id, form)
      PROVE  FolderType'
  <2>1. [id |-> id, form |-> form, mod |-> now] \in File
    BY DEF WrapperType, File
  <2> QED  BY <1>3, <2>1 DEF Drop, FolderType, agent
<1>4. CASE TakeList
  <2>1. {<<f.id, f.form>> : f \in folder} \subseteq (Wrappers \cup Litter) \X Forms
    BY DEF FolderType, File
  <2> QED  BY <1>4, <2>1 DEF TakeList, FolderType
<1>5. CASE Look
  <2>1. PICK S \in SUBSET folder, why \in {"early", "other", "aged"} : Unlink(S, why)
    BY <1>5, LookEffect
  <2>2. folder' \subseteq folder /\ fate' \in [Wrappers -> Fates]
    BY <2>1, UnlinkType DEF Fates
  <2>3. look' \subseteq look /\ found' \subseteq found \cup folder /\ out' = out
    BY <1>5, LookEffect
  <2> QED  BY <2>2, <2>3 DEF FolderType
<1>6. CASE Trim
  <2>1. PICK keep \in SUBSET found : Unlink(found \ keep, "crowded") /\ found' = keep
    BY <1>6 DEF Trim
  <2>2. folder' \subseteq folder /\ fate' \in [Wrappers -> Fates]
    BY <2>1, UnlinkType DEF Fates
  <2> QED  BY <1>6, <2>1, <2>2 DEF FolderType, Trim
<1>7. ASSUME NEW f \in found, Read(f)
      PROVE  FolderType'
  <2>1. \/ f.id \in Wrappers /\ out' = out \cup {f} /\ UNCHANGED <<folder, fate>>
        \/ Unlink({f}, "unread") /\ UNCHANGED out
    BY <1>7 DEF Read
  <2>2. Unlink({f}, "unread") => folder' \subseteq folder /\ fate' \in [Wrappers -> Fates]
    BY UnlinkType DEF Fates
  <2> QED  BY <1>7, <2>1, <2>2 DEF FolderType, Read
<1>8. CASE TakeDone
  BY <1>8 DEF TakeDone, FolderType
<1>9. CASE Accepted
  <2>1. folder' \subseteq folder /\ fate' \in [Wrappers -> Fates]
    BY <1>9, UnlinkType DEF Accepted, RemoveSent, Fates
  <2> QED  BY <1>9, <2>1 DEF Accepted, FolderType
<1>10. CASE Failed
  BY <1>10 DEF Failed, FolderType
<1>11. CASE Tick \/ UNCHANGED vars
  BY <1>1, <1>11 DEF Tick, vars, agent
<1> QED  BY <1>2, <1>3, <1>4, <1>5, <1>6, <1>7, <1>8, <1>9, <1>10, <1>11 DEF Next, Agent

\* A wrapper waits from before its command starts until after it has ended.
LEMMA WatchedStep ==
  ASSUME WrapperType, ReportAsAsked, Watched, [Next]_vars
  PROVE  Watched'
<1> USE DEF WrapperType, Process, Watched
<1>1. ASSUME NEW w \in Wrappers, NEW args, Refuse(w, args) \/ Begin(w, args)
      PROVE  Watched'
  BY <1>1 DEF Refuse, Begin
<1>2. ASSUME NEW w \in Wrappers, Start(w) \/ Forward(w)
      PROVE  Watched'
  BY <1>2 DEF Start, Forward
<1>3. ASSUME NEW w \in Wrappers, NEW c \in {126, 127}, StartFails(w, c)
      PROVE  Watched'
  <2>1. wrapper[w].pc = "ready" /\ UNCHANGED cmd
    BY <1>3 DEF StartFails
  <2>2. \A v \in Wrappers : v # w => wrapper'[v] = wrapper[v]
    BY <1>3, StartFailsEffect, ConcludedPlace
  <2> QED  BY <2>1, <2>2
<1>4. ASSUME NEW w \in Wrappers, NEW c \in Codes, NEW o \in Outputs, Ends(w, c, o)
      PROVE  Watched'
  <2>1. cmd' = [cmd EXCEPT ![w] = "ended"]
    BY <1>4 DEF Ends
  <2>2. \A v \in Wrappers : v # w => wrapper'[v] = wrapper[v]
    BY <1>4, EndsEffect, ConcludedPlace
  <2> QED  BY <2>1, <2>2
<1>5. ASSUME NEW w \in Wrappers, WriteTmp(w) \/ Rename(w)
      PROVE  Watched'
  BY <1>5 DEF WriteTmp, Rename
<1>6. ASSUME NEW w \in Wrappers, Stop(w)
      PROVE  Watched'
  BY <1>6 DEF Stop, Catches
<1>7. CASE Agent \/ \E id \in Litter, form \in Forms : Drop(id, form)
  BY <1>7 DEF Agent, TakeList, Look, Trim, Read, TakeDone, Accepted, Failed, Drop, job
<1>8. CASE Tick \/ UNCHANGED vars
  BY <1>8 DEF Tick, vars, job
<1> QED  BY <1>1, <1>2, <1>3, <1>4, <1>5, <1>6, <1>7, <1>8 DEF Next, Wrapped

\* Nothing but concluding the run decides what the report says.
LEMMA ReportAsAskedStep ==
  ASSUME WrapperType, ReportAsAsked, [Next]_vars
  PROVE  ReportAsAsked'
<1>1. ASSUME UNCHANGED <<report, wrote>>,
             \A v \in Wrappers : /\ wrapper'[v].quiet = wrapper[v].quiet
                                 /\ \/ wrapper'[v].pc = wrapper[v].pc
                                    \/ wrapper'[v].pc \notin {"asked", "ready", "running"}
                                    \/ wrapper[v].pc = "ready"
      PROVE  ReportAsAsked'
  BY <1>1 DEF ReportAsAsked, ToldAsAsked
<1>2. ASSUME NEW w \in Wrappers, NEW args, Refuse(w, args)
      PROVE  ReportAsAsked'
  BY <1>1, <1>2 DEF Refuse, WrapperType, Process
<1>3. ASSUME NEW w \in Wrappers, NEW args, Begin(w, args)
      PROVE  ReportAsAsked'
  <2>1. /\ report[w].code = 0 /\ report[w].output = <<>> /\ report[w] \in Report
        /\ Len(report[w].output) <= MaxLines
    BY <1>3 DEF Begin, ReportAsAsked, ToldAsAsked, WrapperType
  <2>2. report' = [report EXCEPT ![w].job = Parse(args).job]
    BY <1>3 DEF Begin
  <2>3. report'[w] = [report[w] EXCEPT !.job = Parse(args).job]
    BY <2>2 DEF WrapperType
  <2>4. report'[w].code = report[w].code /\ report'[w].output = report[w].output
    BY <2>1, <2>3 DEF Report
  <2>5. ToldAsAsked(report'[w], wrapper'[w].quiet, wrote'[w])
    BY <2>1, <2>4 DEF ToldAsAsked
  <2>6. \A v \in Wrappers : v # w =>
          report'[v] = report[v] /\ wrapper'[v] = wrapper[v] /\ wrote'[v] = wrote[v]
    BY <1>3, <2>2 DEF Begin, WrapperType
  <2> QED  BY <2>1, <2>4, <2>5, <2>6 DEF ReportAsAsked
<1>4. ASSUME NEW w \in Wrappers, Start(w) \/ Forward(w)
      PROVE  ReportAsAsked'
  BY <1>1, <1>4 DEF Start, Forward, WrapperType, Process
<1>5. ASSUME NEW w \in Wrappers, RunConcluded(w)
      PROVE  ReportAsAsked'
  <2>1. /\ \A v \in Wrappers : v # w =>
             wrapper'[v] = wrapper[v] /\ report'[v] = report[v] /\ wrote'[v] = wrote[v]
        /\ wrapper'[w].pc = "write" /\ wrapper'[w].quiet = wrapper[w].quiet
        /\ ToldAsAsked(report'[w], wrapper[w].quiet, wrote'[w])
    BY <1>5, ConcludedPlace
  <2> QED  BY <2>1 DEF ReportAsAsked
<1>6. ASSUME NEW w \in Wrappers, \/ \E c \in {126, 127} : StartFails(w, c)
                                 \/ \E c \in Codes, o \in Outputs : Ends(w, c, o)
      PROVE  ReportAsAsked'
  BY <1>5, <1>6, StartFailsEffect, EndsEffect
<1>7. ASSUME NEW w \in Wrappers, WriteTmp(w) \/ Rename(w)
      PROVE  ReportAsAsked'
  <2>1. UNCHANGED <<report, wrote>>
    BY <1>7 DEF WriteTmp, Rename
  <2>2. CASE Rename(w)
    <3>1. PICK b \in BOOLEAN : wrapper' = [wrapper EXCEPT ![w].pc = "exit", ![w].said = b]
      BY <2>2, RenameEffect
    <3> QED  BY <1>1, <2>1, <3>1 DEF WrapperType, Process
  <2>3. CASE WriteTmp(w)
    BY <1>1, <2>1, <2>3 DEF WriteTmp, WrapperType, Process
  <2> QED  BY <1>7, <2>2, <2>3
<1>8. ASSUME NEW w \in Wrappers, Stop(w)
      PROVE  ReportAsAsked'
  BY <1>1, <1>8 DEF Stop, WrapperType, Process
<1>9. CASE Agent \/ \E id \in Litter, form \in Forms : Drop(id, form)
  BY <1>1, <1>9 DEF Agent, TakeList, Look, Trim, Read, TakeDone, Accepted, Failed, Drop, job
<1>10. CASE Tick \/ UNCHANGED vars
  BY <1>1, <1>10 DEF Tick, vars, job
<1> QED  BY <1>2, <1>3, <1>4, <1>6, <1>7, <1>8, <1>9, <1>10 DEF Next, Wrapped

-----------------------------------------------------------------------------
(* The folder: whose file is whose, and where a report went.               *)

\* Where no file appears and the lists hold only what they held or reports
\* that are there, files stay their owners'.
LEMMA FilesOwnFewer ==
  ASSUME FilesOwn, UNCHANGED wrapper, folder' \subseteq folder,
         found' \cup out' \subseteq found \cup out \cup {f \in folder : f.form = "json"}
  PROVE  FilesOwn'
BY DEF FilesOwn

\* A wrapper that has no file yet, or is stopped over its partial one, may
\* move on.
LEMMA FilesOwnMoves ==
  ASSUME FilesOwn, UNCHANGED <<folder, found, out>>,
         \A v \in Wrappers :
            \/ wrapper'[v].pc = wrapper[v].pc
            \/ wrapper[v].pc \notin {"rename", "killed", "exit"}
            \/ wrapper[v].pc = "rename" /\ wrapper'[v].pc = "killed"
  PROVE  FilesOwn'
BY DEF FilesOwn

LEMMA FilesOwnStep ==
  ASSUME WrapperType, FolderType, ReportAsAsked, FilesOwn, [Next]_vars
  PROVE  FilesOwn'
<1>1. ASSUME NEW w \in Wrappers, NEW args, Refuse(w, args) \/ Begin(w, args)
      PROVE  FilesOwn'
  BY <1>1, FilesOwnMoves DEF Refuse, Begin, WrapperType, Process, agent
<1>2. ASSUME NEW w \in Wrappers, Start(w) \/ Forward(w)
      PROVE  FilesOwn'
  BY <1>2, FilesOwnMoves DEF Start, Forward, WrapperType, Process, agent
<1>3. ASSUME NEW w \in Wrappers, NEW c \in {126, 127}, StartFails(w, c)
      PROVE  FilesOwn'
  <2>1. \A v \in Wrappers : v # w => wrapper'[v] = wrapper[v]
    BY <1>3, StartFailsEffect, ConcludedPlace
  <2> QED  BY <1>3, <2>1, FilesOwnMoves DEF StartFails, agent
<1>4. ASSUME NEW w \in Wrappers, NEW c \in Codes, NEW o \in Outputs, Ends(w, c, o)
      PROVE  FilesOwn'
  <2>1. \A v \in Wrappers : v # w => wrapper'[v] = wrapper[v]
    BY <1>4, EndsEffect, ConcludedPlace
  <2> QED  BY <1>4, <2>1, FilesOwnMoves DEF Ends, agent
<1>5. ASSUME NEW w \in Wrappers, WriteTmp(w)
      PROVE  FilesOwn'
  <2>1. CASE folder' = folder
    BY <1>5, <2>1, FilesOwnMoves DEF WriteTmp, WrapperType, Process, agent
  <2>2. CASE folder' # folder
    <3> DEFINE new == [id |-> w, form |-> "tmp", mod |-> now]
    <3>1. /\ wrapper[w].pc = "write" /\ wrapper' = [wrapper EXCEPT ![w].pc = "rename"]
          /\ folder' = folder \cup {new} /\ UNCHANGED <<found, out>>
      BY <1>5, <2>2 DEF WriteTmp, agent
    <3>2. /\ wrapper'[w].pc = "rename"
          /\ \A v \in Wrappers : v # w => wrapper'[v].pc = wrapper[v].pc
      BY <3>1 DEF WrapperType, Process
    <3>3. \A f \in folder \cup found \cup out : f.id # w
      BY <3>1 DEF FilesOwn
    <3>4. new.id = w /\ new.form = "tmp"
      OBVIOUS
    <3> HIDE DEF new
    <3> QED  BY <3>1, <3>2, <3>3, <3>4 DEF FilesOwn
  <2> QED  BY <2>1, <2>2
<1>6. ASSUME NEW w \in Wrappers, Rename(w)
      PROVE  FilesOwn'
  <2>0. PICK new \in SUBSET {[f EXCEPT !.form = "json"] : f \in At(w, "tmp")} :
          /\ folder' = (folder \ At(w, "tmp")) \cup new
          /\ wrapper' = [wrapper EXCEPT ![w].pc = "exit", ![w].said = (new = {})]
    BY <1>6, RenameEffect
  <2>1. wrapper[w].pc = "rename" /\ UNCHANGED <<found, out>>
    BY <1>6 DEF Rename, agent
  <2>2. /\ wrapper'[w].pc = "exit"
        /\ \A v \in Wrappers : v # w => wrapper'[v].pc = wrapper[v].pc
    BY <2>0 DEF WrapperType, Process
  <2>3. \A f \in found \cup out : f.id # w
    BY <2>1 DEF FilesOwn
  <2>4. \A f \in folder : f.id = w => f \in At(w, "tmp")
    BY <2>1 DEF FilesOwn, At
  <2>5. \A f \in File : LET g == [f EXCEPT !.form = "json"] IN g.id = f.id /\ g.form = "json"
    BY DEF File
  <2>6. /\ \A f \in new : f.id = w /\ f.form = "json"
        /\ \A f, g \in new : f = g
    <3>1. \A f \in At(w, "tmp") : f \in File /\ f.id = w
      BY DEF At, FolderType
    <3>2. \A f, g \in At(w, "tmp") : f = g
      BY DEF At, FilesOwn
    <3> QED  BY <2>0, <2>5, <3>1, <3>2
  <2>7. /\ \A f \in folder' : f.id = w => f \in new
        /\ \A f \in folder' : f.id # w => f \in folder
    BY <2>0, <2>4, <2>6
  <2>8. \A f \in folder' : f.id \in Wrappers =>
          /\ f.form = "tmp" => wrapper'[f.id].pc \in {"rename", "killed"}
          /\ f.form # "tmp" => wrapper'[f.id].pc = "exit"
    BY <2>2, <2>6, <2>7 DEF FilesOwn
  <2>9. \A f, g \in folder' : f.id = g.id /\ f.id \in Wrappers => f = g
    BY <2>6, <2>7 DEF FilesOwn
  <2>10. \A f \in found' \cup out' : f.id \in Wrappers =>
           /\ wrapper'[f.id].pc = "exit"
           /\ \A g \in folder' : g.id = f.id => g = f
    BY <2>1, <2>2, <2>3, <2>7 DEF FilesOwn
  <2> QED  BY <2>8, <2>9, <2>10 DEF FilesOwn
<1>7. ASSUME NEW w \in Wrappers, Stop(w)
      PROVE  FilesOwn'
  BY <1>7, FilesOwnMoves DEF Stop, Catches, WrapperType, Process, agent
<1>8. ASSUME NEW id \in Litter, NEW form \in Forms, Drop(id, form)
      PROVE  FilesOwn'
  <2> DEFINE new == [id |-> id, form |-> form, mod |-> now]
  <2>1. new.id \notin Wrappers
    BY JobAssumptions
  <2>2. folder' = folder \cup {new} /\ UNCHANGED <<found, out, wrapper>>
    BY <1>8 DEF Drop, agent, job
  <2> HIDE DEF new
  <2> QED  BY <2>1, <2>2 DEF FilesOwn
<1>9. CASE TakeList \/ TakeDone \/ Failed
  BY <1>9, FilesOwnFewer DEF TakeList, TakeDone, Failed, job
<1>10. CASE Look
  <2>1. PICK S \in SUBSET folder, why \in {"early", "other", "aged"} : Unlink(S, why)
    BY <1>10, LookEffect
  <2>2. folder' \subseteq folder
    BY <2>1, UnlinkEffect
  <2>3. found' \subseteq found \cup {f \in folder : f.form = "json"} /\ out' = out
    BY <1>10, LookEffect
  <2>4. UNCHANGED wrapper
    BY <1>10 DEF Look, job
  <2> QED  BY <2>2, <2>3, <2>4, FilesOwnFewer
<1>11. CASE Trim
  <2>1. PICK keep \in SUBSET found : Unlink(found \ keep, "crowded") /\ found' = keep
    BY <1>11 DEF Trim
  <2>2. folder' \subseteq folder
    BY <2>1, UnlinkEffect
  <2> QED  BY <1>11, <2>1, <2>2, FilesOwnFewer DEF Trim, job
<1>12. ASSUME NEW f \in found, Read(f)
       PROVE  FilesOwn'
  <2>1. \/ out' = out \cup {f} /\ UNCHANGED folder
        \/ Unlink({f}, "unread") /\ UNCHANGED out
    BY <1>12 DEF Read
  <2>2. folder' \subseteq folder
    BY <2>1, UnlinkEffect
  <2> QED  BY <1>12, <2>1, <2>2, FilesOwnFewer DEF Read, job
<1>13. CASE Accepted
  <2>1. folder' \subseteq folder
    BY <1>13, UnlinkEffect DEF Accepted, RemoveSent
  <2> QED  BY <1>13, <2>1, FilesOwnFewer DEF Accepted, job
<1>14. CASE Tick \/ UNCHANGED vars
  BY <1>14, FilesOwnFewer DEF Tick, vars, job, agent
<1> QED  BY <1>1, <1>2, <1>3, <1>4, <1>5, <1>6, <1>7, <1>8, <1>9, <1>10, <1>11,
            <1>12, <1>13, <1>14 DEF Next, Wrapped, Agent

\* Files that go as sent, aged or crowded out, or that are no wrapper's
\* reports, lose nothing unsaid.
LEMMA LossBy ==
  ASSUME NoSilentLoss, UNCHANGED wrapper, NEW S, NEW why, Unlink(S, why),
         \/ why \in {"sent", "aged", "crowded"}
         \/ \A g \in S, f \in folder :
              f.id = g.id /\ f.form = g.form /\ f.form = "json" => f.id \notin Wrappers
  PROVE  NoSilentLoss'
<1>1. PICK gone \in SUBSET folder :
        /\ \A f \in gone : \E g \in S : f.id = g.id /\ f.form = g.form
        /\ folder' = folder \ gone
        /\ fate' = [w \in Wrappers |->
             IF \E f \in gone : f.id = w /\ f.form = "json" THEN why ELSE fate[w]]
  BY UnlinkEffect
<1>2. ASSUME NEW w \in Wrappers, wrapper[w].pc = "exit", ~wrapper[w].said
      PROVE  At(w, "json")' # {} \/ fate'[w] \in {"sent", "aged", "crowded"}
  <2>1. CASE \E f \in gone : f.id = w /\ f.form = "json"
    BY <1>1, <2>1
  <2>2. CASE ~ \E f \in gone : f.id = w /\ f.form = "json"
    <3>1. fate'[w] = fate[w]
      BY <1>1, <2>2
    <3>2. \A f \in At(w, "json") : f \in At(w, "json")'
      BY <1>1, <2>2 DEF At
    <3>3. At(w, "json") # {} \/ fate[w] \in {"sent", "aged", "crowded"}
      BY <1>2 DEF NoSilentLoss
    <3> QED  BY <3>1, <3>2, <3>3
  <2> QED  BY <2>1, <2>2
<1> QED  BY <1>2 DEF NoSilentLoss

\* Where the folder and the fates stay, a wrapper may only exit saying so.
LEMMA LossMoves ==
  ASSUME NoSilentLoss, UNCHANGED <<folder, fate>>,
         \A v \in Wrappers : \/ wrapper'[v] = wrapper[v]
                             \/ wrapper'[v].pc # "exit"
                             \/ wrapper'[v].said
  PROVE  NoSilentLoss'
BY DEF NoSilentLoss, At

\* No step loses a report unsaid, as long as a report that is there can be
\* read: Take deletes what it cannot read.
LEMMA NoSilentLossStep ==
  ASSUME "read" \notin Faults,
         WrapperType, FolderType, ReportAsAsked, FilesOwn, NoSilentLoss, [Next]_vars
  PROVE  NoSilentLoss'
<1>1. ASSUME NEW w \in Wrappers, NEW args, Refuse(w, args) \/ Begin(w, args)
      PROVE  NoSilentLoss'
  BY <1>1, LossMoves DEF Refuse, Begin, WrapperType, Process
<1>2. ASSUME NEW w \in Wrappers, Start(w) \/ Forward(w)
      PROVE  NoSilentLoss'
  BY <1>2, LossMoves DEF Start, Forward, WrapperType, Process
<1>3. ASSUME NEW w \in Wrappers, NEW c \in {126, 127}, StartFails(w, c)
      PROVE  NoSilentLoss'
  <2>1. /\ \A v \in Wrappers : v # w => wrapper'[v] = wrapper[v]
        /\ wrapper'[w].pc = "write"
    BY <1>3, StartFailsEffect, ConcludedPlace
  <2> QED  BY <1>3, <2>1, LossMoves DEF StartFails
<1>4. ASSUME NEW w \in Wrappers, NEW c \in Codes, NEW o \in Outputs, Ends(w, c, o)
      PROVE  NoSilentLoss'
  <2>1. /\ \A v \in Wrappers : v # w => wrapper'[v] = wrapper[v]
        /\ wrapper'[w].pc = "write"
    BY <1>4, EndsEffect, ConcludedPlace
  <2> QED  BY <1>4, <2>1, LossMoves DEF Ends
<1>5. ASSUME NEW w \in Wrappers, WriteTmp(w)
      PROVE  NoSilentLoss'
  <2>1. /\ wrapper'[w].pc = "rename" \/ wrapper'[w].said
        /\ \A v \in Wrappers : v # w => wrapper'[v] = wrapper[v]
    BY <1>5 DEF WriteTmp, WrapperType, Process
  <2>2. folder \subseteq folder' /\ UNCHANGED fate
    BY <1>5 DEF WriteTmp
  <2> QED  BY <2>1, <2>2 DEF NoSilentLoss, At
<1>6. ASSUME NEW w \in Wrappers, Rename(w)
      PROVE  NoSilentLoss'
  <2>0. PICK new \in SUBSET {[f EXCEPT !.form = "json"] : f \in At(w, "tmp")} :
          /\ folder' = (folder \ At(w, "tmp")) \cup new
          /\ wrapper' = [wrapper EXCEPT ![w].pc = "exit", ![w].said = (new = {})]
    BY <1>6, RenameEffect
  <2>1. folder' = (folder \ At(w, "tmp")) \cup new /\ UNCHANGED fate
    BY <1>6, <2>0 DEF Rename
  <2>2. /\ wrapper'[w].said = (new = {})
        /\ \A v \in Wrappers : v # w => wrapper'[v] = wrapper[v]
    BY <2>0 DEF WrapperType, Process
  <2>3. \A f \in File : LET g == [f EXCEPT !.form = "json"] IN g.id = f.id /\ g.form = "json"
    BY DEF File
  <2>4. \A f \in new : f \in At(w, "json")'
    <3>1. \A f \in At(w, "tmp") : f \in File /\ f.id = w
      BY DEF At, FolderType
    <3>2. \A f \in new : f.id = w /\ f.form = "json"
      BY <2>0, <2>3, <3>1
    <3> QED  BY <2>1, <3>2 DEF At
  <2>5. wrapper'[w].said \/ At(w, "json")' # {}
    BY <2>2, <2>4
  <2>6. \A v \in Wrappers : At(v, "json") \subseteq At(v, "json")'
    BY <2>1 DEF At
  <2> QED  BY <2>1, <2>2, <2>5, <2>6 DEF NoSilentLoss
<1>7. ASSUME NEW w \in Wrappers, Stop(w)
      PROVE  NoSilentLoss'
  BY <1>7, LossMoves DEF Stop, WrapperType, Process
<1>8. ASSUME NEW id \in Litter, NEW form \in Forms, Drop(id, form)
      PROVE  NoSilentLoss'
  <2>1. folder \subseteq folder' /\ UNCHANGED <<fate, wrapper>>
    BY <1>8 DEF Drop, job
  <2> QED  BY <2>1 DEF NoSilentLoss, At
<1>9. CASE TakeList \/ TakeDone \/ Failed
  BY <1>9, LossMoves DEF TakeList, TakeDone, Failed, job
<1>10. CASE Look
  <2>1. PICK S \in SUBSET folder, why \in {"early", "other", "aged"} :
          /\ Unlink(S, why)
          /\ why # "aged" => \A f \in S : f.form # "json"
    BY <1>10, LookEffect
  <2>2. UNCHANGED wrapper
    BY <1>10 DEF Look, job
  <2>3. CASE why = "aged"
    BY <2>1, <2>2, <2>3, LossBy
  <2>4. CASE why # "aged"
    <3>1. \A f \in S : f.form # "json"
      BY <2>1, <2>4
    <3> QED  BY <2>1, <2>2, <3>1, LossBy
  <2> QED  BY <2>3, <2>4
<1>11. CASE Trim
  <2>1. PICK keep \in SUBSET found : Unlink(found \ keep, "crowded")
    BY <1>11 DEF Trim
  <2>2. UNCHANGED wrapper
    BY <1>11 DEF Trim, job
  <2> QED  BY <2>1, <2>2, LossBy
<1>12. ASSUME NEW f \in found, Read(f)
       PROVE  NoSilentLoss'
  <2>1. UNCHANGED wrapper
    BY <1>12 DEF Read, job
  <2>2. Succeeds("read") = {TRUE}
    BY DEF Succeeds
  <2>3. \/ UNCHANGED <<folder, fate>>
        \/ ~(f.id \in Wrappers /\ f \in folder) /\ Unlink({f}, "unread")
    BY <1>12, <2>2 DEF Read
  <2>4. CASE UNCHANGED <<folder, fate>>
    BY <2>1, <2>4, LossMoves
  <2>5. CASE ~(f.id \in Wrappers /\ f \in folder) /\ Unlink({f}, "unread")
    <3>1. \A g \in {f}, h \in folder :
            h.id = g.id /\ h.form = g.form /\ h.form = "json" => h.id \notin Wrappers
      BY <2>5 DEF FilesOwn
    <3> QED  BY <2>1, <2>5, <3>1, LossBy
  <2> QED  BY <2>3, <2>4, <2>5
<1>13. CASE Accepted
  <2>1. Unlink(out, "sent") /\ UNCHANGED wrapper
    BY <1>13 DEF Accepted, RemoveSent, job
  <2> QED  BY <2>1, LossBy
<1>14. CASE Tick \/ UNCHANGED vars
  BY <1>14, LossMoves DEF Tick, vars, job
<1> QED  BY <1>1, <1>2, <1>3, <1>4, <1>5, <1>6, <1>7, <1>8, <1>9, <1>10, <1>11,
            <1>12, <1>13, <1>14 DEF Next, Wrapped, Agent

-----------------------------------------------------------------------------
(* The theorems.                                                           *)
JobInv == WrapperType /\ FolderType /\ Watched /\ FilesOwn /\ ReportAsAsked

\* The invariant: wrappers, files and lists have their types, a command runs
\* only under a wrapper that waits, a file has one owner, a report says what
\* was asked.
THEOREM JobsInvariant == Spec => []JobInv
<1>1. Init => JobInv
  BY InitHolds DEF JobInv
<1>2. JobInv /\ [Next]_vars => JobInv'
  BY WrapperTypeStep, FolderTypeStep, WatchedStep, FilesOwnStep, ReportAsAskedStep
  DEF JobInv
<1> QED  BY <1>1, <1>2, PTL DEF Spec

\* However Take, the push and the removals fall between the calls of a
\* wrapper, and however long it was paused, a report is in the folder, sent,
\* given up for its age or for newer ones, or its wrapper has said that it
\* could not report.  It takes that a report in the folder can be read.
THEOREM NothingLostUnsaid ==
  ASSUME "read" \notin Faults
  PROVE  Spec => []NoSilentLoss
<1>1. Init => NoSilentLoss
  BY InitHolds
<1>2. JobInv /\ NoSilentLoss /\ [Next]_vars => NoSilentLoss'
  BY NoSilentLossStep DEF JobInv
<1> QED  BY <1>1, <1>2, JobsInvariant, PTL DEF Spec

\* No stop, whenever it comes, ends a wrapper and leaves its command running.
THEOREM CommandNeverAlone == Spec => []NoOrphan
<1>1. JobInv => NoOrphan
  BY DEF JobInv, Watched, NoOrphan
<1> QED  BY <1>1, JobsInvariant, PTL

\* Where a report has room for two lines (the code's has 20), what a push
\* carries of a job's output is what was asked for.
THEOREM OutputToldAsAsked ==
  ASSUME MaxLines >= 2
  PROVE  Spec => []OutputAsAsked
<1>1. ASSUME JobInv, NEW f \in out, NEW asks \in BOOLEAN, NEW r \in Reports({f.id}, asks)
      PROVE  LET o == wrote[f.id]
                 due == asks /\ r.code # 0 /\ ~wrapper[f.id].quiet IN
             /\ ~due => r.output = <<>>
             /\ due /\ o.err # <<>> =>
                  r.output # <<>> /\ r.output[Len(r.output)] \in {o.err[Len(o.err)], "masked"}
             /\ Len(r.output) <= MaxLines
             /\ Range(r.output) \cap {"secret", "begin", "key"} = {}
             /\ KeysNear(o.out) /\ KeysNear(o.err) => "rest" \notin Range(r.output)
  <2> DEFINE w == f.id
             p == report[w]
  <2>1. w \in Wrappers
    BY <1>1 DEF JobInv, FolderType
  <2>2. p \in Report /\ ToldAsAsked(p, wrapper[w].quiet, wrote[w])
    BY <1>1, <2>1 DEF JobInv, WrapperType, ReportAsAsked
  <2>3. r = IF ~asks /\ p.output # <<>> THEN [p EXCEPT !.output = <<>>, !.withheld = TRUE] ELSE p
    BY DEF Reports
  <2> HIDE DEF w, p
  <2>4. \A t \in Seq(Shown) :
          /\ Range(t) \cap {"secret", "begin", "key"} = {}
          /\ (\A i \in 1..Len(t) : t[i] # "rest") => "rest" \notin Range(t)
    <3>1. \A t \in Seq(Shown) : DOMAIN t = 1..Len(t) /\ \A i \in DOMAIN t : t[i] \in Shown
      BY LenProperties, ElementOfSeq
    <3> QED  BY <3>1 DEF Range, Shown
  <2>5. <<>> \in Seq(Shown) /\ Len(<<>>) = 0 /\ 0 <= MaxLines
    BY EmptySeq, JobAssumptions
  <2>6. CASE ~asks
    <3>1. r.output = <<>>
      BY <2>2, <2>3, <2>6 DEF Report
    <3>2. Len(r.output) <= MaxLines /\ \A i \in 1..Len(r.output) : r.output[i] # "rest"
      BY <2>5, <3>1
    <3>3. Range(r.output) \cap {"secret", "begin", "key"} = {} /\ "rest" \notin Range(r.output)
      BY <2>4, <2>5, <3>1, <3>2
    <3> QED  BY <2>6, <3>1, <3>2, <3>3
  <2>7. CASE asks
    <3>1. r = p /\ p.output \in Seq(Shown)
      BY <2>2, <2>3, <2>7 DEF Report
    <3> QED  BY <2>2, <2>4, <2>7, <3>1 DEF ToldAsAsked, w
  <2> QED  BY <2>6, <2>7
<1>2. JobInv => OutputAsAsked
  BY <1>1 DEF OutputAsAsked
<1> QED  BY <1>2, JobsInvariant, PTL
=============================================================================
