--------------------------- MODULE SelectionProofs ---------------------------
(***************************************************************************)
(* What Without returns, for sequences of any length; and, as a fact about *)
(* sets, the induction that it takes.                                      *)
(*                                                                         *)
(* A recursive function is what its equation says only if some function    *)
(* satisfies the equation: ScanExists builds it, one position at a time.   *)
(***************************************************************************)
EXTENDS Selection, WellFoundedInduction, TLAPS

(* Induction over the naturals as a fact about a set.                      *)
LEMMA NatSetInduction ==
  ASSUME NEW S, 0 \in S, \A n \in Nat : n \in S => n + 1 \in S
  PROVE  Nat \subseteq S
<1> DEFINE R == OpToRel(<, Nat)
           T == Nat \ S
<1>1. \A m, n \in Nat : m < n => <<m, n>> \in R
  BY DEF OpToRel
<1>2. IsWellFoundedOn(R, Nat)
  BY NatLessThanWellFounded
<1> HIDE DEF R
<1>3. SUFFICES ASSUME T # {} PROVE FALSE
  OBVIOUS
<1>4. PICK x \in T : \A y \in T : <<y, x>> \notin R
  BY <1>2, <1>3, WFMin
<1>5. x \in Nat \ {0} /\ x - 1 \in Nat
  OBVIOUS
<1>6. x - 1 \in S
  <2>1. <<x - 1, x>> \in R
    BY <1>1, <1>5
  <2>2. x - 1 \notin T
    BY <1>4, <2>1
  <2> QED BY <1>5, <2>2
<1> QED BY <1>5, <1>6

(* f says what is kept of each of the first m elements.                   *)
IsScan(f, s, out, m) ==
  f = [n \in 0..m |-> IF n = 0 THEN <<>>
                      ELSE IF s[n] \in out THEN f[n - 1]
                      ELSE Append(f[n - 1], s[n])]

(* Such a function exists: one position more extends it.                   *)
LEMMA ScanExists ==
  ASSUME NEW s, NEW out
  PROVE  \A m \in Nat : \E f : IsScan(f, s, out, m)
<1> DEFINE S == {m \in Nat : \E f : IsScan(f, s, out, m)}
<1>1. 0 \in S
  <2> DEFINE f == [n \in 0..0 |-> <<>>]
  <2>1. IsScan(f, s, out, 0)
    BY DEF IsScan
  <2> QED BY <2>1
<1>2. ASSUME NEW m \in Nat, m \in S PROVE m + 1 \in S
  <2>1. PICK f : IsScan(f, s, out, m)
    BY <1>2
  <2> DEFINE last == IF s[m + 1] \in out THEN f[m] ELSE Append(f[m], s[m + 1])
             g == [n \in 0..m + 1 |-> IF n = m + 1 THEN last ELSE f[n]]
  <2>2. \A n \in 0..m : f[n] = IF n = 0 THEN <<>> ELSE IF s[n] \in out THEN f[n - 1] ELSE Append(f[n - 1], s[n])
    BY <2>1 DEF IsScan
  <2>3. ASSUME NEW n \in 0..m + 1
        PROVE  g[n] = IF n = 0 THEN <<>> ELSE IF s[n] \in out THEN g[n - 1] ELSE Append(g[n - 1], s[n])
    <3>1. CASE n = m + 1
      BY <3>1
    <3>2. CASE n # m + 1
      BY <3>2, <2>2
    <3> QED BY <3>1, <3>2
  <2>4. IsScan(g, s, out, m + 1)
    <3>1. g = [n \in 0..m + 1 |-> g[n]]
      OBVIOUS
    <3> HIDE DEF g
    <3> QED BY <2>3, <3>1 DEF IsScan
  <2> QED BY <2>4
<1>3. Nat \subseteq S
  <2> HIDE DEF S
  <2> QED BY <1>1, <1>2, NatSetInduction
<1> QED BY <1>3

(* It is the function that Without is defined by.                          *)
LEMMA WithoutIsScan ==
  ASSUME NEW S, NEW s \in Seq(S), NEW out
  PROVE  \E f : IsScan(f, s, out, Len(s)) /\ Without(s, out) = f[Len(s)]
<1>1. \E f : IsScan(f, s, out, Len(s))
  BY ScanExists, Len(s) \in Nat
<1> DEFINE f == CHOOSE f : IsScan(f, s, out, Len(s))
<1>2. IsScan(f, s, out, Len(s))
  BY <1>1
<1>3. Without(s, out) = f[Len(s)]
  BY DEF Without, IsScan
<1> QED BY <1>2, <1>3

(* One element more.                                                       *)
LEMMA ScanStep ==
  ASSUME NEW f, NEW s, NEW out, NEW m \in Nat, IsScan(f, s, out, m)
  PROVE  /\ f[0] = <<>>
         /\ \A n \in Nat : n < m =>
              f[n + 1] = IF s[n + 1] \in out THEN f[n] ELSE Append(f[n], s[n + 1])
<1>1. \A n \in 0..m : f[n] = IF n = 0 THEN <<>>
                             ELSE IF s[n] \in out THEN f[n - 1]
                             ELSE Append(f[n - 1], s[n])
  BY DEF IsScan
<1>2. f[0] = <<>>
  <2>1. 0 \in 0..m
    OBVIOUS
  <2> QED BY <1>1, <2>1, Zenon
<1>3. ASSUME NEW n \in Nat, n < m
      PROVE  f[n + 1] = IF s[n + 1] \in out THEN f[n] ELSE Append(f[n], s[n + 1])
  <2>1. n + 1 \in 0..m /\ n + 1 # 0 /\ (n + 1) - 1 = n
    BY <1>3
  <2> QED BY <1>1, <2>1
<1> QED BY <1>2, <1>3

(* What is kept of the first n elements.                                   *)
ScanKeeps(t, s, out, S, n) ==
  /\ t \in Seq(S)
  /\ {t[k] : k \in DOMAIN t} = {s[k] : k \in 1..n} \ out

(* An element is appended or skipped.                                      *)
LEMMA ScanKeepsStep ==
  ASSUME NEW S, NEW s \in Seq(S), NEW out, NEW n \in Nat, n < Len(s),
         NEW t, ScanKeeps(t, s, out, S, n)
  PROVE  ScanKeeps(IF s[n + 1] \in out THEN t ELSE Append(t, s[n + 1]), s, out, S, n + 1)
<1>1. t \in Seq(S) /\ {t[k] : k \in DOMAIN t} = {s[k] : k \in 1..n} \ out
  BY DEF ScanKeeps
<1>2. n + 1 \in 1..Len(s) /\ s[n + 1] \in S
  OBVIOUS
<1>3. {s[k] : k \in 1..n + 1} = {s[k] : k \in 1..n} \cup {s[n + 1]}
  OBVIOUS
<1>4. CASE s[n + 1] \in out
  BY <1>1, <1>3, <1>4 DEF ScanKeeps
<1>5. CASE s[n + 1] \notin out
  <2> DEFINE u == Append(t, s[n + 1])
  <2>1. u \in Seq(S) /\ Len(u) = Len(t) + 1
    BY <1>1, <1>2
  <2>2. {u[k] : k \in DOMAIN u} = {t[k] : k \in DOMAIN t} \cup {s[n + 1]}
    <3>1. /\ Len(t) \in Nat /\ DOMAIN t = 1..Len(t) /\ DOMAIN u = 1..Len(t) + 1
          /\ \A k \in 1..Len(t) : u[k] = t[k]
          /\ u[Len(t) + 1] = s[n + 1]
      BY <1>1, <1>2, <2>1
    <3> HIDE DEF u
    <3>2. 1..Len(t) + 1 = (1..Len(t)) \cup {Len(t) + 1}
      BY <3>1
    <3> QED BY <3>1, <3>2
  <2>3. {u[k] : k \in DOMAIN u} = {s[k] : k \in 1..n + 1} \ out
    BY <1>1, <1>3, <1>5, <2>2
  <2> QED BY <1>5, <2>1, <2>3 DEF ScanKeeps
<1> QED BY <1>4, <1>5

(* What is kept of the whole sequence.                                     *)
LEMMA WithoutKeeps ==
  ASSUME NEW S, NEW s \in Seq(S), NEW out, NEW t, t = Without(s, out)
  PROVE  /\ t \in Seq(S)
         /\ \A k \in DOMAIN t : t[k] \notin out /\ \E n \in DOMAIN s : t[k] = s[n]
         /\ \A n \in DOMAIN s : s[n] \notin out => \E k \in DOMAIN t : t[k] = s[n]
<1>1. PICK f : IsScan(f, s, out, Len(s)) /\ Without(s, out) = f[Len(s)]
  BY WithoutIsScan
<1>2. Len(s) \in Nat /\ DOMAIN s = 1..Len(s)
  OBVIOUS
<1>3. /\ f[0] = <<>>
      /\ \A n \in Nat : n < Len(s) =>
           f[n + 1] = IF s[n + 1] \in out THEN f[n] ELSE Append(f[n], s[n + 1])
  BY <1>1, <1>2, ScanStep
<1> DEFINE N == {n \in Nat : n <= Len(s) => ScanKeeps(f[n], s, out, S, n)}
<1>4. 0 \in N
  <2>1. <<>> \in Seq(S) /\ {<<>>[k] : k \in DOMAIN <<>>} = {} /\ {s[k] : k \in 1..0} = {}
    OBVIOUS
  <2> QED BY <1>3, <2>1 DEF ScanKeeps
<1>5. ASSUME NEW n \in Nat, n \in N PROVE n + 1 \in N
  <2> SUFFICES ASSUME n + 1 <= Len(s) PROVE ScanKeeps(f[n + 1], s, out, S, n + 1)
    OBVIOUS
  <2>1. n < Len(s) /\ ScanKeeps(f[n], s, out, S, n)
    BY <1>2, <1>5
  <2> QED BY <1>3, <2>1, ScanKeepsStep
<1>6. Nat \subseteq N
  <2> HIDE DEF N
  <2> QED BY <1>4, <1>5, NatSetInduction
<1>7. ScanKeeps(f[Len(s)], s, out, S, Len(s))
  BY <1>2, <1>6
<1>8. t = f[Len(s)]
  BY <1>1
<1>9. t \in Seq(S) /\ {t[k] : k \in DOMAIN t} = {s[k] : k \in DOMAIN s} \ out
  BY <1>2, <1>7, <1>8 DEF ScanKeeps
<1> QED BY <1>9

(* Sequences that keep nothing.                                            *)
LEMMA WithoutEmpty ==
  ASSUME NEW S, NEW s \in Seq(S), NEW out
  PROVE  Without(s, out) = <<>> <=> \A k \in DOMAIN s : s[k] \in out
<1> DEFINE t == Without(s, out)
<1>1. /\ t \in Seq(S)
      /\ \A k \in DOMAIN t : t[k] \notin out /\ \E n \in DOMAIN s : t[k] = s[n]
      /\ \A n \in DOMAIN s : s[n] \notin out => \E k \in DOMAIN t : t[k] = s[n]
  <2>1. t = Without(s, out)
    OBVIOUS
  <2> HIDE DEF t
  <2> QED BY <2>1, WithoutKeeps
<1> HIDE DEF t
<1>2. t = <<>> <=> \A k \in DOMAIN t : FALSE
  <2>1. CASE t = <<>>
    BY <2>1
  <2>2. CASE t # <<>>
    <3>1. 1 \in DOMAIN t
      BY <1>1, <2>2
    <3> QED BY <2>2, <3>1
  <2> QED BY <2>1, <2>2
<1>3. t = <<>> <=> \A k \in DOMAIN s : s[k] \in out
  BY <1>1, <1>2
<1> QED BY <1>3 DEF t

(* A finite set of numbers has a greatest one.                             *)
LEMMA GreatestExists ==
  ASSUME NEW m \in Nat, NEW T, T \subseteq 1..m, T # {}
  PROVE  \E x \in T : \A y \in T : y <= x
<1> DEFINE N == {n \in Nat : (\E y \in T : y > m - n) => \E x \in T : \A y \in T : y <= x}
<1>1. 0 \in N
  OBVIOUS
<1>2. ASSUME NEW n \in Nat, n \in N PROVE n + 1 \in N
  <2> SUFFICES ASSUME NEW y \in T, y > m - (n + 1), ~ \E z \in T : z > m - n
               PROVE  \E x \in T : \A z \in T : z <= x
    BY <1>2
  <2> QED OBVIOUS
<1>3. Nat \subseteq N
  <2> HIDE DEF N
  <2> QED BY <1>1, <1>2, NatSetInduction
<1>4. m \in N
  <2> HIDE DEF N
  <2> QED BY <1>3
<1>5. \E y \in T : y > m - m
  <2>1. PICK y \in T : TRUE
    OBVIOUS
  <2>2. y \in 1..m /\ m - m = 0
    OBVIOUS
  <2> QED BY <2>2
<1> QED BY <1>4, <1>5

=============================================================================
