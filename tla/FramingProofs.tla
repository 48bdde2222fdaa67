--------------------------- MODULE FramingProofs ---------------------------
(***************************************************************************)
(* Proofs about the packets of one direction of a connection, for messages *)
(* of every type with strings, chunks and directories of every length, for *)
(* every window and however the bytes are cut on their way.                *)
(*                                                                         *)
(* The first half is about PacketCodec alone: a parser gives back what its *)
(* builder was given.  The second is about Framing: an invariant says that *)
(* the bytes wherever they are, in a row, are the packets that were sent   *)
(* and have not been received.                                             *)
(***************************************************************************)
EXTENDS Framing, InductionLemmas

-----------------------------------------------------------------------------
(* Sequences. *)

\* What is left of a sequence behind its first n elements.
Rest(s, n) == SubSeq(s, n + 1, Len(s))

LEMMA RestHolds ==
  ASSUME NEW U, NEW s \in Seq(U), NEW n \in 0..Len(s)
  PROVE  /\ Rest(s, n) \in Seq(U) /\ Len(Rest(s, n)) = Len(s) - n
         /\ \A i \in 1..(Len(s) - n) : Rest(s, n)[i] = s[n + i]
         /\ \A m \in 0..(Len(s) - n) : Rest(Rest(s, n), m) = Rest(s, n + m)
         /\ Rest(s, 0) = s /\ Rest(s, Len(s)) = << >>
<1>1. Len(s) \in Nat /\ n \in Nat /\ n <= Len(s)
  OBVIOUS
<1>2. ASSUME NEW k \in 0..Len(s)
      PROVE  Rest(s, k) = [i \in 1..(Len(s) - k) |-> s[k + i]]
  BY <1>1 DEF Rest
<1>3. ASSUME NEW k \in 0..Len(s)
      PROVE  /\ Rest(s, k) \in Seq(U) /\ Len(Rest(s, k)) = Len(s) - k
             /\ \A i \in 1..(Len(s) - k) : Rest(s, k)[i] = s[k + i]
  <2>1. Len(s) - k \in Nat
    BY <1>1
  <2>2. \A i \in 1..(Len(s) - k) : s[k + i] \in U
    BY <1>1
  <2>3. PICK size \in Nat : size = Len(s) - k
    BY <2>1
  <2>4. PICK t : t = [i \in 1..size |-> s[k + i]]
    OBVIOUS
  <2>5. t \in Seq(U) /\ Len(t) = size /\ \A i \in 1..size : t[i] = s[k + i]
    BY <2>2, <2>3, <2>4
  <2> QED
    BY <1>2, <2>3, <2>4, <2>5
<1>4. ASSUME NEW m \in 0..(Len(s) - n) PROVE Rest(Rest(s, n), m) = Rest(s, n + m)
  <2>1. PICK t : t = Rest(s, n)
    OBVIOUS
  <2>2. t \in Seq(U) /\ Len(t) = Len(s) - n /\ \A i \in 1..(Len(s) - n) : t[i] = s[n + i]
    BY <1>3, <2>1
  <2>3. Rest(t, m) = [i \in 1..(Len(t) - m) |-> t[m + i]]
    BY <1>1, <2>2 DEF Rest
  <2>4. n + m \in 0..Len(s)
    BY <1>1
  <2>5. Rest(s, n + m) = [i \in 1..(Len(s) - (n + m)) |-> s[n + m + i]]
    BY <1>2, <2>4
  <2>6. Len(t) - m = Len(s) - (n + m)
    BY <1>1, <2>2
  <2>7. \A i \in 1..(Len(s) - (n + m)) : m + i \in 1..(Len(s) - n) /\ n + (m + i) = n + m + i
    BY <1>1
  <2>8. \A i \in 1..(Len(s) - (n + m)) : t[m + i] = s[n + m + i]
    BY <2>2, <2>7
  <2> QED
    BY <2>1, <2>3, <2>5, <2>6, <2>8
<1>5. Rest(s, 0) = s
  <2>1. Rest(s, 0) \in Seq(U) /\ Len(Rest(s, 0)) = Len(s) /\ \A i \in 1..Len(s) : Rest(s, 0)[i] = s[i]
    BY <1>1, <1>3
  <2> QED
    BY <2>1
<1>6. Rest(s, Len(s)) = << >>
  <2>1. Rest(s, Len(s)) \in Seq(U) /\ Len(Rest(s, Len(s))) = 0
    BY <1>1, <1>3
  <2> QED
    BY <2>1
<1> QED
  BY <1>3, <1>4, <1>5, <1>6

\* The places at which the parts of a sequence end.
Cut(cells, parts, at) ==
  /\ at \in [0..Len(parts) -> 0..Len(cells)] /\ at[0] = 0 /\ at[Len(parts)] = Len(cells)
  /\ \A i \in 1..Len(parts) :
       /\ at[i] = at[i - 1] + Len(parts[i])
       /\ \A j \in 1..Len(parts[i]) : cells[at[i - 1] + j] = parts[i][j]

LEMMA ConcatHolds ==
  ASSUME NEW U, NEW s \in Seq(U), NEW t \in Seq(U)
  PROVE  /\ s \o t \in Seq(U) /\ Len(s \o t) = Len(s) + Len(t)
         /\ \A i \in 1..Len(s) : (s \o t)[i] = s[i]
         /\ \A i \in 1..Len(t) : (s \o t)[Len(s) + i] = t[i]
OBVIOUS

\* A sequence with one more element.
LEMMA Grown ==
  ASSUME NEW U, NEW s \in Seq(U), NEW e \in U, NEW t \in Seq(U), Len(t) = Len(s) + 1,
         \A i \in 1..Len(s) : t[i] = s[i], t[Len(s) + 1] = e
  PROVE  Append(s, e) = t
OBVIOUS

\* Tuples of values of different types are sequences, too.
LEMMA TwoOf ==
  ASSUME NEW a, NEW b
  PROVE  Append(<< a >>, b) = << a, b >>
<1>1. PICK U : a \in U /\ b \in U
  <2>1. a \in {a, b} /\ b \in {a, b}
    OBVIOUS
  <2> QED
    BY <2>1
<1>2. << a >> \in Seq(U) /\ Len(<< a >>) = 1 /\ << a >>[1] = a
  BY <1>1
<1>3. << a, b >> \in Seq(U) /\ Len(<< a, b >>) = 2 /\ << a, b >>[1] = a /\ << a, b >>[2] = b
  BY <1>1
<1>4. PICK s \in Seq(U) : s = << a >> /\ Len(s) = 1 /\ s[1] = a
  BY <1>2, Zenon
<1>5. PICK t \in Seq(U) : t = << a, b >> /\ Len(t) = 2 /\ t[1] = a /\ t[2] = b
  BY <1>3, Zenon
<1>6. Len(t) = Len(s) + 1 /\ (\A i \in 1..Len(s) : t[i] = s[i]) /\ t[Len(s) + 1] = b
  BY <1>4, <1>5
<1>7. Append(s, b) = t
  BY <1>1, <1>6, Grown, Zenon
<1> QED
  BY <1>4, <1>5, <1>7, Zenon

LEMMA ThreeOf ==
  ASSUME NEW a, NEW b, NEW c
  PROVE  Append(<< a, b >>, c) = << a, b, c >>
<1>1. PICK U : a \in U /\ b \in U /\ c \in U
  <2>1. a \in {a, b, c} /\ b \in {a, b, c} /\ c \in {a, b, c}
    OBVIOUS
  <2> QED
    BY <2>1
<1>2. << a, b >> \in Seq(U) /\ Len(<< a, b >>) = 2 /\ << a, b >>[1] = a /\ << a, b >>[2] = b
  BY <1>1
<1>3. << a, b, c >> \in Seq(U) /\ Len(<< a, b, c >>) = 3 /\ << a, b, c >>[1] = a /\ << a, b, c >>[2] = b /\ << a, b, c >>[3] = c
  BY <1>1
<1>4. PICK s \in Seq(U) : s = << a, b >> /\ Len(s) = 2 /\ s[1] = a /\ s[2] = b
  BY <1>2, Zenon
<1>5. PICK t \in Seq(U) : t = << a, b, c >> /\ Len(t) = 3 /\ t[1] = a /\ t[2] = b /\ t[3] = c
  BY <1>3, Zenon
<1>6. Len(t) = Len(s) + 1 /\ (\A i \in 1..Len(s) : t[i] = s[i]) /\ t[Len(s) + 1] = c
  BY <1>4, <1>5
<1>7. Append(s, c) = t
  BY <1>1, <1>6, Grown, Zenon
<1> QED
  BY <1>4, <1>5, <1>7, Zenon

LEMMA FourOf ==
  ASSUME NEW a, NEW b, NEW c, NEW d
  PROVE  Append(<< a, b, c >>, d) = << a, b, c, d >>
<1>1. PICK U : a \in U /\ b \in U /\ c \in U /\ d \in U
  <2>1. a \in {a, b, c, d} /\ b \in {a, b, c, d} /\ c \in {a, b, c, d} /\ d \in {a, b, c, d}
    OBVIOUS
  <2> QED
    BY <2>1
<1>2. << a, b, c >> \in Seq(U) /\ Len(<< a, b, c >>) = 3 /\ << a, b, c >>[1] = a /\ << a, b, c >>[2] = b /\ << a, b, c >>[3] = c
  BY <1>1
<1>3. << a, b, c, d >> \in Seq(U) /\ Len(<< a, b, c, d >>) = 4 /\ << a, b, c, d >>[1] = a /\ << a, b, c, d >>[2] = b /\ << a, b, c, d >>[3] = c /\ << a, b, c, d >>[4] = d
  BY <1>1
<1>4. PICK s \in Seq(U) : s = << a, b, c >> /\ Len(s) = 3 /\ s[1] = a /\ s[2] = b /\ s[3] = c
  BY <1>2, Zenon
<1>5. PICK t \in Seq(U) : t = << a, b, c, d >> /\ Len(t) = 4 /\ t[1] = a /\ t[2] = b /\ t[3] = c /\ t[4] = d
  BY <1>3, Zenon
<1>6. Len(t) = Len(s) + 1 /\ (\A i \in 1..Len(s) : t[i] = s[i]) /\ t[Len(s) + 1] = d
  BY <1>4, <1>5
<1>7. Append(s, d) = t
  BY <1>1, <1>6, Grown, Zenon
<1> QED
  BY <1>4, <1>5, <1>7, Zenon

\* flat is the recursion by which FlattenSeq is defined.
IsFlat(flat, parts) ==
  flat = [i \in 1..Len(parts) |-> IF i = 1 THEN parts[i] ELSE flat[i - 1] \o parts[i]]

LEMMA FlatExists ==
  ASSUME NEW U, NEW parts \in Seq(Seq(U)), Len(parts) # 0
  PROVE  \E flat : IsFlat(flat, parts)
<1>1. PICK n \in Nat : n = Len(parts) /\ n >= 1
  OBVIOUS
<1>2. PICK step : step = [m \in Nat |-> [x \in Seq(U) |-> IF m \in 1..n THEN x \o parts[m] ELSE x]]
  OBVIOUS
<1>3. step \in [Nat -> [Seq(U) -> Seq(U)]]
  <2>1. ASSUME NEW m \in Nat, NEW x \in Seq(U)
        PROVE  (IF m \in 1..n THEN x \o parts[m] ELSE x) \in Seq(U)
    BY <1>1
  <2>2. ASSUME NEW m \in Nat
        PROVE  [x \in Seq(U) |-> IF m \in 1..n THEN x \o parts[m] ELSE x] \in [Seq(U) -> Seq(U)]
    BY <2>1
  <2> QED
    BY <1>2, <2>2
<1>4. << >> \in Seq(U)
  OBVIOUS
<1>5. PICK f \in [0..n -> Seq(U)] : f[0] = << >> /\ \A m \in 1..n : f[m] = step[m][f[m - 1]]
  <2>1. PICK S : S = Seq(U)
    OBVIOUS
  <2>2. step \in [Nat -> [S -> S]] /\ << >> \in S
    BY <1>3, <1>4, <2>1
  <2>3. PICK f : Iterates(f, S, << >>, step, n)
    BY <1>1, <2>2, Recursion
  <2> QED
    BY <2>1, <2>3 DEF Iterates
<1>6. ASSUME NEW m \in 1..n PROVE f[m] = f[m - 1] \o parts[m] /\ f[m - 1] \in Seq(U)
  <2>1. m - 1 \in 0..n /\ m \in Nat
    BY <1>1
  <2>2. f[m - 1] \in Seq(U)
    BY <2>1
  <2> QED
    BY <1>2, <1>5, <2>1, <2>2
<1>7. f[1] = parts[1]
  <2>1. 1 \in 1..n /\ parts[1] \in Seq(U)
    BY <1>1
  <2>2. f[1] = f[1 - 1] \o parts[1]
    BY <1>6, <2>1
  <2>3. 1 - 1 = 0
    OBVIOUS
  <2>4. f[1] = << >> \o parts[1]
    BY <1>5, <2>2, <2>3
  <2> QED
    BY <2>1, <2>4
<1>8. PICK flat : flat = [i \in 1..n |-> f[i]]
  OBVIOUS
<1>9. \A i \in 1..n : flat[i] = IF i = 1 THEN parts[i] ELSE flat[i - 1] \o parts[i]
  <2>1. TAKE i \in 1..n
  <2>2. CASE i = 1
    BY <1>7, <1>8, <2>2
  <2>3. CASE i # 1
    <3>1. i - 1 \in 1..n
      BY <1>1, <2>3
    <3> QED
      BY <1>6, <1>8, <2>3, <3>1
  <2> QED
    BY <2>2, <2>3
<1>10. flat = [i \in 1..n |-> flat[i]]
  BY <1>8
<1>11. flat = [i \in 1..n |-> IF i = 1 THEN parts[i] ELSE flat[i - 1] \o parts[i]]
  BY <1>9, <1>10
<1> QED
  BY <1>1, <1>11 DEF IsFlat
\* flat[k] is what the first k parts make, which end at the places of `at`.
Flattened(flat, parts, at, k) ==
  /\ flat[k] \in Seq(Nat) /\ at[k] = Len(flat[k])
  /\ \A i \in 1..k :
       /\ at[i - 1] \in Nat /\ at[i] = at[i - 1] + Len(parts[i]) /\ at[i] <= at[k]
       /\ \A j \in 1..Len(parts[i]) : flat[k][at[i - 1] + j] = parts[i][j]

LEMMA OneMorePart ==
  ASSUME NEW parts \in Seq(Seq(Nat)), NEW flat, NEW at, NEW m \in Nat, m + 1 \in 1..Len(parts),
         Flattened(flat, parts, at, m), flat[m + 1] = flat[m] \o parts[m + 1],
         at[m + 1] = Len(flat[m + 1])
  PROVE  Flattened(flat, parts, at, m + 1)
<1>1. PICK part \in Seq(Nat) : part = parts[m + 1]
  OBVIOUS
<1>2. PICK old \in Seq(Nat) : old = flat[m] /\ at[m] = Len(old)
  BY DEF Flattened
<1>7. PICK new \in Seq(Nat) : new = old \o part
  BY ConcatHolds, Zenon
<1>3. new = flat[m + 1] /\ new = old \o part /\ at[m + 1] = Len(new)
  BY <1>1, <1>2, <1>7
<1>4. PICK a \in Nat, b \in Nat : a = Len(old) /\ b = Len(part)
  OBVIOUS
<1>5. /\ Len(new) = a + b /\ \A j \in 1..a : new[j] = old[j]
      /\ \A j \in 1..b : new[a + j] = part[j]
  BY <1>3, <1>4, ConcatHolds
<1>6. ASSUME NEW i \in 1..(m + 1)
      PROVE  /\ at[i - 1] \in Nat /\ at[i] = at[i - 1] + Len(parts[i]) /\ at[i] <= at[m + 1]
             /\ \A j \in 1..Len(parts[i]) : new[at[i - 1] + j] = parts[i][j]
  <2>1. CASE i = m + 1
    <3>1. i - 1 = m
      BY <2>1
    <3>2. at[i - 1] = a /\ at[i] = a + b /\ parts[i] = part /\ Len(parts[i]) = b
      BY <1>1, <1>2, <1>3, <1>4, <1>5, <2>1, <3>1
    <3>3. at[i] <= at[m + 1] /\ at[i] = at[i - 1] + Len(parts[i])
      BY <1>3, <1>5, <2>1, <3>2
    <3>4. \A j \in 1..Len(parts[i]) : new[at[i - 1] + j] = parts[i][j]
      BY <1>5, <3>2, Zenon
    <3> QED
      BY <3>2, <3>3, <3>4
  <2>2. CASE i # m + 1
    <3>1. i \in 1..m
      BY <2>2
    <3>2. /\ at[i - 1] \in Nat /\ at[i] = at[i - 1] + Len(parts[i]) /\ at[i] <= a
          /\ \A j \in 1..Len(parts[i]) : old[at[i - 1] + j] = parts[i][j]
      BY <1>2, <1>4, <3>1 DEF Flattened
    <3>3. PICK size \in Nat : size = Len(parts[i])
      <4>1. parts[i] \in Seq(Nat)
        BY <3>1
      <4> QED
        BY <4>1
    <3>4. PICK from \in Nat : from = at[i - 1]
      BY <3>2
    <3>5. at[i] = from + size /\ from + size <= a /\ at[m + 1] = a + b
      BY <1>3, <1>5, <3>2, <3>3, <3>4
    <3>6. \A j \in 1..size : from + j \in 1..a
      BY <3>5
    <3>7. \A j \in 1..Len(parts[i]) : new[at[i - 1] + j] = parts[i][j]
      BY <1>5, <3>2, <3>3, <3>4, <3>6
    <3>8. at[i] <= at[m + 1]
      BY <1>4, <3>5
    <3> QED
      BY <3>2, <3>7, <3>8
  <2> QED
    BY <2>1, <2>2
<1> QED
  BY <1>3, <1>6 DEF Flattened

LEMMA FlattenIsCut ==
  ASSUME NEW parts \in Seq(Seq(Nat))
  PROVE  FlattenSeq(parts) \in Seq(Nat) /\ \E at : Cut(FlattenSeq(parts), parts, at)
<1>1. CASE Len(parts) = 0
  <2>1. FlattenSeq(parts) = << >>
    BY <1>1 DEF FlattenSeq
  <2>2. Cut(<< >>, parts, [i \in 0..0 |-> 0])
    BY <1>1 DEF Cut
  <2> QED
    BY <2>1, <2>2
<1>2. CASE Len(parts) # 0
  <2>1. PICK n \in Nat : n = Len(parts) /\ n >= 1
    BY <1>2
  <2>2. PICK flat : IsFlat(flat, parts) /\ FlattenSeq(parts) = flat[Len(parts)]
    <3>1. PICK flat : flat = CHOOSE f : IsFlat(f, parts)
      OBVIOUS
    <3>2. IsFlat(flat, parts)
      BY <1>2, <3>1, FlatExists
    <3>3. FlattenSeq(parts) = flat[Len(parts)]
      BY <1>2, <3>1 DEF FlattenSeq, IsFlat
    <3> QED
      BY <3>2, <3>3
  <2>3. \A i \in 1..n : flat[i] = IF i = 1 THEN parts[i] ELSE flat[i - 1] \o parts[i]
    BY <2>1, <2>2 DEF IsFlat
  <2>5. PICK at : at = [i \in 0..n |-> IF i = 0 THEN 0 ELSE Len(flat[i])]
    OBVIOUS
  <2>6. at[0] = 0 /\ \A i \in 1..n : at[i] = Len(flat[i])
    BY <2>1, <2>5
  <2> DEFINE Bad == { k \in 1..n : ~ Flattened(flat, parts, at, k) }
  <2>7. Bad = {}
    <3>1. SUFFICES ASSUME Bad # {} PROVE FALSE
      OBVIOUS
    <3>2. Bad \subseteq Nat
      OBVIOUS
    <3>3. PICK k \in Nat : k \in Bad /\ \A m \in Bad : k <= m
      BY <3>1, <3>2, LeastNumber
    <3>4. k \in 1..n /\ ~ Flattened(flat, parts, at, k)
      BY <3>3
    <3>5. CASE k = 1
      <4>1. PICK part \in Seq(Nat) : part = parts[1] /\ flat[1] = part /\ at[1] = Len(part)
        BY <2>1, <2>3, <2>6, <3>4, <3>5
      <4>2. ASSUME NEW i \in 1..1
            PROVE  /\ at[i - 1] \in Nat /\ at[i] = at[i - 1] + Len(parts[i]) /\ at[i] <= at[1]
                   /\ \A j \in 1..Len(parts[i]) : part[at[i - 1] + j] = parts[i][j]
        <5>1. i = 1 /\ i - 1 = 0
          OBVIOUS
        <5>2. PICK size \in Nat : size = Len(part)
          OBVIOUS
        <5>3. at[i - 1] = 0 /\ at[i] = size /\ at[1] = size /\ parts[i] = part
          BY <2>6, <4>1, <5>1, <5>2
        <5> QED
          BY <5>2, <5>3
      <4>3. Flattened(flat, parts, at, 1)
        BY <4>1, <4>2 DEF Flattened
      <4> QED
        BY <3>4, <3>5, <4>3
    <3>6. CASE k # 1
      <4>1. PICK m \in Nat : k = m + 1 /\ m \in 1..n
        BY <3>4, <3>6
      <4>2. Flattened(flat, parts, at, m)
        <5>1. ~(k <= m)
          BY <4>1
        <5> HIDE DEF Bad
        <5>2. m \notin Bad
          BY <3>3, <5>1
        <5> QED
          BY <4>1, <5>2 DEF Bad
      <4>3. flat[m + 1] = flat[m] \o parts[m + 1] /\ at[m + 1] = Len(flat[m + 1])
        <5>1. k - 1 = m
          BY <4>1
        <5> QED
          BY <2>3, <2>6, <3>4, <3>6, <4>1, <5>1
      <4>4. m + 1 \in 1..Len(parts)
        BY <2>1, <3>4, <4>1
      <4> QED
        BY <3>4, <4>1, <4>2, <4>3, <4>4, OneMorePart
    <3> QED
      BY <3>5, <3>6
  <2>8. Flattened(flat, parts, at, n)
    BY <2>1, <2>7
  <2>9. at \in [0..n -> 0..Len(flat[n])]
    <3>1. ASSUME NEW i \in 1..n PROVE at[i] \in 0..Len(flat[n])
      <4>1. Flattened(flat, parts, at, i)
        BY <2>7
      <4>2. at[i] \in Nat
        BY <4>1 DEF Flattened
      <4>3. at[i] <= at[n] /\ at[n] = Len(flat[n]) /\ Len(flat[n]) \in Nat
        BY <2>8 DEF Flattened
      <4> QED
        BY <4>2, <4>3
    <3>2. 0 \in 0..Len(flat[n])
      BY <2>8 DEF Flattened
    <3>3. \A i \in 0..n : i = 0 \/ i \in 1..n
      BY <2>1
    <3>4. \A i \in 0..n : at[i] \in 0..Len(flat[n])
      BY <2>6, <3>1, <3>2, <3>3
    <3>5. at = [i \in 0..n |-> at[i]]
      BY <2>5
    <3> QED
      BY <3>4, <3>5
  <2>10. Cut(flat[n], parts, at)
    BY <2>1, <2>6, <2>8, <2>9 DEF Cut, Flattened
  <2> QED
    BY <2>1, <2>2, <2>8, <2>10 DEF Flattened
<1> QED
  BY <1>1, <1>2

-----------------------------------------------------------------------------
(* Fields *)

Kind == {"int", "flag", "string", "data", "entries"}
Entry == Seq(Nat) \X BOOLEAN \X Nat \X Nat

\* What a parser has got when everything has fitted.
Cursor(left, fields) == [ok |-> TRUE, left |-> left, fields |-> fields]

\* What is left begins with the cells of a field.
Begins(left, cells) ==
  Len(cells) <= Len(left) /\ \A j \in 1..Len(cells) : left[j] = cells[j]

LEMMA FitsIs ==
  ASSUME NEW left, NEW fields, NEW n
  PROVE  /\ Fits(Cursor(left, fields), n) <=> Len(left) >= n
         /\ Cursor(left, fields).left = left /\ Cursor(left, fields).fields = fields
         /\ Cursor(left, fields).ok = TRUE
BY DEF Cursor, Fits

LEMMA FieldsReplaced ==
  ASSUME NEW left, NEW fields, NEW other
  PROVE  [Cursor(left, fields) EXCEPT !.fields = other] = Cursor(left, other)
<1>1. PICK yes : yes = TRUE
  OBVIOUS
<1>2. \A l, f : Cursor(l, f) = [ok |-> yes, left |-> l, fields |-> f]
  BY <1>1 DEF Cursor
<1>3. [[ok |-> yes, left |-> left, fields |-> fields] EXCEPT !.fields = other]
        = [ok |-> yes, left |-> left, fields |-> other]
  OBVIOUS
<1> QED
  BY <1>2, <1>3

LEMMA TakeIs ==
  ASSUME NEW left, NEW fields, NEW n, NEW value
  PROVE  Take(Cursor(left, fields), n, value) = Cursor(Rest(left, n), Append(fields, value))
<1>1. PICK yes : yes = TRUE
  OBVIOUS
<1>2. \A l, f : Cursor(l, f) = [ok |-> yes, left |-> l, fields |-> f]
  BY <1>1 DEF Cursor
<1>3. PICK l : l = Rest(left, n)
  OBVIOUS
<1>4. PICK f : f = Append(fields, value)
  OBVIOUS
<1>5. PICK c : c = [ok |-> yes, left |-> left, fields |-> fields]
  OBVIOUS
<1>6. c.left = left /\ c.fields = fields
  BY <1>5
<1>7. Take(c, n, value) = [c EXCEPT !.left = l, !.fields = f]
  BY <1>3, <1>4, <1>6 DEF Take, Rest
<1>8. [[ok |-> yes, left |-> left, fields |-> fields] EXCEPT !.left = l]
        = [ok |-> yes, left |-> l, fields |-> fields]
  OBVIOUS
<1>9. [[ok |-> yes, left |-> l, fields |-> fields] EXCEPT !.fields = f]
        = [ok |-> yes, left |-> l, fields |-> f]
  OBVIOUS
<1> QED
  BY <1>2, <1>3, <1>4, <1>5, <1>7, <1>8, <1>9

LEMMA IntBack ==
  ASSUME NEW left \in Seq(Nat), NEW fields, NEW value, Begins(left, << value >>)
  PROVE  ReadInt(Cursor(left, fields)) = Cursor(Rest(left, 1), Append(fields, value))
<1>1. Len(left) >= 1 /\ Head(left) = value
  BY DEF Begins
<1>2. PICK cursor : cursor = Cursor(left, fields)
  OBVIOUS
<1>3. Fits(cursor, 1) /\ cursor.left = left
  BY <1>1, <1>2, FitsIs
<1>4. ReadInt(cursor) = Take(cursor, 1, value)
  BY <1>1, <1>3 DEF ReadInt
<1>5. Take(Cursor(left, fields), 1, value) = Cursor(Rest(left, 1), Append(fields, value))
  BY TakeIs
<1>6. ReadInt(Cursor(left, fields)) = Take(Cursor(left, fields), 1, value)
  BY <1>2, <1>4
<1> QED
  BY <1>5, <1>6

LEMMA FlagBack ==
  ASSUME NEW left \in Seq(Nat), NEW fields, NEW value \in BOOLEAN, Begins(left, << Bit(value) >>)
  PROVE  ReadFlag(Cursor(left, fields)) = Cursor(Rest(left, 1), Append(fields, value))
<1>1. Len(left) >= 1 /\ Head(left) = Bit(value)
  BY DEF Begins
<1>2. PICK cursor : cursor = Cursor(left, fields)
  OBVIOUS
<1>3. Fits(cursor, 1) /\ cursor.left = left
  BY <1>1, <1>2, FitsIs
<1>4. PICK read \in BOOLEAN : read = (Head(left) = 1)
  OBVIOUS
<1>5. ReadFlag(cursor) = Take(cursor, 1, read)
  BY <1>3, <1>4 DEF ReadFlag
<1>6. read = value
  BY <1>1, <1>4 DEF Bit
<1>7. Take(Cursor(left, fields), 1, value) = Cursor(Rest(left, 1), Append(fields, value))
  BY TakeIs
<1>8. ReadFlag(Cursor(left, fields)) = Take(Cursor(left, fields), 1, value)
  BY <1>2, <1>5, <1>6
<1> QED
  BY <1>7, <1>8

\* A length and as many cells.
LEMMA CellsBack ==
  ASSUME NEW left \in Seq(Nat), NEW fields, NEW value \in Seq(Nat),
         Begins(left, << Len(value) >> \o value)
  PROVE  /\ ReadString(Cursor(left, fields)) = Cursor(Rest(left, 1 + Len(value)), Append(fields, value))
         /\ Len(<< Len(value) >> \o value) = 1 + Len(value)
         /\ << Len(value) >> \o value \in Seq(Nat)
<1>1. PICK n \in Nat : n = Len(value)
  OBVIOUS
<1>2. PICK one \in Seq(Nat) : one = << n >> /\ Len(one) = 1 /\ one[1] = n
  <2>1. << n >> \in Seq(Nat) /\ Len(<< n >>) = 1 /\ << n >>[1] = n
    OBVIOUS
  <2> QED
    BY <2>1, Zenon
<1>3. PICK cells \in Seq(Nat) : cells = one \o value
  BY ConcatHolds, Zenon
<1>4. /\ Len(cells) = 1 + n /\ cells[1] = n
      /\ \A j \in 1..n : cells[1 + j] = value[j]
  BY <1>1, <1>2, <1>3, ConcatHolds
<1>5. cells = << Len(value) >> \o value
  BY <1>1, <1>2, <1>3
<1>6. Begins(left, cells)
  BY <1>5
<1>7. Len(left) >= 1 + n /\ left[1] = n /\ Len(left) \in Nat
  BY <1>4, <1>6 DEF Begins
<1>8. \A j \in 1..n : left[1 + j] = value[j]
  <2>1. TAKE j \in 1..n
  <2>2. 1 + j \in 1..Len(cells)
    BY <1>4
  <2> QED
    BY <1>4, <1>6, <2>2 DEF Begins
<1>9. SubSeq(left, 2, 1 + n) = value
  <2>1. SubSeq(left, 2, 1 + n) = [j \in 1..n |-> left[1 + j]]
    BY <1>7
  <2>2. value = [j \in 1..n |-> value[j]]
    BY <1>1
  <2> QED
    BY <1>8, <2>1, <2>2
<1>10. PICK cursor : cursor = Cursor(left, fields)
  OBVIOUS
<1>11. Fits(cursor, 1) /\ Fits(cursor, 1 + n) /\ cursor.left = left /\ Head(left) = n
  <2>1. Len(left) >= 1 /\ Head(left) = n
    BY <1>7
  <2>2. Fits(cursor, 1) /\ cursor.left = left
    BY <1>10, <2>1, FitsIs
  <2>3. Fits(cursor, 1 + n)
    BY <1>7, <1>10, FitsIs
  <2> QED
    BY <2>1, <2>2, <2>3
<1>12. ReadString(cursor) = Take(cursor, 1 + n, value)
  BY <1>9, <1>11 DEF ReadString
<1>13. Take(Cursor(left, fields), 1 + n, value) = Cursor(Rest(left, 1 + n), Append(fields, value))
  BY TakeIs
<1>14. ReadString(Cursor(left, fields)) = Take(Cursor(left, fields), 1 + n, value)
  BY <1>10, <1>12
<1> QED
  BY <1>1, <1>4, <1>5, <1>13, <1>14

LEMMA StringIs ==
  ASSUME NEW value \in Seq(Nat), Len(value) < StringLimit
  PROVE  EncodeString(value) = << Len(value) >> \o value
<1>1. PICK n \in Nat, limit \in Nat : n = Len(value) /\ limit = StringLimit
  BY StringLimitAssumption
<1>2. n % limit = n
  BY <1>1
<1> QED
  BY <1>1, <1>2 DEF EncodeString

\* A text that begins with two parts begins with the first and goes on with the second.
LEMMA BeginsTwo ==
  ASSUME NEW left \in Seq(Nat), NEW s \in Seq(Nat), NEW t \in Seq(Nat), Begins(left, s \o t)
  PROVE  /\ Begins(left, s) /\ Begins(Rest(left, Len(s)), t) /\ Rest(left, Len(s)) \in Seq(Nat)
         /\ Len(s) + Len(t) <= Len(left)
<1>1. PICK a \in Nat, b \in Nat, n \in Nat : a = Len(s) /\ b = Len(t) /\ n = Len(left)
  OBVIOUS
<1>2. PICK cells \in Seq(Nat) : cells = s \o t
  BY ConcatHolds, Zenon
<1>3. /\ Len(cells) = a + b /\ \A j \in 1..a : cells[j] = s[j]
      /\ \A j \in 1..b : cells[a + j] = t[j]
  BY <1>1, <1>2, ConcatHolds
<1>4. a + b <= n /\ \A j \in 1..(a + b) : left[j] = cells[j]
  BY <1>1, <1>2, <1>3 DEF Begins
<1>5. a \in 0..Len(left)
  BY <1>1, <1>4
<1>6. /\ Rest(left, a) \in Seq(Nat) /\ Len(Rest(left, a)) = n - a
      /\ \A i \in 1..(n - a) : Rest(left, a)[i] = left[a + i]
  BY <1>1, <1>5, RestHolds
<1>7. Begins(left, s)
  <2>1. \A j \in 1..a : j \in 1..(a + b)
    OBVIOUS
  <2> QED
    BY <1>1, <1>3, <1>4, <2>1 DEF Begins
<1>8. Begins(Rest(left, a), t)
  <2>1. \A j \in 1..b : a + j \in 1..(a + b) /\ j \in 1..(n - a)
    BY <1>4
  <2>2. b <= n - a
    BY <1>4
  <2> QED
    BY <1>1, <1>3, <1>4, <1>6, <2>1, <2>2 DEF Begins
<1> QED
  BY <1>1, <1>4, <1>6, <1>7, <1>8

LEMMA BeginsOne ==
  ASSUME NEW left \in Seq(Nat), NEW cell \in Nat, Len(left) >= 1, left[1] = cell
  PROVE  Begins(left, << cell >>)
<1>1. Len(<< cell >>) = 1 /\ << cell >>[1] = cell
  OBVIOUS
<1> QED
  BY <1>1 DEF Begins

\* What EncodeEntries makes of one entry.
EntryCells(entry) == EncodeString(entry[1]) \o << Bit(entry[2]), entry[3], entry[4] >>

LEMMA EntryBack ==
  ASSUME NEW left \in Seq(Nat), NEW fields, NEW entry \in Entry, Len(entry[1]) < StringLimit,
         Begins(left, EntryCells(entry))
  PROVE  /\ EntryCells(entry) \in Seq(Nat)
         /\ ReadEntry(Cursor(left, fields))
              = Cursor(Rest(left, Len(EntryCells(entry))), Append(fields, entry))
<1>1. PICK name \in Seq(Nat), dir \in BOOLEAN, size \in Nat, time \in Nat :
        entry = << name, dir, size, time >>
  BY DEF Entry
<1>2. /\ entry[1] = name /\ entry[2] = dir /\ entry[3] = size /\ entry[4] = time
      /\ Len(name) < StringLimit
  BY <1>1
<1>3. PICK head \in Seq(Nat) : head = << Len(name) >> \o name /\ head = EncodeString(name)
  <2>1. EncodeString(name) = << Len(name) >> \o name
    BY <1>2, StringIs
  <2>2. << Len(name) >> \in Seq(Nat)
    OBVIOUS
  <2> QED
    BY <2>1, <2>2, ConcatHolds, Zenon
<1>4. PICK bit \in Nat : bit = Bit(dir)
  BY DEF Bit
<1>5. PICK tail \in Seq(Nat) :
        /\ tail = << bit, size, time >> /\ Len(tail) = 3
        /\ tail[1] = bit /\ tail[2] = size /\ tail[3] = time
  <2>1. /\ << bit, size, time >> \in Seq(Nat) /\ Len(<< bit, size, time >>) = 3
        /\ << bit, size, time >>[1] = bit /\ << bit, size, time >>[2] = size
        /\ << bit, size, time >>[3] = time
    OBVIOUS
  <2> QED
    BY <2>1, Zenon
<1>6. PICK cells \in Seq(Nat) : cells = head \o tail /\ cells = EntryCells(entry)
  <2>1. EntryCells(entry) = head \o tail
    BY <1>2, <1>3, <1>4, <1>5 DEF EntryCells
  <2> QED
    BY <2>1, ConcatHolds, Zenon
<1>7. PICK a \in Nat : a = Len(head)
  OBVIOUS
<1>8. PICK rest \in Seq(Nat) : rest = Rest(left, a) /\ Begins(left, head) /\ Begins(rest, tail)
  <2>1. Begins(left, head \o tail)
    BY <1>6
  <2>2. Begins(left, head) /\ Begins(Rest(left, Len(head)), tail) /\ Rest(left, Len(head)) \in Seq(Nat)
    BY <2>1, BeginsTwo
  <2> QED
    BY <1>7, <2>2, Zenon
<1>9. Len(tail) = 3 /\ tail[1] = bit /\ tail[2] = size /\ tail[3] = time /\ Len(cells) = a + 3
  <2>1. Len(head \o tail) = Len(head) + Len(tail)
    BY ConcatHolds
  <2> QED
    BY <1>5, <1>6, <1>7, <2>1
<1>10. Len(rest) \in Nat /\ Len(rest) >= 3 /\ rest[1] = bit /\ rest[2] = size /\ rest[3] = time
  <2>1. Len(tail) <= Len(rest) /\ \A j \in 1..Len(tail) : rest[j] = tail[j]
    BY <1>8 DEF Begins
  <2>2. 1 \in 1..Len(tail) /\ 2 \in 1..Len(tail) /\ 3 \in 1..Len(tail)
    BY <1>9
  <2>3. rest[1] = tail[1] /\ rest[2] = tail[2] /\ rest[3] = tail[3]
    BY <2>1, <2>2
  <2>4. Len(rest) \in Nat /\ Len(rest) >= 3
    BY <1>9, <2>1
  <2> QED
    BY <1>9, <2>3, <2>4
<1>11. a <= Len(left) /\ Len(left) \in Nat /\ Len(rest) = Len(left) - a
  <2>1. a <= Len(left)
    BY <1>7, <1>8 DEF Begins
  <2>2. a \in 0..Len(left)
    BY <2>1
  <2> QED
    BY <1>8, <2>1, <2>2, RestHolds
<1>12. PICK rest1 \in Seq(Nat) :
         /\ rest1 = Rest(rest, 1) /\ Len(rest1) = Len(rest) - 1
         /\ \A i \in 1..(Len(rest) - 1) : rest1[i] = rest[1 + i]
  <2>1. 1 \in 0..Len(rest)
    BY <1>10
  <2> QED
    BY <2>1, RestHolds
<1>13. PICK rest2 \in Seq(Nat) :
         /\ rest2 = Rest(rest1, 1) /\ Len(rest2) = Len(rest1) - 1
         /\ \A i \in 1..(Len(rest1) - 1) : rest2[i] = rest1[1 + i]
  <2>1. 1 \in 0..Len(rest1)
    BY <1>10, <1>12
  <2> QED
    BY <2>1, RestHolds
<1>14. rest1[1] = size /\ rest2[1] = time /\ Len(rest1) >= 2 /\ Len(rest2) >= 1
  <2>1. 1 \in 1..(Len(rest) - 1) /\ 2 \in 1..(Len(rest) - 1) /\ 1 \in 1..(Len(rest1) - 1)
    <3>1. PICK n \in Nat, m \in Nat : n = Len(rest) /\ m = Len(rest1)
      OBVIOUS
    <3>2. n >= 3 /\ m = n - 1
      BY <1>10, <1>12, <3>1, Zenon
    <3>3. 1 \in 1..(n - 1) /\ 2 \in 1..(n - 1) /\ 1 \in 1..(m - 1)
      BY <3>2
    <3> QED
      BY <3>1, <3>3, Zenon
  <2>2. rest1[1] = rest[1 + 1] /\ rest1[2] = rest[1 + 2]
    BY <1>12, <2>1
  <2>3. rest2[1] = rest1[1 + 1]
    BY <1>13, <2>1
  <2>4. Len(rest1) >= 2 /\ Len(rest2) >= 1
    <3>1. PICK n \in Nat, m \in Nat, k \in Nat : n = Len(rest) /\ m = Len(rest1) /\ k = Len(rest2)
      OBVIOUS
    <3>2. n >= 3
      BY <1>10, <3>1, Zenon
    <3>3. m = n - 1
      BY <1>12, <3>1, Zenon
    <3>4. k = m - 1
      BY <1>13, <3>1, Zenon
    <3> QED
      BY <3>1, <3>2, <3>3, <3>4
  <2>5. rest1[1] = size /\ rest1[2] = time /\ rest2[1] = rest1[2]
    BY <1>10, <2>2, <2>3
  <2> QED
    BY <2>4, <2>5
<1>15. /\ Begins(rest, << bit >>) /\ Begins(rest1, << size >>) /\ Begins(rest2, << time >>)
  <2>1. Len(rest) >= 1 /\ Len(rest1) >= 1
    <3>1. PICK n \in Nat, m \in Nat : n = Len(rest) /\ m = Len(rest1)
      OBVIOUS
    <3>2. n >= 3 /\ m = n - 1
      BY <1>10, <1>12, <3>1, Zenon
    <3> QED
      BY <3>1, <3>2
  <2> QED
    BY <1>10, <1>14, <2>1, BeginsOne
<1>16. Rest(rest2, 1) = Rest(left, a + 3)
  <2>1. 1 \in 0..Len(rest) /\ 1 \in 0..(Len(rest) - 1) /\ 2 \in 0..Len(rest) /\ 1 \in 0..(Len(rest) - 2)
        /\ a \in 0..Len(left) /\ 3 \in 0..(Len(left) - a)
    <3>1. PICK n \in Nat, m \in Nat : n = Len(rest) /\ m = Len(left)
      BY <1>10, <1>11
    <3>2. n >= 3 /\ a <= m /\ n = m - a
      BY <1>10, <1>11, <3>1
    <3> QED
      BY <3>1, <3>2
  <2>2. rest2 = Rest(rest, 2)
    BY <1>12, <1>13, <2>1, RestHolds
  <2>3. Rest(rest2, 1) = Rest(rest, 3)
    BY <2>1, <2>2, RestHolds
  <2>4. Rest(rest, 3) = Rest(left, a + 3)
    BY <1>8, <2>1, RestHolds
  <2> QED
    BY <2>3, <2>4
<1>17. ReadString(Cursor(left, << >>)) = Cursor(rest, << name >>)
  <2>1. ReadString(Cursor(left, << >>)) = Cursor(Rest(left, 1 + Len(name)), Append(<< >>, name))
        /\ Len(<< Len(name) >> \o name) = 1 + Len(name)
    <3>1. Begins(left, << Len(name) >> \o name)
      BY <1>3, <1>8, Zenon
    <3>2. PICK none : none = << >>
      OBVIOUS
    <3>3. ReadString(Cursor(left, none)) = Cursor(Rest(left, 1 + Len(name)), Append(none, name))
          /\ Len(<< Len(name) >> \o name) = 1 + Len(name)
      BY <3>1, CellsBack
    <3> QED
      BY <3>2, <3>3, Zenon
  <2>2. Append(<< >>, name) = << name >>
    OBVIOUS
  <2> QED
    BY <1>3, <1>7, <1>8, <2>1, <2>2
<1>18. ReadFlag(Cursor(rest, << name >>)) = Cursor(rest1, << name, dir >>)
  <2>1. ReadFlag(Cursor(rest, << name >>)) = Cursor(Rest(rest, 1), Append(<< name >>, dir))
    BY <1>4, <1>15, FlagBack
  <2>2. Append(<< name >>, dir) = << name, dir >>
    BY TwoOf, Zenon
  <2> QED
    BY <1>12, <2>1, <2>2
<1>19. ReadInt(Cursor(rest1, << name, dir >>)) = Cursor(rest2, << name, dir, size >>)
  <2>1. ReadInt(Cursor(rest1, << name, dir >>)) = Cursor(Rest(rest1, 1), Append(<< name, dir >>, size))
    BY <1>15, IntBack
  <2>2. Append(<< name, dir >>, size) = << name, dir, size >>
    BY ThreeOf, Zenon
  <2> QED
    BY <1>13, <2>1, <2>2
<1>20. ReadInt(Cursor(rest2, << name, dir, size >>)) = Cursor(Rest(left, a + 3), entry)
  <2>1. ReadInt(Cursor(rest2, << name, dir, size >>))
          = Cursor(Rest(rest2, 1), Append(<< name, dir, size >>, time))
    BY <1>15, IntBack
  <2>2. Append(<< name, dir, size >>, time) = << name, dir, size, time >>
    BY FourOf, Zenon
  <2> QED
    BY <1>1, <1>16, <2>1, <2>2
<1>21. ReadEntry(Cursor(left, fields)) = Cursor(Rest(left, a + 3), Append(fields, entry))
  <2>1. [Cursor(left, fields) EXCEPT !.fields = << >>] = Cursor(left, << >>)
        /\ [Cursor(Rest(left, a + 3), entry) EXCEPT !.fields = Append(fields, entry)]
             = Cursor(Rest(left, a + 3), Append(fields, entry))
    BY FieldsReplaced
  <2>2. Cursor(left, fields).fields = fields /\ Cursor(Rest(left, a + 3), entry).fields = entry
    BY DEF Cursor
  <2> QED
    <3>1. PICK end : end = Cursor(Rest(left, a + 3), entry)
      OBVIOUS
    <3>2. ReadInt(ReadInt(ReadFlag(ReadString([Cursor(left, fields) EXCEPT !.fields = << >>])))) = end
      BY <1>17, <1>18, <1>19, <1>20, <2>1, <3>1
    <3>3. ReadEntry(Cursor(left, fields))
            = [end EXCEPT !.fields = Append(Cursor(left, fields).fields, end.fields)]
      BY <3>2 DEF ReadEntry
    <3>4. [end EXCEPT !.fields = Append(fields, entry)] = Cursor(Rest(left, a + 3), Append(fields, entry))
      BY <2>1, <3>1
    <3> QED
      BY <2>2, <3>1, <3>3, <3>4
<1> QED
  BY <1>6, <1>9, <1>21

\* A text that begins with the parts of a sequence, one after the other.
LEMMA CutBegins ==
  ASSUME NEW U, NEW parts \in Seq(Seq(U)), NEW cells \in Seq(U), NEW at, Cut(cells, parts, at),
         NEW left \in Seq(U), Begins(left, cells), NEW k \in 1..Len(parts)
  PROVE  /\ Begins(Rest(left, at[k - 1]), parts[k]) /\ Rest(left, at[k - 1]) \in Seq(U)
         /\ Rest(Rest(left, at[k - 1]), Len(parts[k])) = Rest(left, at[k])
<1>1. PICK n \in Nat, m \in Nat : n = Len(left) /\ m = Len(cells) /\ m <= n
  BY DEF Begins
<1>2. PICK part \in Seq(U), size \in Nat : part = parts[k] /\ size = Len(part)
  OBVIOUS
<1>3. PICK a \in Nat, b \in Nat :
        a = at[k - 1] /\ b = at[k] /\ b = a + size /\ b <= m
  <2>1. k - 1 \in 0..Len(parts) /\ k \in 0..Len(parts)
    OBVIOUS
  <2>2. at[k - 1] \in 0..m /\ at[k] \in 0..m
    BY <1>1, <2>1 DEF Cut
  <2>3. at[k] = at[k - 1] + size
    BY <1>2 DEF Cut
  <2> QED
    BY <2>2, <2>3
<1>8. a + size <= m /\ m <= n
  BY <1>1, <1>3
<1>4. \A j \in 1..size : left[a + j] = part[j]
  <2>1. TAKE j \in 1..size
  <2>2. a + j \in 1..m
    BY <1>8
  <2>3. cells[a + j] = part[j]
    BY <1>2, <1>3 DEF Cut
  <2> QED
    BY <1>1, <2>2, <2>3 DEF Begins
<1>5. a \in 0..n /\ size \in 0..(n - a)
  BY <1>8
<1>6. PICK rest \in Seq(U) :
        /\ rest = Rest(left, a) /\ Len(rest) = n - a
        /\ \A i \in 1..(n - a) : rest[i] = left[a + i]
        /\ Rest(rest, size) = Rest(left, a + size)
  <2>1. a \in 0..Len(left) /\ size \in 0..(Len(left) - a)
    BY <1>1, <1>5
  <2>2. /\ Rest(left, a) \in Seq(U) /\ Len(Rest(left, a)) = Len(left) - a
        /\ \A i \in 1..(Len(left) - a) : Rest(left, a)[i] = left[a + i]
        /\ \A j \in 0..(Len(left) - a) : Rest(Rest(left, a), j) = Rest(left, a + j)
    BY <2>1, RestHolds
  <2> QED
    BY <1>1, <2>1, <2>2
<1>7. Begins(rest, part)
  <2>1. size <= n - a /\ \A j \in 1..size : j \in 1..(n - a)
    BY <1>5
  <2> QED
    BY <1>2, <1>4, <1>6, <2>1 DEF Begins
<1> QED
  BY <1>2, <1>3, <1>6, <1>7

\* The first elements of a sequence, one more at a time.
Upto(s, k) == SubSeq(s, 1, k)

LEMMA UptoGrows ==
  ASSUME NEW U, NEW s \in Seq(U)
  PROVE  /\ Upto(s, 0) = << >> /\ Upto(s, Len(s)) = s
         /\ \A k \in 1..Len(s) : Append(Upto(s, k - 1), s[k]) = Upto(s, k)
<1>1. PICK n \in Nat : n = Len(s)
  OBVIOUS
<1>2. ASSUME NEW k \in 1..n PROVE Append(Upto(s, k - 1), s[k]) = Upto(s, k)
  <2>1. PICK p \in Nat : k = p + 1 /\ k - 1 = p /\ p <= n
    BY <1>1
  <2>2. PICK old \in Seq(U) : old = SubSeq(s, 1, p) /\ Len(old) = p /\ \A i \in 1..p : old[i] = s[i]
    <3>1. SubSeq(s, 1, p) \in Seq(U) /\ Len(SubSeq(s, 1, p)) = p /\ \A i \in 1..p : SubSeq(s, 1, p)[i] = s[i]
      BY <1>1, <2>1
    <3> QED
      BY <3>1, Zenon
  <2>3. PICK new \in Seq(U) : new = SubSeq(s, 1, k) /\ Len(new) = k /\ \A i \in 1..k : new[i] = s[i]
    <3>1. SubSeq(s, 1, k) \in Seq(U) /\ Len(SubSeq(s, 1, k)) = k /\ \A i \in 1..k : SubSeq(s, 1, k)[i] = s[i]
      BY <1>1
    <3> QED
      BY <3>1, Zenon
  <2>4. s[k] \in U
    BY <1>1
  <2>5. Len(new) = Len(old) + 1 /\ (\A i \in 1..Len(old) : new[i] = old[i]) /\ new[Len(old) + 1] = s[k]
    BY <2>1, <2>2, <2>3
  <2>6. Append(old, s[k]) = new
    BY <2>4, <2>5, Grown, Zenon
  <2> QED
    BY <2>1, <2>2, <2>3, <2>6 DEF Upto
<1>3. Upto(s, Len(s)) = s /\ Upto(s, 0) = << >>
  BY DEF Upto
<1>4. \A k \in 1..Len(s) : Append(Upto(s, k - 1), s[k]) = Upto(s, k)
  BY <1>1, <1>2
<1> QED
  BY <1>3, <1>4, Zenon

LEMMA EncodedIsCells ==
  ASSUME NEW value \in Seq(Nat)
  PROVE  EncodeString(value) \in Seq(Nat)
<1>1. PICK n \in Nat, limit \in Nat \ {0} : n = Len(value) /\ limit = StringLimit
  BY StringLimitAssumption
<1>2. PICK size \in Nat : size = n % limit
  BY <1>1
<1>3. << size >> \in Seq(Nat)
  OBVIOUS
<1>4. << size >> \o value \in Seq(Nat)
  BY <1>3, ConcatHolds, Zenon
<1> QED
  BY <1>1, <1>2, <1>4 DEF EncodeString

LEMMA EntryIsCells ==
  ASSUME NEW entry \in Entry
  PROVE  EntryCells(entry) \in Seq(Nat)
<1>1. entry[1] \in Seq(Nat) /\ entry[2] \in BOOLEAN /\ entry[3] \in Nat /\ entry[4] \in Nat
  BY DEF Entry
<1>2. PICK bit \in Nat, size \in Nat, time \in Nat :
        bit = Bit(entry[2]) /\ size = entry[3] /\ time = entry[4]
  <2>1. Bit(entry[2]) \in Nat
    BY DEF Bit
  <2> QED
    BY <1>1, <2>1
<1>3. << bit, size, time >> \in Seq(Nat)
  OBVIOUS
<1>4. EncodeString(entry[1]) \in Seq(Nat)
  BY <1>1, EncodedIsCells
<1>5. EncodeString(entry[1]) \o << bit, size, time >> \in Seq(Nat)
  BY <1>3, <1>4, ConcatHolds, Zenon
<1> QED
  BY <1>2, <1>5 DEF EntryCells

-----------------------------------------------------------------------------
(* The loops of the parsers *)

\* after is the loop over n entries.
EntryLoop(after, cursor, n) ==
  after = [k \in 0..n |-> IF k = 0 THEN cursor ELSE ReadEntry(after[k - 1])]

\* There is one such function, so what satisfies its equation is what it computes.
LEMMA EntryLoopIs ==
  ASSUME NEW n \in Nat, NEW cursor, NEW f, EntryLoop(f, cursor, n)
  PROVE  AllEntries(cursor, n) = f[n]
<1>1. PICK g : g = CHOOSE h : EntryLoop(h, cursor, n)
  OBVIOUS
<1>2. EntryLoop(g, cursor, n)
  BY <1>1
<1>3. AllEntries(cursor, n) = g[n]
  BY <1>1 DEF AllEntries, EntryLoop
<1> DEFINE Good == { k \in 0..n : g[k] = f[k] }
<1>4. 0 \in Good
  BY <1>2 DEF EntryLoop
<1>5. ASSUME NEW k \in 1..n, k - 1 \in Good PROVE k \in Good
  <2>1. k \in 0..n /\ k # 0 /\ g[k - 1] = f[k - 1]
    BY <1>5
  <2>2. g[k] = ReadEntry(g[k - 1])
    BY <1>2, <2>1 DEF EntryLoop
  <2>3. f[k] = ReadEntry(f[k - 1])
    BY <2>1 DEF EntryLoop
  <2> QED
    BY <2>1, <2>2, <2>3
<1> HIDE DEF Good
<1>6. 0..n \subseteq Good
  BY <1>4, <1>5, Climb
<1>7. n \in Good
  BY <1>6
<1> QED
  BY <1>3, <1>7 DEF Good

\* The fields of a packet of type t, one after the other.
FieldLoop(after, kinds, payload) ==
  after = [k \in 0..Len(kinds) |->
             IF k = 0 THEN Start(payload) ELSE Read(after[k - 1], kinds[k])]

LEMMA FieldLoopIs ==
  ASSUME NEW packet, NEW kinds, kinds = Layout[packet.type], Len(kinds) \in Nat,
         NEW f, FieldLoop(f, kinds, packet.payload)
  PROVE  Parse(packet) = f[Len(kinds)]
<1>1. PICK n \in Nat : n = Len(kinds)
  OBVIOUS
<1>2. PICK g : g = CHOOSE h : FieldLoop(h, kinds, packet.payload)
  OBVIOUS
<1>3. FieldLoop(g, kinds, packet.payload)
  BY <1>2
<1>4. Parse(packet) = g[n]
  BY <1>1, <1>2 DEF Parse, FieldLoop
<1> DEFINE Good == { k \in 0..n : g[k] = f[k] }
<1>5. 0 \in Good
  BY <1>1, <1>3 DEF FieldLoop
<1>6. ASSUME NEW k \in 1..n, k - 1 \in Good PROVE k \in Good
  <2>1. k \in 0..n /\ k # 0 /\ g[k - 1] = f[k - 1]
    BY <1>6
  <2>2. g[k] = Read(g[k - 1], kinds[k])
    BY <1>1, <1>3, <2>1 DEF FieldLoop
  <2>3. f[k] = Read(f[k - 1], kinds[k])
    BY <1>1, <2>1 DEF FieldLoop
  <2> QED
    BY <2>1, <2>2, <2>3
<1> HIDE DEF Good
<1>7. 0..n \subseteq Good
  BY <1>5, <1>6, Climb
<1>8. n \in Good
  BY <1>7
<1> QED
  BY <1>1, <1>4, <1>8 DEF Good

\* What the loop of EncodeEntries writes.
EntryParts(entries) == [i \in 1..Len(entries) |-> EntryCells(entries[i])]

LEMMA EntriesBack ==
  ASSUME NEW left \in Seq(Nat), NEW value \in Seq(Entry),
         \A i \in 1..Len(value) : Len(value[i][1]) < StringLimit,
         Begins(left, FlattenSeq(EntryParts(value)))
  PROVE  AllEntries(Cursor(left, << >>), Len(value))
           = Cursor(Rest(left, Len(FlattenSeq(EntryParts(value)))), value)
<1>1. PICK n \in Nat : n = Len(value)
  OBVIOUS
<1>2. PICK parts \in Seq(Seq(Nat)) :
        /\ parts = EntryParts(value) /\ Len(parts) = n
        /\ \A i \in 1..n : parts[i] = EntryCells(value[i])
  <2>1. \A i \in 1..n : EntryCells(value[i]) \in Seq(Nat)
    <3>1. \A i \in 1..n : value[i] \in Entry
      BY <1>1
    <3> QED
      BY <3>1, EntryIsCells
  <2>2. EntryParts(value) \in Seq(Seq(Nat)) /\ Len(EntryParts(value)) = n
    BY <1>1, <2>1 DEF EntryParts
  <2>3. \A i \in 1..n : EntryParts(value)[i] = EntryCells(value[i])
    BY <1>1 DEF EntryParts
  <2> QED
    BY <2>2, <2>3, Zenon
<1>12. PICK cells \in Seq(Nat) : cells = FlattenSeq(parts) /\ \E at : Cut(cells, parts, at)
  BY FlattenIsCut
<1>13. PICK at : Cut(cells, parts, at)
  BY <1>12
<1>3. cells = FlattenSeq(parts) /\ Cut(cells, parts, at)
  BY <1>12, <1>13
<1>4. Begins(left, cells)
  BY <1>2, <1>3
<1>5. PICK f : f = [k \in 0..n |-> Cursor(Rest(left, at[k]), Upto(value, k))]
  OBVIOUS
<1>11. /\ Upto(value, 0) = << >> /\ Upto(value, Len(value)) = value
       /\ \A k \in 1..Len(value) : Append(Upto(value, k - 1), value[k]) = Upto(value, k)
  BY UptoGrows
<1>6. f[0] = Cursor(left, << >>)
  <2>1. at[0] = 0 /\ 0 \in 0..n
    BY <1>1, <1>3 DEF Cut
  <2>2. 0 \in 0..Len(left)
    OBVIOUS
  <2>3. Rest(left, 0) = left
    BY <2>2, RestHolds
  <2> QED
    BY <1>5, <1>11, <2>1, <2>3
<1>7. ASSUME NEW k \in 1..n PROVE f[k] = ReadEntry(f[k - 1])
  <2>1. k \in 0..n /\ k - 1 \in 0..n /\ k \in 1..Len(parts) /\ k \in 1..Len(value)
    BY <1>1, <1>2
  <2>2. PICK rest \in Seq(Nat) :
          /\ rest = Rest(left, at[k - 1]) /\ Begins(rest, parts[k])
          /\ Rest(rest, Len(parts[k])) = Rest(left, at[k])
    BY <1>3, <1>4, <2>1, CutBegins
  <2>3. PICK entry \in Entry : entry = value[k] /\ Len(entry[1]) < StringLimit
    BY <1>1, <2>1
  <2>4. parts[k] = EntryCells(entry)
    BY <1>2, <2>3
  <2>5. PICK before : before = Upto(value, k - 1)
    OBVIOUS
  <2>6. Begins(rest, EntryCells(entry))
    BY <2>2, <2>4
  <2>7. ReadEntry(Cursor(rest, before))
          = Cursor(Rest(rest, Len(EntryCells(entry))), Append(before, entry))
    BY <2>3, <2>6, EntryBack
  <2>8. Append(before, entry) = Upto(value, k)
    BY <1>11, <2>1, <2>3, <2>5
  <2>9. f[k - 1] = Cursor(rest, before) /\ f[k] = Cursor(Rest(left, at[k]), Upto(value, k))
    BY <1>5, <2>1, <2>2, <2>5
  <2> QED
    BY <2>2, <2>4, <2>7, <2>8, <2>9
<1>8. EntryLoop(f, Cursor(left, << >>), n)
  <2>1. f = [k \in 0..n |-> f[k]]
    BY <1>5
  <2>2. \A k \in 0..n : f[k] = IF k = 0 THEN Cursor(left, << >>) ELSE ReadEntry(f[k - 1])
    <3>1. \A k \in 0..n : k = 0 \/ k \in 1..n
      BY <1>1
    <3> QED
      BY <1>6, <1>7, <3>1
  <2> QED
    BY <2>1, <2>2 DEF EntryLoop
<1>9. AllEntries(Cursor(left, << >>), n) = f[n]
  BY <1>8, EntryLoopIs
<1>10. f[n] = Cursor(Rest(left, Len(cells)), value)
  <2>1. at[n] = Len(cells) /\ n \in 0..n
    BY <1>1, <1>2, <1>3 DEF Cut
  <2>2. Upto(value, n) = value
    BY <1>1, <1>11
  <2> QED
    BY <1>5, <2>1, <2>2
<1> QED
  BY <1>1, <1>2, <1>3, <1>9, <1>10

-----------------------------------------------------------------------------
(* Fields and messages of every type *)

LEMMA KindsOf ==
  ASSUME NEW type \in DOMAIN Layout
  PROVE  Layout[type] \in Seq(Kind)
<1>1. /\ << >> \in Seq(Kind)
      /\ << "string", "string" >> \in Seq(Kind)
      /\ << "flag", "int", "string" >> \in Seq(Kind)
      /\ << "string" >> \in Seq(Kind)
      /\ << "entries" >> \in Seq(Kind)
      /\ << "int", "int", "string", "string", "string" >> \in Seq(Kind)
      /\ << "int", "int", "data" >> \in Seq(Kind)
      /\ << "int" >> \in Seq(Kind)
      /\ << "int", "int", "string", "string" >> \in Seq(Kind)
      /\ << "flag", "string" >> \in Seq(Kind)
  BY DEF Kind
<1>2. \A t \in DOMAIN LoginLayout : LoginLayout[t] \in Seq(Kind)
  <2>1. DOMAIN LoginLayout = {"PING", "PONG", "AUTH_REQUEST", "AUTH_RESPONSE"}
    BY DEF LoginLayout
  <2>2. /\ LoginLayout["PING"] = << >>
        /\ LoginLayout["PONG"] = << >>
        /\ LoginLayout["AUTH_REQUEST"] = << "string", "string" >>
        /\ LoginLayout["AUTH_RESPONSE"] = << "flag", "int", "string" >>
    BY DEF LoginLayout
  <2> QED
    BY <1>1, <2>1, <2>2
<1>3. \A t \in DOMAIN TextLayout : TextLayout[t] \in Seq(Kind)
  <2>1. DOMAIN TextLayout = {"ERROR", "SUCCESS", "LIST"}
    BY DEF TextLayout
  <2>2. /\ TextLayout["ERROR"] = << "string" >>
        /\ TextLayout["SUCCESS"] = << "string" >>
        /\ TextLayout["LIST"] = << "string" >>
    BY DEF TextLayout
  <2> QED
    BY <1>1, <2>1, <2>2
<1>4. \A t \in DOMAIN EntriesLayout : EntriesLayout[t] \in Seq(Kind)
  <2>1. DOMAIN EntriesLayout = {"LIST_RESPONSE"}
    BY DEF EntriesLayout
  <2>2. /\ EntriesLayout["LIST_RESPONSE"] = << "entries" >>
    BY DEF EntriesLayout
  <2> QED
    BY <1>1, <2>1, <2>2
<1>5. \A t \in DOMAIN UploadLayout : UploadLayout[t] \in Seq(Kind)
  <2>1. DOMAIN UploadLayout = {"UPLOAD_BEGIN", "UPLOAD_CHUNK", "UPLOAD_END"}
    BY DEF UploadLayout
  <2>2. /\ UploadLayout["UPLOAD_BEGIN"] = << "int", "int", "string", "string", "string" >>
        /\ UploadLayout["UPLOAD_CHUNK"] = << "int", "int", "data" >>
        /\ UploadLayout["UPLOAD_END"] = << "int" >>
    BY DEF UploadLayout
  <2> QED
    BY <1>1, <2>1, <2>2
<1>6. \A t \in DOMAIN DownloadLayout : DownloadLayout[t] \in Seq(Kind)
  <2>1. DOMAIN DownloadLayout = {"DOWNLOAD_REQUEST", "DOWNLOAD_BEGIN", "DOWNLOAD_CHUNK", "DOWNLOAD_END"}
    BY DEF DownloadLayout
  <2>2. /\ DownloadLayout["DOWNLOAD_REQUEST"] = << "string" >>
        /\ DownloadLayout["DOWNLOAD_BEGIN"] = << "int", "int", "string", "string" >>
        /\ DownloadLayout["DOWNLOAD_CHUNK"] = << "int", "int", "data" >>
        /\ DownloadLayout["DOWNLOAD_END"] = << "int" >>
    BY DEF DownloadLayout
  <2> QED
    BY <1>1, <2>1, <2>2
<1>7. \A t \in DOMAIN ChangeLayout : ChangeLayout[t] \in Seq(Kind)
  <2>1. DOMAIN ChangeLayout = {"DELETE_REQUEST", "DELETE_RESPONSE", "RENAME_REQUEST", "RENAME_RESPONSE", "MKDIR_REQUEST", "MKDIR_RESPONSE", "RMDIR_REQUEST", "RMDIR_RESPONSE"}
    BY DEF ChangeLayout
  <2>2. /\ ChangeLayout["DELETE_REQUEST"] = << "string" >>
        /\ ChangeLayout["DELETE_RESPONSE"] = << "flag", "string" >>
        /\ ChangeLayout["RENAME_REQUEST"] = << "string", "string" >>
        /\ ChangeLayout["RENAME_RESPONSE"] = << "flag", "string" >>
        /\ ChangeLayout["MKDIR_REQUEST"] = << "string" >>
        /\ ChangeLayout["MKDIR_RESPONSE"] = << "flag", "string" >>
        /\ ChangeLayout["RMDIR_REQUEST"] = << "string" >>
        /\ ChangeLayout["RMDIR_RESPONSE"] = << "flag", "string" >>
    BY DEF ChangeLayout
  <2> QED
    BY <1>1, <2>1, <2>2
<1>8. type \in DOMAIN LoginLayout \union DOMAIN TextLayout \union DOMAIN EntriesLayout
               \union DOMAIN UploadLayout \union DOMAIN DownloadLayout \union DOMAIN ChangeLayout
  BY Zenon DEF Layout
<1> QED
  BY <1>2, <1>3, <1>4, <1>5, <1>6, <1>7, <1>8 DEF Layout

\* What EncodeEntries writes: the number of entries and then the entries.
LEMMA EntriesAre ==
  ASSUME NEW value \in Seq(Entry)
  PROVE  /\ FlattenSeq(EntryParts(value)) \in Seq(Nat)
         /\ EncodeEntries(value) = << Len(value) >> \o FlattenSeq(EntryParts(value))
         /\ EncodeEntries(value) \in Seq(Nat)
         /\ Len(EncodeEntries(value)) = 1 + Len(FlattenSeq(EntryParts(value)))
<1>1. PICK n \in Nat : n = Len(value)
  OBVIOUS
<1>2. \A i \in 1..n : EntryCells(value[i]) \in Seq(Nat)
  <2>1. \A i \in 1..n : value[i] \in Entry
    BY <1>1
  <2> QED
    BY <2>1, EntryIsCells
<1>3. EntryParts(value) \in Seq(Seq(Nat))
  BY <1>1, <1>2 DEF EntryParts
<1>4. PICK cells \in Seq(Nat) : cells = FlattenSeq(EntryParts(value))
  BY <1>3, FlattenIsCut
<1>5. EncodeEntries(value) = << Len(value) >> \o cells
  <2>1. EncodeEntries(value) = << Len(value) >> \o FlattenSeq(EntryParts(value))
    BY Zenon DEF EncodeEntries, EntryParts, EntryCells
  <2> QED
    BY <1>4, <2>1
<1>6. PICK one \in Seq(Nat) : one = << n >> /\ Len(one) = 1
  <2>1. << n >> \in Seq(Nat) /\ Len(<< n >>) = 1
    OBVIOUS
  <2> QED
    BY <2>1, Zenon
<1>7. one \o cells \in Seq(Nat) /\ Len(one \o cells) = Len(one) + Len(cells)
  BY ConcatHolds
<1> QED
  BY <1>1, <1>4, <1>5, <1>6, <1>7

LEMMA EncodeIs ==
  ASSUME NEW kind \in Kind, NEW value, IsValue(kind, value)
  PROVE  Encode(kind, value) \in Seq(Nat)
<1>1. CASE kind = "int"
  <2>1. PICK v \in Nat : v = value
    BY <1>1 DEF IsValue
  <2>2. << v >> \in Seq(Nat)
    OBVIOUS
  <2> QED
    BY <1>1, <2>1, <2>2 DEF Encode
<1>2. CASE kind = "flag"
  <2>1. PICK bit \in Nat : bit = Bit(value)
    BY DEF Bit
  <2>2. << bit >> \in Seq(Nat)
    OBVIOUS
  <2> QED
    BY <1>2, <2>1, <2>2 DEF Encode
<1>3. CASE kind = "string"
  <2>1. value \in Seq(Nat)
    BY <1>3 DEF IsValue
  <2>2. EncodeString(value) \in Seq(Nat)
    BY <2>1, EncodedIsCells
  <2> QED
    BY <1>3, <2>2 DEF Encode
<1>4. CASE kind = "data"
  <2>1. value \in Seq(Nat)
    BY <1>4 DEF IsValue
  <2>2. PICK one \in Seq(Nat) : one = << Len(value) >>
    <3>1. << Len(value) >> \in Seq(Nat)
      BY <2>1
    <3> QED
      BY <3>1
  <2>3. one \o value \in Seq(Nat)
    BY <2>1, ConcatHolds, Zenon
  <2> QED
    BY <1>4, <2>2, <2>3 DEF Encode
<1>5. CASE kind = "entries"
  <2>1. value \in Seq(Entry)
    BY <1>5 DEF IsValue, Entry
  <2>2. EncodeEntries(value) \in Seq(Nat)
    BY <2>1, EntriesAre
  <2> QED
    BY <1>5, <2>2 DEF Encode
<1> QED
  BY <1>1, <1>2, <1>3, <1>4, <1>5 DEF Kind

\* A field whose strings are short is read back, whatever comes behind it.
LEMMA FieldBack ==
  ASSUME NEW left \in Seq(Nat), NEW fields, NEW kind \in Kind, NEW value,
         IsValue(kind, value), Short(kind, value), Begins(left, Encode(kind, value))
  PROVE  Read(Cursor(left, fields), kind)
           = Cursor(Rest(left, Len(Encode(kind, value))), Append(fields, value))
<1>1. CASE kind = "int"
  <2>1. Encode(kind, value) = << value >> /\ Len(<< value >>) = 1
    BY <1>1 DEF Encode
  <2>2. Begins(left, << value >>)
    BY <2>1
  <2>3. ReadInt(Cursor(left, fields)) = Cursor(Rest(left, 1), Append(fields, value))
    BY <2>2, IntBack
  <2> QED
    BY <1>1, <2>1, <2>3 DEF Read
<1>2. CASE kind = "flag"
  <2>1. Encode(kind, value) = << Bit(value) >> /\ Len(<< Bit(value) >>) = 1
    BY <1>2 DEF Encode
  <2>2. Begins(left, << Bit(value) >>) /\ value \in BOOLEAN
    BY <1>2, <2>1 DEF IsValue
  <2>3. ReadFlag(Cursor(left, fields)) = Cursor(Rest(left, 1), Append(fields, value))
    BY <2>2, FlagBack
  <2> QED
    BY <1>2, <2>1, <2>3 DEF Read
<1>3. CASE kind = "string"
  <2>1. value \in Seq(Nat) /\ Len(value) < StringLimit
    BY <1>3 DEF IsValue, Short
  <2>2. Encode(kind, value) = << Len(value) >> \o value
    BY <1>3, <2>1, StringIs DEF Encode
  <2>3. Begins(left, << Len(value) >> \o value)
    BY <2>2
  <2>4. /\ ReadString(Cursor(left, fields)) = Cursor(Rest(left, 1 + Len(value)), Append(fields, value))
        /\ Len(<< Len(value) >> \o value) = 1 + Len(value)
    BY <2>1, <2>3, CellsBack
  <2> QED
    BY <1>3, <2>2, <2>4 DEF Read
<1>4. CASE kind = "data"
  <2>1. value \in Seq(Nat) /\ Encode(kind, value) = << Len(value) >> \o value
    BY <1>4 DEF IsValue, Encode
  <2>3. Begins(left, << Len(value) >> \o value)
    BY <2>1
  <2>4. /\ ReadString(Cursor(left, fields)) = Cursor(Rest(left, 1 + Len(value)), Append(fields, value))
        /\ Len(<< Len(value) >> \o value) = 1 + Len(value)
    BY <2>1, <2>3, CellsBack
  <2> QED
    BY <1>4, <2>1, <2>4 DEF Read, ReadData
<1>5. CASE kind = "entries"
  <2>1. value \in Seq(Entry) /\ \A i \in 1..Len(value) : Len(value[i][1]) < StringLimit
    BY <1>5 DEF IsValue, Entry, Short
  <2>2. PICK n \in Nat : n = Len(value)
    BY <2>1
  <2>3. PICK flat \in Seq(Nat) : flat = FlattenSeq(EntryParts(value))
    BY <2>1, EntriesAre
  <2>4. Encode(kind, value) = << n >> \o flat /\ Len(Encode(kind, value)) = 1 + Len(flat)
    BY <1>5, <2>1, <2>2, <2>3, EntriesAre DEF Encode
  <2>5. PICK one \in Seq(Nat) : one = << n >> /\ Len(one) = 1 /\ one[1] = n
    <3>1. << n >> \in Seq(Nat) /\ Len(<< n >>) = 1 /\ << n >>[1] = n
      OBVIOUS
    <3> QED
      BY <3>1, Zenon
  <2>6. Begins(left, one \o flat)
    BY <2>4, <2>5
  <2>7. Begins(left, one) /\ Begins(Rest(left, 1), flat) /\ Rest(left, 1) \in Seq(Nat)
        /\ 1 + Len(flat) <= Len(left)
    BY <2>5, <2>6, BeginsTwo
  <2>8. Len(left) >= 1 /\ Head(left) = n /\ Tail(left) = Rest(left, 1)
    BY <2>5, <2>7 DEF Begins, Rest
  <2>9. PICK behind \in Seq(Nat) : behind = Rest(left, 1) /\ Begins(behind, flat)
    BY <2>7
  <2>10. AllEntries(Cursor(behind, << >>), n) = Cursor(Rest(behind, Len(flat)), value)
    BY <2>1, <2>2, <2>3, <2>9, EntriesBack
  <2>11. Rest(behind, Len(flat)) = Rest(left, 1 + Len(flat))
    <3>1. 1 \in 0..Len(left) /\ Len(flat) \in 0..(Len(left) - 1)
      BY <2>7
    <3> QED
      BY <2>9, <3>1, RestHolds
  <2>12. PICK inner : inner = Cursor(Rest(left, 1 + Len(flat)), value)
    OBVIOUS
  <2>13. AllEntries(Start(Tail(left)), Head(left)) = inner
    BY <2>8, <2>9, <2>10, <2>11, <2>12 DEF Start, Cursor
  <2>14. PICK cursor : cursor = Cursor(left, fields)
    OBVIOUS
  <2>15. Fits(cursor, 1) /\ cursor.left = left /\ cursor.fields = fields /\ inner.fields = value
    <3>1. cursor.left = left /\ cursor.fields = fields /\ (Fits(cursor, 1) <=> Len(left) >= 1)
      BY <2>14, FitsIs
    <3>2. inner.fields = value
      BY <2>12 DEF Cursor
    <3> QED
      BY <2>8, <3>1, <3>2
  <2>16. ReadEntries(cursor) = [inner EXCEPT !.fields = Append(fields, value)]
    BY <2>13, <2>15 DEF ReadEntries
  <2>17. [inner EXCEPT !.fields = Append(fields, value)]
           = Cursor(Rest(left, 1 + Len(flat)), Append(fields, value))
    BY <2>12, FieldsReplaced
  <2> QED
    BY <1>5, <2>4, <2>14, <2>16, <2>17 DEF Read
<1> QED
  BY <1>1, <1>2, <1>3, <1>4, <1>5 DEF Kind

\* The cells of the fields of a message.
FieldParts(message) ==
  LET kinds == Layout[message.type] IN
  [i \in 1..Len(kinds) |-> Encode(kinds[i], message.fields[i])]

LEMMA BuildIs ==
  ASSUME NEW message, IsMessage(message)
  PROVE  /\ Build(message).type = message.type
         /\ Build(message).payload = FlattenSeq(FieldParts(message))
         /\ FieldParts(message) \in Seq(Seq(Nat))
         /\ Len(FieldParts(message)) = Len(Layout[message.type])
         /\ Build(message).payload \in Seq(Nat)
<1>1. PICK kinds \in Seq(Kind) : kinds = Layout[message.type]
  BY KindsOf DEF IsMessage
<1>2. PICK n \in Nat : n = Len(kinds)
  OBVIOUS
<1>3. \A i \in 1..n : Encode(kinds[i], message.fields[i]) \in Seq(Nat)
  <2>1. TAKE i \in 1..n
  <2>2. kinds[i] \in Kind
    BY <1>2
  <2>3. IsValue(kinds[i], message.fields[i])
    BY <1>1, <1>2 DEF IsMessage
  <2> QED
    BY <2>2, <2>3, EncodeIs
<1>4. FieldParts(message) = [i \in 1..n |-> Encode(kinds[i], message.fields[i])]
  BY <1>1, <1>2 DEF FieldParts
<1>5. FieldParts(message) \in Seq(Seq(Nat)) /\ Len(FieldParts(message)) = n
  BY <1>3, <1>4
<1>6. Build(message).type = message.type /\ Build(message).payload = FlattenSeq(FieldParts(message))
  BY DEF Build, FieldParts
<1>7. FlattenSeq(FieldParts(message)) \in Seq(Nat)
  BY <1>5, FlattenIsCut
<1> QED
  BY <1>1, <1>2, <1>5, <1>6, <1>7

Legible(message) ==
  LET kinds == Layout[message.type] IN
  \A k \in 1..Len(kinds) : Short(kinds[k], message.fields[k])

\* The parser of a type of packet inverts its builder.
LEMMA MessageBack ==
  ASSUME NEW message, IsMessage(message), Legible(message)
  PROVE  Parse(Build(message)) = Cursor(<< >>, message.fields)
<1>1. PICK kinds \in Seq(Kind) : kinds = Layout[message.type]
  BY KindsOf DEF IsMessage
<1>2. PICK n \in Nat : n = Len(kinds)
  OBVIOUS
<1>3. PICK parts \in Seq(Seq(Nat)) :
        /\ parts = FieldParts(message) /\ Len(parts) = n
        /\ \A k \in 1..n : parts[k] = Encode(kinds[k], message.fields[k])
  <2>1. \A k \in 1..n : FieldParts(message)[k] = Encode(kinds[k], message.fields[k])
    BY <1>1, <1>2 DEF FieldParts
  <2> QED
    BY <1>1, <1>2, <2>1, BuildIs
<1>4. PICK cells \in Seq(Nat) : cells = FlattenSeq(parts) /\ \E at : Cut(cells, parts, at)
  BY FlattenIsCut
<1>5. PICK at : Cut(cells, parts, at)
  BY <1>4
<1>6. Build(message).payload = cells /\ Layout[Build(message).type] = kinds
  BY <1>1, <1>3, <1>4, BuildIs
<1>16. PICK U : U = { message.fields[k] : k \in 1..n }
  OBVIOUS
<1>7. PICK fields \in Seq(U) : fields = message.fields /\ Len(fields) = n
  <2>1. message.fields = [k \in 1..n |-> message.fields[k]]
    BY <1>1, <1>2 DEF IsMessage
  <2>2. PICK g : g = message.fields
    OBVIOUS
  <2>3. \A k \in 1..n : g[k] \in U
    BY <1>16, <2>2
  <2>4. g = [k \in 1..n |-> g[k]]
    BY <2>1, <2>2
  <2>5. [k \in 1..n |-> g[k]] \in Seq(U) /\ Len([k \in 1..n |-> g[k]]) = n
    BY <2>3
  <2>6. g \in Seq(U) /\ Len(g) = n
    BY <2>4, <2>5, Zenon
  <2> QED
    BY <2>2, <2>6
<1>8. /\ Upto(fields, 0) = << >> /\ Upto(fields, Len(fields)) = fields
      /\ \A k \in 1..Len(fields) : Append(Upto(fields, k - 1), fields[k]) = Upto(fields, k)
  BY UptoGrows
<1>9. PICK f : f = [k \in 0..n |-> Cursor(Rest(cells, at[k]), Upto(fields, k))]
  OBVIOUS
<1>10. Begins(cells, cells)
  BY DEF Begins
<1>11. f[0] = Start(cells)
  <2>1. at[0] = 0 /\ 0 \in 0..n /\ 0 \in 0..Len(cells)
    BY <1>3, <1>5 DEF Cut
  <2>2. Rest(cells, 0) = cells
    BY <2>1, RestHolds
  <2> QED
    BY <1>8, <1>9, <2>1, <2>2 DEF Start, Cursor
<1>12. ASSUME NEW k \in 1..n PROVE f[k] = Read(f[k - 1], kinds[k])
  <2>1. k \in 0..n /\ k - 1 \in 0..n /\ k \in 1..Len(parts) /\ k \in 1..Len(fields) /\ k \in 1..Len(kinds)
    BY <1>2, <1>3, <1>7
  <2>2. PICK rest \in Seq(Nat) :
          /\ rest = Rest(cells, at[k - 1]) /\ Begins(rest, parts[k])
          /\ Rest(rest, Len(parts[k])) = Rest(cells, at[k])
    BY <1>5, <1>10, <2>1, CutBegins
  <2>11. PICK value : value = fields[k]
    OBVIOUS
  <2>12. PICK kind \in Kind : kind = kinds[k]
    BY <2>1
  <2>3. kind = kinds[k] /\ value = fields[k]
    BY <2>11, <2>12
  <2>4. IsValue(kind, value) /\ Short(kind, value)
    BY <1>1, <1>2, <1>7, <2>3 DEF IsMessage, Legible
  <2>5. parts[k] = Encode(kind, value)
    BY <1>3, <1>7, <2>3
  <2>6. PICK before : before = Upto(fields, k - 1)
    OBVIOUS
  <2>7. Begins(rest, Encode(kind, value))
    BY <2>2, <2>5
  <2>8. Read(Cursor(rest, before), kind)
          = Cursor(Rest(rest, Len(Encode(kind, value))), Append(before, value))
    BY <2>4, <2>7, FieldBack
  <2>9. Append(before, value) = Upto(fields, k)
    BY <1>8, <2>1, <2>3, <2>6
  <2>10. f[k - 1] = Cursor(rest, before) /\ f[k] = Cursor(Rest(cells, at[k]), Upto(fields, k))
    BY <1>9, <2>1, <2>2, <2>6
  <2> QED
    BY <2>2, <2>3, <2>5, <2>8, <2>9, <2>10
<1>13. FieldLoop(f, kinds, cells)
  <2>1. f = [k \in 0..n |-> f[k]]
    BY <1>9
  <2>2. \A k \in 0..n : f[k] = IF k = 0 THEN Start(cells) ELSE Read(f[k - 1], kinds[k])
    <3>1. \A k \in 0..n : k = 0 \/ k \in 1..n
      BY <1>2
    <3> QED
      BY <1>11, <1>12, <3>1
  <2> QED
    BY <1>2, <2>1, <2>2 DEF FieldLoop
<1>14. Parse(Build(message)) = f[n]
  <2>1. PICK packet : packet = Build(message)
    OBVIOUS
  <2>2. kinds = Layout[packet.type] /\ Len(kinds) \in Nat /\ FieldLoop(f, kinds, packet.payload)
    BY <1>6, <1>13, <2>1
  <2>3. Parse(packet) = f[Len(kinds)]
    BY <2>2, FieldLoopIs
  <2> QED
    BY <1>2, <2>1, <2>3
<1>15. f[n] = Cursor(<< >>, message.fields)
  <2>1. at[n] = Len(cells) /\ n \in 0..n
    BY <1>2, <1>3, <1>5 DEF Cut
  <2>2. Rest(cells, Len(cells)) = << >>
    <3>1. Len(cells) \in 0..Len(cells)
      OBVIOUS
    <3> QED
      BY <3>1, RestHolds
  <2>3. Upto(fields, n) = message.fields
    BY <1>7, <1>8
  <2> QED
    BY <1>9, <2>1, <2>2, <2>3
<1> QED
  BY <1>14, <1>15

-----------------------------------------------------------------------------
(* Sequences in a row. *)

LEMMA SameSequence ==
  ASSUME NEW U, NEW s \in Seq(U), NEW t \in Seq(U), Len(s) = Len(t),
         \A i \in 1..Len(s) : s[i] = t[i]
  PROVE  s = t
OBVIOUS

LEMMA EmptyConcat ==
  ASSUME NEW U, NEW s \in Seq(U)
  PROVE  << >> \o s = s /\ s \o << >> = s
OBVIOUS

LEMMA SplitAt ==
  ASSUME NEW U, NEW s \in Seq(U), NEW n \in 0..Len(s)
  PROVE  /\ SubSeq(s, 1, n) \in Seq(U) /\ Len(SubSeq(s, 1, n)) = n
         /\ SubSeq(s, 1, n) \o Rest(s, n) = s
<1>1. PICK size \in Nat : size = Len(s) /\ n \in 0..size
  OBVIOUS
<1>2. PICK a \in Seq(U) : a = SubSeq(s, 1, n) /\ Len(a) = n /\ \A i \in 1..n : a[i] = s[i]
  <2>1. SubSeq(s, 1, n) \in Seq(U) /\ Len(SubSeq(s, 1, n)) = n /\ \A i \in 1..n : SubSeq(s, 1, n)[i] = s[i]
    OBVIOUS
  <2> QED
    BY <2>1, Zenon
<1>3. PICK b \in Seq(U) : b = Rest(s, n) /\ Len(b) = size - n /\ \A i \in 1..(size - n) : b[i] = s[n + i]
  BY <1>1, RestHolds
<1>4. PICK t \in Seq(U) : t = a \o b
  BY ConcatHolds, Zenon
<1>5. /\ Len(t) = Len(a) + Len(b) /\ \A i \in 1..Len(a) : t[i] = a[i]
      /\ \A i \in 1..Len(b) : t[Len(a) + i] = b[i]
  BY <1>4, ConcatHolds
<1>6. Len(t) = size /\ (\A i \in 1..n : t[i] = s[i]) /\ \A i \in 1..(size - n) : t[n + i] = s[n + i]
  BY <1>1, <1>2, <1>3, <1>5
<1>7. \A i \in 1..size : i \in 1..n \/ (i - n \in 1..(size - n) /\ n + (i - n) = i)
  BY <1>1
<1>8. \A i \in 1..size : t[i] = s[i]
  BY <1>6, <1>7
<1>9. t = s
  BY <1>1, <1>6, <1>8
<1> QED
  BY <1>2, <1>3, <1>4, <1>9

LEMMA RestOfConcat ==
  ASSUME NEW U, NEW s \in Seq(U), NEW t \in Seq(U), NEW n \in 0..Len(s)
  PROVE  Rest(s \o t, n) = Rest(s, n) \o t /\ Rest(s \o t, Len(s)) = t
<1>1. PICK a \in Nat, b \in Nat : a = Len(s) /\ b = Len(t) /\ n \in 0..a
  OBVIOUS
<1>2. PICK all \in Seq(U) : all = s \o t
  BY ConcatHolds, Zenon
<1>3. /\ Len(all) = a + b /\ \A i \in 1..a : all[i] = s[i]
      /\ \A i \in 1..b : all[a + i] = t[i]
  BY <1>1, <1>2, ConcatHolds
<1>4. ASSUME NEW k \in 0..a PROVE Rest(all, k) = Rest(s, k) \o t
  <2>1. k \in 0..Len(all) /\ k \in 0..Len(s)
    BY <1>1, <1>3
  <2>5. PICK d \in Nat : d = a - k /\ k + d = a /\ a + b - k = d + b
    BY <1>4
  <2>2. PICK l \in Seq(U) :
          l = Rest(all, k) /\ Len(l) = d + b /\ \A i \in 1..(d + b) : l[i] = all[k + i]
    <3>1. /\ Rest(all, k) \in Seq(U) /\ Len(Rest(all, k)) = Len(all) - k
          /\ \A i \in 1..(Len(all) - k) : Rest(all, k)[i] = all[k + i]
      BY <2>1, RestHolds
    <3>2. Len(all) - k = d + b
      BY <1>3, <2>5
    <3> QED
      BY <3>1, <3>2
  <2>3. PICK old \in Seq(U) :
          old = Rest(s, k) /\ Len(old) = d /\ \A i \in 1..d : old[i] = s[k + i]
    <3>1. /\ Rest(s, k) \in Seq(U) /\ Len(Rest(s, k)) = Len(s) - k
          /\ \A i \in 1..(Len(s) - k) : Rest(s, k)[i] = s[k + i]
      BY <2>1, RestHolds
    <3>2. Len(s) - k = d
      BY <1>1, <2>5
    <3> QED
      BY <3>1, <3>2
  <2>4. PICK r \in Seq(U) : r = old \o t
    BY ConcatHolds, Zenon
  <2>6. /\ Len(r) = d + b /\ \A i \in 1..d : r[i] = old[i]
        /\ \A i \in 1..b : r[d + i] = t[i]
    <3>1. /\ Len(old \o t) = Len(old) + Len(t)
          /\ \A i \in 1..Len(old) : (old \o t)[i] = old[i]
          /\ \A i \in 1..Len(t) : (old \o t)[Len(old) + i] = t[i]
      BY ConcatHolds
    <3> QED
      BY <1>1, <2>3, <2>4, <3>1
  <2>7. \A i \in 1..d : l[i] = r[i]
    <3> TAKE i \in 1..d
    <3>1. i \in 1..(d + b) /\ k + i \in 1..a
      BY <2>5
    <3>2. l[i] = all[k + i]
      BY <2>2, <3>1, Zenon
    <3>3. all[k + i] = s[k + i]
      BY <1>3, <3>1, Zenon
    <3>4. r[i] = s[k + i]
      BY <2>3, <2>6, Zenon
    <3> QED
      BY <3>2, <3>3, <3>4, Zenon
  <2>8. \A i \in 1..b : l[d + i] = r[d + i]
    <3> TAKE i \in 1..b
    <3>1. d + i \in 1..(d + b) /\ k + (d + i) = a + i
      BY <2>5
    <3>2. l[d + i] = all[a + i]
      BY <2>2, <3>1, Zenon
    <3>3. all[a + i] = t[i]
      BY <1>3, Zenon
    <3>4. r[d + i] = t[i]
      BY <2>6, Zenon
    <3> QED
      BY <3>2, <3>3, <3>4, Zenon
  <2>9. \A i \in 1..(d + b) : i \in 1..d \/ (i - d \in 1..b /\ d + (i - d) = i)
    OBVIOUS
  <2>10. Len(l) = d + b /\ \A i \in 1..(d + b) : l[i] = r[i]
    BY <2>2, <2>7, <2>8, <2>9
  <2>11. l = r
    BY <2>6, <2>10
  <2> QED
    BY <2>2, <2>3, <2>4, <2>11
<1>5. Rest(all, n) = Rest(s, n) \o t
  BY <1>1, <1>4
<1>6. Rest(all, a) = t
  <2>1. Rest(all, a) = Rest(s, a) \o t
    BY <1>4
  <2>2. Rest(s, a) = << >>
    <3>1. Len(s) \in 0..Len(s)
      OBVIOUS
    <3> QED
      BY <1>1, <3>1, RestHolds
  <2> QED
    BY <2>1, <2>2, EmptyConcat
<1> QED
  BY <1>1, <1>2, <1>5, <1>6

\* One more part at the end.
LEMMA CutGrows ==
  ASSUME NEW U, NEW parts \in Seq(Seq(U)), NEW cells \in Seq(U), NEW at, Cut(cells, parts, at),
         NEW part \in Seq(U)
  PROVE  \E longer : /\ Cut(cells \o part, Append(parts, part), longer)
                     /\ \A i \in 0..Len(parts) : longer[i] = at[i]
<1>1. PICK n \in Nat, m \in Nat, size \in Nat : n = Len(parts) /\ m = Len(cells) /\ size = Len(part)
  OBVIOUS
<1>2. PICK all \in Seq(U) : all = cells \o part
  BY ConcatHolds, Zenon
<1>3. /\ Len(all) = m + size /\ \A i \in 1..m : all[i] = cells[i]
      /\ \A i \in 1..size : all[m + i] = part[i]
  BY <1>1, <1>2, ConcatHolds
<1>4. PICK more \in Seq(Seq(U)) :
        /\ more = Append(parts, part) /\ Len(more) = n + 1 /\ more[n + 1] = part
        /\ \A i \in 1..n : more[i] = parts[i]
  <2>1. PICK V : V = Seq(U)
    OBVIOUS
  <2>2. parts \in Seq(V) /\ part \in V
    BY <2>1
  <2>3. /\ Append(parts, part) \in Seq(V) /\ Len(Append(parts, part)) = Len(parts) + 1
        /\ Append(parts, part)[Len(parts) + 1] = part
        /\ \A i \in 1..Len(parts) : Append(parts, part)[i] = parts[i]
    BY <2>2
  <2> QED
    BY <1>1, <2>1, <2>3
<1>5. PICK longer : longer = [i \in 0..(n + 1) |-> IF i <= n THEN at[i] ELSE m + size]
  OBVIOUS
<1>6. /\ at \in [0..n -> 0..m] /\ at[0] = 0 /\ at[n] = m
      /\ \A i \in 1..n : /\ at[i] = at[i - 1] + Len(parts[i])
                         /\ \A j \in 1..Len(parts[i]) : cells[at[i - 1] + j] = parts[i][j]
  BY <1>1 DEF Cut
<1>7. (\A i \in 0..n : longer[i] = at[i]) /\ longer[n + 1] = m + size
  BY <1>5
<1>8. longer \in [0..(n + 1) -> 0..(m + size)]
  <2>1. \A i \in 0..n : at[i] \in 0..m
    BY <1>6
  <2>2. \A i \in 0..n : at[i] \in 0..(m + size)
    BY <2>1
  <2>3. m + size \in 0..(m + size)
    OBVIOUS
  <2>4. \A i \in 0..(n + 1) : (IF i <= n THEN at[i] ELSE m + size) \in 0..(m + size)
    BY <2>2, <2>3
  <2> QED
    BY <1>5, <2>4
<1>9. ASSUME NEW i \in 1..(n + 1)
      PROVE  /\ longer[i] = longer[i - 1] + Len(more[i])
             /\ \A j \in 1..Len(more[i]) : all[longer[i - 1] + j] = more[i][j]
  <2>1. CASE i = n + 1
    <3>1. i - 1 = n /\ longer[i - 1] = m /\ longer[i] = m + size /\ more[i] = part
      BY <1>4, <1>6, <1>7, <2>1
    <3> QED
      BY <1>1, <1>3, <3>1
  <2>2. CASE i # n + 1
    <3>1. i \in 1..n /\ i \in 0..n /\ i - 1 \in 0..n
      BY <2>2
    <3>2. PICK a \in 0..m, b \in 0..m : a = at[i - 1] /\ b = at[i]
      BY <1>6, <3>1
    <3>3. PICK p \in Seq(U), l \in Nat : p = parts[i] /\ l = Len(p)
      BY <1>1, <3>1
    <3>4. b = a + l /\ \A j \in 1..l : cells[a + j] = p[j]
      BY <1>6, <3>1, <3>2, <3>3
    <3>5. \A j \in 1..l : a + j \in 1..m
      BY <3>4
    <3>6. \A j \in 1..l : all[a + j] = p[j]
      BY <1>3, <3>4, <3>5
    <3>7. longer[i - 1] = a /\ longer[i] = b /\ more[i] = p
      BY <1>4, <1>7, <3>1, <3>2, <3>3
    <3> QED
      BY <3>3, <3>4, <3>6, <3>7
  <2> QED
    BY <2>1, <2>2
<1>10. longer[0] = 0
  BY <1>6, <1>7
<1>11. Cut(all, more, longer)
  BY <1>3, <1>4, <1>7, <1>8, <1>9, <1>10 DEF Cut
<1> QED
  BY <1>1, <1>2, <1>4, <1>7, <1>11

-----------------------------------------------------------------------------
(* Frames *)

\* A header holds a type and a size.
Cell == Nat \union DOMAIN Layout

\* With names of their own, for the provers to treat them as wholes.
Cells == Seq(Cell)

Then(a, b) == a \o b

LEMMA ThenHolds ==
  /\ \A a, b \in Cells : Then(a, b) \in Cells
  /\ \A a, b, c \in Cells : Then(Then(a, b), c) = Then(a, Then(b, c))
BY DEF Then, Cells

Packet == [type : DOMAIN Layout, payload : Seq(Nat)]

Frame(message) == Serialize(Build(message))

LEMMA FrameIs ==
  ASSUME NEW message, IsMessage(message)
  PROVE  /\ Build(message) \in Packet
         /\ Frame(message) \in Seq(Cell)
         /\ Len(Frame(message)) = HeaderSize + Len(Build(message).payload)
         /\ Frame(message)[1] = message.type
         /\ Frame(message)[2] = Len(Build(message).payload)
         /\ Rest(Frame(message), HeaderSize) = Build(message).payload
<1>1. PICK type \in DOMAIN Layout : type = message.type /\ Build(message).type = type
  BY BuildIs DEF IsMessage
<1>2. PICK payload \in Seq(Nat) : payload = Build(message).payload
  BY BuildIs
<1>3. PICK size \in Nat : size = Len(payload)
  OBVIOUS
<1>4. payload \in Seq(Cell)
  BY DEF Cell
<1>5. type \in Cell /\ size \in Cell
  BY DEF Cell
<1>6. PICK head \in Seq(Cell) : head = << type, size >> /\ Len(head) = 2 /\ head[1] = type /\ head[2] = size
  <2>1. << type, size >> \in Seq(Cell) /\ Len(<< type, size >>) = 2
        /\ << type, size >>[1] = type /\ << type, size >>[2] = size
    BY <1>5
  <2> QED
    BY <2>1, Zenon
<1>7. Frame(message) = head \o payload
  BY <1>1, <1>2, <1>3, <1>6 DEF Frame, Serialize
<1>8. PICK frame \in Seq(Cell) : frame = head \o payload
  BY <1>4, ConcatHolds, Zenon
<1>9. Len(frame) = 2 + size /\ frame[1] = type /\ frame[2] = size
  <2>1. Len(frame) = Len(head) + Len(payload) /\ \A i \in 1..Len(head) : frame[i] = head[i]
    BY <1>4, <1>8, ConcatHolds
  <2> QED
    BY <1>3, <1>6, <2>1
<1>10. Rest(frame, 2) = payload
  <2>1. Rest(head \o payload, Len(head)) = payload
    <3>1. Len(head) \in 0..Len(head)
      OBVIOUS
    <3> QED
      BY <1>4, <3>1, RestOfConcat
  <2> QED
    BY <1>6, <1>8, <2>1
<1>11. Build(message) \in Packet
  BY <1>1, <1>2 DEF Build, Packet
<1> QED
  BY <1>1, <1>2, <1>3, <1>7, <1>8, <1>9, <1>10, <1>11 DEF HeaderSize

\* What is left behind the frames that are over, if anything, begins with the next.
LEMMA NextFrame ==
  ASSUME NEW U, NEW all \in Seq(U), NEW frames \in Seq(Seq(U)), NEW at, Cut(all, frames, at),
         NEW r \in 0..Len(frames), Rest(all, at[r]) # << >>
  PROVE  /\ r + 1 \in 1..Len(frames)
         /\ Begins(Rest(all, at[r]), frames[r + 1])
         /\ Rest(Rest(all, at[r]), Len(frames[r + 1])) = Rest(all, at[r + 1])
<1>1. r # Len(frames)
  <2>1. SUFFICES ASSUME r = Len(frames) PROVE FALSE
    OBVIOUS
  <2>2. at[r] = Len(all)
    BY <2>1 DEF Cut
  <2>3. Len(all) \in 0..Len(all)
    OBVIOUS
  <2>4. Rest(all, Len(all)) = << >>
    BY <2>3, RestHolds
  <2> QED
    BY <2>2, <2>4
<1>2. r + 1 \in 1..Len(frames) /\ (r + 1) - 1 = r
  BY <1>1
<1>3. Begins(all, all)
  BY DEF Begins
<1>4. PICK k \in 1..Len(frames) : k = r + 1 /\ k - 1 = r
  BY <1>2
<1>5. /\ Begins(Rest(all, at[k - 1]), frames[k])
      /\ Rest(Rest(all, at[k - 1]), Len(frames[k])) = Rest(all, at[k])
  BY <1>3, CutBegins
<1> QED
  BY <1>4, <1>5

\* A header, and as many cells as it says, are the packet whose frame they begin.
LEMMA Completes ==
  ASSUME NEW message, IsMessage(message), NEW got \in Seq(Cell), NEW more \in Seq(Cell),
         Begins(got \o more, Frame(message)), Len(got) >= HeaderSize
  PROVE  /\ got[1] = message.type /\ got[2] = Len(Build(message).payload)
         /\ Len(got) = HeaderSize + got[2]
            => /\ [type |-> got[1], payload |-> Rest(got, HeaderSize)] = Build(message)
               /\ Rest(got \o more, Len(Frame(message))) = more
<1>1. PICK frame \in Seq(Cell), size \in Nat :
        /\ frame = Frame(message) /\ Len(frame) = 2 + size
        /\ frame[1] = message.type /\ frame[2] = size /\ size = Len(Build(message).payload)
        /\ Rest(frame, 2) = Build(message).payload
  <2>1. PICK size \in Nat : size = Len(Build(message).payload)
    BY BuildIs
  <2>2. PICK frame \in Seq(Cell) : frame = Frame(message)
    BY FrameIs
  <2> QED
    BY <2>1, <2>2, FrameIs DEF HeaderSize
<1>2. PICK n \in Nat : n = Len(got) /\ n >= 2
  BY DEF HeaderSize
<1>3. PICK all \in Seq(Cell) : all = got \o more
  BY ConcatHolds, Zenon
<1>4. Len(all) = n + Len(more) /\ \A i \in 1..n : all[i] = got[i]
  BY <1>2, <1>3, ConcatHolds
<1>5. \A j \in 1..(2 + size) : all[j] = frame[j]
  BY <1>1, <1>3 DEF Begins
<1>6. got[1] = message.type /\ got[2] = size
  <2>1. 1 \in 1..n /\ 2 \in 1..n /\ 1 \in 1..(2 + size) /\ 2 \in 1..(2 + size)
    BY <1>2
  <2> QED
    BY <1>1, <1>4, <1>5, <2>1
<1>7. ASSUME n = 2 + size
      PROVE  /\ [type |-> got[1], payload |-> Rest(got, HeaderSize)] = Build(message)
             /\ Rest(got \o more, Len(Frame(message))) = more
  <2>1. got = frame
    <3>1. \A j \in 1..n : got[j] = frame[j]
      BY <1>4, <1>5, <1>7
    <3>2. Len(got) = Len(frame) /\ \A j \in 1..Len(got) : got[j] = frame[j]
      BY <1>1, <1>2, <1>7, <3>1
    <3> QED
      BY <3>2, SameSequence, Zenon
  <2>2. Rest(got, HeaderSize) = Build(message).payload
    BY <1>1, <2>1 DEF HeaderSize
  <2>3. [type |-> message.type, payload |-> Build(message).payload] = Build(message)
    BY DEF Build
  <2>4. Rest(got \o more, Len(got)) = more
    <3>1. Len(got) \in 0..Len(got)
      OBVIOUS
    <3> QED
      BY <3>1, RestOfConcat
  <2> QED
    BY <1>1, <1>6, <2>1, <2>2, <2>3, <2>4
<1> QED
  BY <1>1, <1>2, <1>6, <1>7 DEF HeaderSize

-----------------------------------------------------------------------------
(***************************************************************************)
(* The invariant: what the reader holds, what is in flight, what is still  *)
(* to be written and what was lost when the writer closed are, in a row,   *)
(* the frames of the messages that were asked for and not yet received.    *)
(***************************************************************************)
Frames == [i \in 1..Len(asked) |-> Frame(asked[i])]

OnTheWay(lost) == header \o (partial \o (stream \o (writing \o lost)))

\* at says where in `all` the frames end.
Carried(all, at, lost) ==
  /\ all \in Seq(Cell) /\ lost \in Seq(Cell)
  /\ Cut(all, Frames, at)
  /\ Rest(all, at[Len(received)]) = OnTheWay(lost)
  /\ writer = "open" => lost = << >>

BuffersOK ==
  /\ writing \in Seq(Cell) /\ stream \in Seq(Cell)
  /\ header \in Seq(Cell) /\ partial \in Seq(Cell)
  /\ Len(stream) <= Window
  /\ header = << >> => Len(partial) < HeaderSize
  /\ header # << >> => /\ Len(header) = HeaderSize /\ header[2] \in Nat
                       /\ Len(partial) < header[2]
  /\ writer \in {"open", "closed"} /\ reader \in {"open", "closed"}
  /\ writer = "closed" => writing = << >>

PacketsOK ==
  /\ asked \in Seq(Messages) /\ Len(asked) <= MaxMessages
  /\ received \in Seq(Packet) /\ Len(received) <= Len(asked)
  /\ \A i \in 1..Len(received) : received[i] = Build(asked[i])

FramingInv ==
  /\ PacketsOK /\ BuffersOK
  /\ reader = "open" => \E all, at, lost : Carried(all, at, lost)

LEMMA FramesAre ==
  ASSUME PacketsOK
  PROVE  /\ Frames \in Seq(Seq(Cell)) /\ Len(Frames) = Len(asked)
         /\ \A i \in 1..Len(asked) : /\ IsMessage(asked[i]) /\ Build(asked[i]) \in Packet
                                     /\ Frames[i] = Frame(asked[i]) /\ Frame(asked[i]) \in Seq(Cell)
<1>1. PICK n \in Nat : n = Len(asked)
  BY DEF PacketsOK
<1>2. \A i \in 1..n : IsMessage(asked[i])
  BY <1>1, FramingAssumption DEF PacketsOK
<1>3. \A i \in 1..n : Frame(asked[i]) \in Seq(Cell) /\ Build(asked[i]) \in Packet
  BY <1>2, FrameIs
<1>4. Frames = [i \in 1..n |-> Frame(asked[i])]
  BY <1>1 DEF Frames
<1>5. PICK V : V = Seq(Cell)
  OBVIOUS
<1>6. \A i \in 1..n : Frame(asked[i]) \in V
  BY <1>3, <1>5
<1>7. Frames \in Seq(V) /\ Len(Frames) = n /\ \A i \in 1..n : Frames[i] = Frame(asked[i])
  BY <1>4, <1>6
<1> QED
  BY <1>1, <1>2, <1>3, <1>5, <1>7

\* The reader has not started: there is nothing on its way.
LEMMA InitCarries == Init => FramingInv
<1> SUFFICES ASSUME Init PROVE FramingInv
  OBVIOUS
<1>1. /\ asked = << >> /\ writing = << >> /\ stream = << >> /\ header = << >> /\ partial = << >>
      /\ received = << >> /\ writer = "open" /\ reader = "open"
  BY DEF Init
<1>2. PacketsOK
  BY <1>1, FramingAssumption DEF PacketsOK
<1>3. BuffersOK
  BY <1>1, FramingAssumption DEF BuffersOK, HeaderSize
<1>4. PICK at : at = [i \in 0..0 |-> 0]
  OBVIOUS
<1>5. Len(Frames) = 0
  BY <1>1, <1>2, FramesAre
<1>6. Cut(<< >>, Frames, at)
  BY <1>4, <1>5 DEF Cut
<1>7. at[0] = 0 /\ Rest(<< >>, 0) = << >>
  BY <1>4 DEF Rest
<1>8. OnTheWay(<< >>) = << >>
  BY <1>1 DEF OnTheWay
<1>9. Len(received) = 0
  BY <1>1
<1>10. Rest(<< >>, at[Len(received)]) = OnTheWay(<< >>)
  BY <1>7, <1>8, <1>9
<1>11. Carried(<< >>, at, << >>)
  BY <1>6, <1>10 DEF Carried
<1> QED
  BY <1>2, <1>3, <1>11 DEF FramingInv

LEMMA SendPacketCarries ==
  ASSUME FramingInv, NEW message \in Messages, SendPacket(message)
  PROVE  FramingInv'
<1>1. IsMessage(message)
  BY FramingAssumption
<1>2. PICK frame \in Seq(Cell) : frame = Frame(message)
  BY <1>1, FrameIs
<1>3. /\ writer = "open" /\ writing = << >> /\ Len(asked) < MaxMessages
      /\ asked' = Append(asked, message) /\ writing' = frame
      /\ UNCHANGED << stream, header, partial, received, writer, reader >>
  BY <1>2 DEF SendPacket, Frame
<1>4. PICK n \in Nat : n = Len(asked)
  BY DEF FramingInv, PacketsOK
<1>5. /\ asked' \in Seq(Messages) /\ Len(asked') = n + 1 /\ asked'[n + 1] = message
      /\ \A i \in 1..n : asked'[i] = asked[i]
  BY <1>3, <1>4 DEF FramingInv, PacketsOK
<1>6. PacketsOK'
  <2>1. PICK r \in Nat : r = Len(received) /\ r <= n
    BY <1>4 DEF FramingInv, PacketsOK
  <2>2. \A i \in 1..r : received[i] = Build(asked[i]) /\ i \in 1..n
    BY <2>1 DEF FramingInv, PacketsOK
  <2>3. \A i \in 1..r : received'[i] = Build(asked'[i])
    BY <1>3, <1>5, <2>2
  <2>4. n + 1 <= MaxMessages
    BY <1>3, <1>4, FramingAssumption
  <2>5. received' \in Seq(Packet) /\ Len(received') = r
    BY <1>3, <2>1 DEF FramingInv, PacketsOK
  <2> QED
    BY <1>5, <2>1, <2>3, <2>4, <2>5 DEF PacketsOK
<1>7. BuffersOK'
  BY <1>3 DEF FramingInv, BuffersOK, HeaderSize
<1>8. ASSUME reader' = "open" PROVE \E all, at, lost : Carried(all, at, lost)'
  <2>1. PICK all, at, lost : Carried(all, at, lost)
    BY <1>3, <1>8 DEF FramingInv
  <2>2. all \in Seq(Cell) /\ Cut(all, Frames, at) /\ lost = << >>
        /\ Rest(all, at[Len(received)]) = OnTheWay(<< >>)
    BY <1>3, <2>1 DEF Carried
  <2>3. Frames \in Seq(Seq(Cell)) /\ Len(Frames) = n
    BY <1>4, FramesAre DEF FramingInv
  <2>4. PICK longer : /\ Cut(all \o frame, Append(Frames, frame), longer)
                      /\ \A i \in 0..n : longer[i] = at[i]
    BY <2>2, <2>3, CutGrows
  <2>5. Frames' = Append(Frames, frame)
    <3>1. PICK V : V = Seq(Cell)
      OBVIOUS
    <3>2. Frames \in Seq(V) /\ frame \in V
      BY <2>3, <3>1
    <3>3. Frames' \in Seq(V) /\ Len(Frames') = n + 1 /\ \A i \in 1..(n + 1) : Frames'[i] = Frame(asked'[i])
      <4>1. \A i \in 1..(n + 1) : IsMessage(asked'[i])
        <5>1. \A i \in 1..(n + 1) : asked'[i] \in Messages
          BY <1>5
        <5> QED
          BY <5>1, FramingAssumption
      <4>2. \A i \in 1..(n + 1) : Frame(asked'[i]) \in V
        BY <3>1, <4>1, FrameIs
      <4>3. Frames' = [i \in 1..(n + 1) |-> Frame(asked'[i])]
        BY <1>5 DEF Frames
      <4> QED
        BY <4>2, <4>3
    <3>4. \A i \in 1..n : Frames[i] = Frame(asked[i])
      BY <1>4, FramesAre DEF FramingInv
    <3>5. Len(Frames') = Len(Frames) + 1 /\ (\A i \in 1..Len(Frames) : Frames'[i] = Frames[i])
          /\ Frames'[Len(Frames) + 1] = frame
      <4>1. \A i \in 1..n : i \in 1..(n + 1)
        OBVIOUS
      <4>2. n + 1 \in 1..(n + 1)
        OBVIOUS
      <4> QED
        BY <1>2, <1>5, <2>3, <3>3, <3>4, <4>1, <4>2
    <3>6. Append(Frames, frame) = Frames'
      BY <3>2, <3>3, <3>5, Grown, Zenon
    <3> QED
      BY <3>6
  <2>6. PICK r \in 0..n : r = Len(received)
    BY <1>4 DEF FramingInv, PacketsOK
  <2>7. at[r] \in 0..Len(all)
    BY <2>2, <2>3, <2>6 DEF Cut
  <2>8. Rest(all \o frame, at[r]) = OnTheWay(<< >>) \o frame
    <3>1. Rest(all \o frame, at[r]) = Rest(all, at[r]) \o frame
      BY <2>2, <2>7, RestOfConcat
    <3> QED
      BY <2>2, <2>6, <3>1
  <2>9. OnTheWay(<< >>) \o frame = OnTheWay(<< >>)'
    <3>1. PICK h \in Cells, p \in Cells, s \in Cells : h = header /\ p = partial /\ s = stream
      BY DEF FramingInv, BuffersOK, Cells
    <3>2. OnTheWay(<< >>) = h \o (p \o s) /\ OnTheWay(<< >>)' = h \o (p \o (s \o frame))
      <4>1. << >> \o << >> = << >> /\ s \o << >> = s /\ frame \o << >> = frame
        BY EmptyConcat DEF Cells
      <4> QED
        BY <1>3, <3>1, <4>1 DEF OnTheWay
    <3>3. frame \in Cells /\ Then(p, s) \in Cells
      BY ThenHolds, Zenon DEF Cells
    <3>4. Then(Then(h, Then(p, s)), frame) = Then(h, Then(Then(p, s), frame))
      BY <3>3, ThenHolds
    <3>5. Then(Then(p, s), frame) = Then(p, Then(s, frame))
      BY <3>3, ThenHolds
    <3> QED
      BY <3>2, <3>4, <3>5, Zenon DEF Then
  <2>10. all \o frame \in Seq(Cell)
    BY <2>2, ConcatHolds, Zenon
  <2>11. Carried(all \o frame, longer, << >>)'
    <3>1. longer[Len(received)'] = at[r]
      BY <1>3, <2>4, <2>6
    <3>2. << >> \in Seq(Cell)
      OBVIOUS
    <3> QED
      BY <1>3, <2>4, <2>5, <2>8, <2>9, <2>10, <3>1, <3>2 DEF Carried
  <2> QED
    BY <2>11
<1> QED
  BY <1>6, <1>7, <1>8 DEF FramingInv

\* Where the bytes are does not matter, as long as they are in order.
LEMMA CarriedOn ==
  ASSUME NEW all, NEW at, NEW lost, Carried(all, at, lost), NEW less \in Seq(Cell),
         asked' = asked, received' = received,
         OnTheWay(less)' = OnTheWay(lost), writer' = "open" => less = << >>
  PROVE  Carried(all, at, less)'
<1>1. Frames' = Frames
  BY DEF Frames
<1> QED
  BY <1>1 DEF Carried

LEMMA WriteCarries ==
  ASSUME FramingInv, NEW n \in 1..Window, Write(n)
  PROVE  FramingInv'
<1>1. /\ writer = "open" /\ reader = "open" /\ n <= Len(writing) /\ Len(stream) + n <= Window
      /\ stream' = stream \o SubSeq(writing, 1, n)
      /\ writing' = Rest(writing, n)
      /\ UNCHANGED << asked, header, partial, received, writer, reader >>
  BY DEF Write, Rest
<1>2. /\ header \in Seq(Cell) /\ partial \in Seq(Cell) /\ stream \in Seq(Cell) /\ writing \in Seq(Cell)
  BY DEF FramingInv, BuffersOK
<1>3. n \in 0..Len(writing)
  BY <1>1, <1>2
<1>4. PICK gone \in Seq(Cell), left \in Seq(Cell) :
        /\ gone = SubSeq(writing, 1, n) /\ left = Rest(writing, n)
        /\ Len(gone) = n /\ gone \o left = writing
  <2>1. SubSeq(writing, 1, n) \in Seq(Cell) /\ Len(SubSeq(writing, 1, n)) = n
        /\ SubSeq(writing, 1, n) \o Rest(writing, n) = writing
    BY <1>2, <1>3, SplitAt
  <2>2. Rest(writing, n) \in Seq(Cell)
    BY <1>2, <1>3, RestHolds
  <2> QED
    BY <2>1, <2>2, Zenon
<1>5. PacketsOK'
  BY <1>1 DEF FramingInv, PacketsOK
<1>6. BuffersOK'
  <2>1. stream \o gone \in Seq(Cell) /\ Len(stream \o gone) = Len(stream) + Len(gone)
    BY <1>2, ConcatHolds
  <2>2. stream' \in Seq(Cell) /\ Len(stream') <= Window /\ writing' \in Seq(Cell)
    BY <1>1, <1>4, <2>1
  <2> QED
    BY <1>1, <2>2 DEF FramingInv, BuffersOK, HeaderSize
<1>7. PICK all, at, lost : Carried(all, at, lost)
  BY <1>1 DEF FramingInv
<1>8. PICK l \in Seq(Cell) : l = lost /\ l = << >>
  BY <1>1, <1>7 DEF Carried
<1>9. OnTheWay(l)' = OnTheWay(l)
  <2>1. /\ stream \in Cells /\ gone \in Cells /\ left \in Cells /\ l \in Cells
    BY <1>2, Zenon DEF Cells
  <2>2. Then(left, l) \in Cells
    BY <2>1, ThenHolds
  <2>3. Then(Then(gone, left), l) = Then(gone, Then(left, l))
    BY <2>1, ThenHolds
  <2>4. Then(Then(stream, gone), Then(left, l)) = Then(stream, Then(gone, Then(left, l)))
    BY <2>1, <2>2, ThenHolds
  <2>5. stream' \o (writing' \o l) = stream \o (writing \o l)
    <3>1. stream' = Then(stream, gone) /\ writing' = left /\ writing = Then(gone, left)
      BY <1>1, <1>4, Zenon DEF Then
    <3> QED
      BY <2>3, <2>4, <3>1, Zenon DEF Then
  <2> QED
    BY <1>1, <2>5 DEF OnTheWay
<1>10. Carried(all, at, l)'
  BY <1>1, <1>7, <1>8, <1>9, CarriedOn
<1> QED
  BY <1>5, <1>6, <1>10 DEF FramingInv

LEMMA WriterClosesCarries ==
  ASSUME FramingInv, WriterCloses \/ WriteFails
  PROVE  FramingInv'
<1>1. /\ writer = "open" /\ writer' = "closed" /\ writing' = << >>
      /\ stream' \in {stream, << >>}
      /\ UNCHANGED << asked, header, partial, received, reader >>
  BY DEF WriterCloses, WriteFails
<1>2. /\ header \in Seq(Cell) /\ partial \in Seq(Cell) /\ stream \in Seq(Cell) /\ writing \in Seq(Cell)
  BY DEF FramingInv, BuffersOK
<1>3. PacketsOK'
  BY <1>1 DEF FramingInv, PacketsOK
<1>4. << >> \in Seq(Cell) /\ Len(<< >>) <= Window
  BY FramingAssumption
<1>5. BuffersOK'
  BY <1>1, <1>4 DEF FramingInv, BuffersOK, HeaderSize
<1>6. ASSUME reader' = "open" PROVE \E all, at, lost : Carried(all, at, lost)'
  <2>1. PICK all, at, lost : Carried(all, at, lost)
    BY <1>1, <1>6 DEF FramingInv
  <2>2. PICK s \in Seq(Cell), w \in Seq(Cell), l \in Seq(Cell) : s = stream /\ w = writing /\ l = lost
    BY <1>2, <2>1 DEF Carried
  <2>3. PICK wl \in Seq(Cell) : wl = w \o l
    BY ConcatHolds, Zenon
  <2>4. PICK swl \in Seq(Cell) : swl = s \o wl
    BY ConcatHolds, Zenon
  <2>5. << >> \o wl = wl /\ << >> \o swl = swl
    BY EmptyConcat
  <2>6. CASE stream' = stream
    <3>1. OnTheWay(wl)' = OnTheWay(lost)
      BY <1>1, <2>2, <2>3, <2>5, <2>6 DEF OnTheWay
    <3>2. Carried(all, at, wl)'
      BY <1>1, <2>1, <3>1, CarriedOn
    <3> QED
      BY <3>2
  <2>7. CASE stream' = << >>
    <3>1. OnTheWay(swl)' = OnTheWay(lost)
      BY <1>1, <2>2, <2>3, <2>4, <2>5, <2>7 DEF OnTheWay
    <3>2. Carried(all, at, swl)'
      BY <1>1, <2>1, <3>1, CarriedOn
    <3> QED
      BY <3>2
  <2> QED
    BY <1>1, <2>6, <2>7
<1> QED
  BY <1>3, <1>5, <1>6 DEF FramingInv

LEMMA ReaderClosesCarries ==
  ASSUME FramingInv, ReaderCloses \/ ReadFails
  PROVE  FramingInv'
<1>1. /\ reader' = "closed" /\ header' = << >> /\ partial' = << >>
      /\ stream' \in {stream, << >>}
      /\ UNCHANGED << asked, writing, received, writer >>
  BY DEF ReaderCloses, ReadFails
<1>2. PacketsOK'
  BY <1>1 DEF FramingInv, PacketsOK
<1>3. << >> \in Seq(Cell) /\ Len(<< >>) <= Window /\ Len(<< >>) < HeaderSize
  BY FramingAssumption DEF HeaderSize
<1>4. BuffersOK'
  BY <1>1, <1>3 DEF FramingInv, BuffersOK
<1> QED
  BY <1>1, <1>2, <1>4 DEF FramingInv

\* A round of recvAll that leaves something to read.
LEMMA ReadMoreCarries ==
  ASSUME FramingInv, NEW gone \in Seq(Cell), NEW left \in Seq(Cell), gone \o left = stream,
         reader = "open", stream' = left, partial' = partial \o gone,
         Len(partial \o gone) < Wanted,
         UNCHANGED << asked, writing, header, received, writer, reader >>
  PROVE  FramingInv'
<1>1. /\ header \in Seq(Cell) /\ partial \in Seq(Cell) /\ stream \in Seq(Cell) /\ writing \in Seq(Cell)
  BY DEF FramingInv, BuffersOK
<1>2. PacketsOK'
  BY DEF FramingInv, PacketsOK
<1>3. partial' \in Seq(Cell)
  BY <1>1, ConcatHolds, Zenon
<1>4. Len(stream') <= Window
  <2>1. Len(stream) = Len(gone) + Len(left) /\ Len(gone) \in Nat /\ Len(left) \in Nat
    BY ConcatHolds
  <2>2. Len(stream) <= Window /\ Window \in Nat
    BY FramingAssumption DEF FramingInv, BuffersOK
  <2> QED
    BY <2>1, <2>2
<1>5. /\ header' = << >> => Len(partial') < HeaderSize
      /\ header' # << >> => Len(partial') < header'[2]
  BY DEF Wanted
<1>6. BuffersOK'
  BY <1>3, <1>4, <1>5 DEF FramingInv, BuffersOK
<1>7. PICK all, at, lost : Carried(all, at, lost)
  BY DEF FramingInv
<1>8. PICK l \in Seq(Cell) : l = lost
  BY <1>7 DEF Carried
<1>9. OnTheWay(l)' = OnTheWay(lost)
  <2>1. /\ partial \in Cells /\ gone \in Cells /\ left \in Cells
        /\ writing \in Cells /\ l \in Cells
    BY <1>1, Zenon DEF Cells
  <2>2. Then(writing, l) \in Cells /\ Then(left, Then(writing, l)) \in Cells
    BY <2>1, ThenHolds
  <2>3. Then(Then(gone, left), Then(writing, l)) = Then(gone, Then(left, Then(writing, l)))
    BY <2>1, <2>2, ThenHolds
  <2>4. Then(Then(partial, gone), Then(left, Then(writing, l)))
          = Then(partial, Then(gone, Then(left, Then(writing, l))))
    BY <2>1, <2>2, ThenHolds
  <2>5. partial' \o (stream' \o (writing' \o l)) = partial \o (stream \o (writing \o l))
    BY <2>3, <2>4, Zenon DEF Then
  <2> QED
    BY <1>8, <2>5 DEF OnTheWay
<1>10. Carried(all, at, l)'
  <2>1. writer' = "open" => l = << >>
    BY <1>7, <1>8 DEF Carried
  <2> QED
    BY <1>7, <1>9, <2>1, CarriedOn
<1> QED
  BY <1>2, <1>6, <1>10 DEF FramingInv

ReceivesNext ==
  /\ Len(received) < Len(asked)
  /\ received' = Append(received, Build(asked[Len(received) + 1]))

\* recvAll has got all it was asked for.
LEMMA ArrivedCarries ==
  ASSUME FramingInv, NEW gone \in Seq(Cell), NEW left \in Seq(Cell), gone \o left = stream,
         NEW cells \in Seq(Cell), cells = partial \o gone, Len(cells) = Wanted,
         reader = "open", stream' = left, Arrived(cells),
         UNCHANGED << asked, writing, writer, reader >>
  PROVE  FramingInv' /\ (received' = received \/ ReceivesNext)
<1>1. /\ header \in Seq(Cell) /\ partial \in Seq(Cell) /\ stream \in Seq(Cell) /\ writing \in Seq(Cell)
  BY DEF FramingInv, BuffersOK
<1>2. PICK all, at, lost : Carried(all, at, lost)
  BY DEF FramingInv
<1>3. PICK l \in Seq(Cell) : l = lost /\ all \in Seq(Cell) /\ (writer = "open" => l = << >>)
  BY <1>2 DEF Carried
<1>4. PICK wl \in Seq(Cell) : wl = writing \o l
  BY <1>1, ConcatHolds, Zenon
<1>5. PICK more \in Seq(Cell) : more = left \o wl
  BY ConcatHolds, Zenon
<1>6. PICK got \in Seq(Cell) : got = header \o cells
  BY <1>1, ConcatHolds, Zenon
<1>7. OnTheWay(lost) = got \o more /\ OnTheWay(lost) = header \o (cells \o more)
  <2>1. /\ header \in Cells /\ partial \in Cells /\ gone \in Cells /\ left \in Cells
        /\ wl \in Cells
    BY <1>1, Zenon DEF Cells
  <2>2. Then(left, wl) \in Cells /\ Then(partial, gone) \in Cells
    BY <2>1, ThenHolds
  <2>4. Then(Then(gone, left), wl) = Then(gone, Then(left, wl))
    BY <2>1, ThenHolds
  <2>5. Then(Then(partial, gone), Then(left, wl)) = Then(partial, Then(gone, Then(left, wl)))
    BY <2>1, <2>2, ThenHolds
  <2>6. Then(Then(header, Then(partial, gone)), Then(left, wl))
          = Then(header, Then(Then(partial, gone), Then(left, wl)))
    BY <2>1, <2>2, ThenHolds
  <2>3. OnTheWay(lost) = header \o (partial \o (stream \o wl))
    BY <1>3, <1>4, Zenon DEF OnTheWay
  <2> QED
    BY <1>5, <1>6, <2>3, <2>4, <2>5, <2>6, Zenon DEF Then
<1>8. /\ header = << >> => got = cells /\ Len(got) = HeaderSize
      /\ header # << >> => /\ Len(header) = HeaderSize /\ got[2] = header[2]
                           /\ Len(got) = HeaderSize + header[2] /\ header[2] \in Nat
                           /\ Rest(got, HeaderSize) = cells
  <2>1. CASE header = << >>
    <3>1. got = cells
      BY <1>6, <2>1, EmptyConcat, Zenon
    <3> QED
      BY <2>1, <3>1 DEF Wanted
  <2>2. CASE header # << >>
    <3>1. Len(header) = 2 /\ header[2] \in Nat /\ Len(cells) = header[2]
      BY <2>2 DEF FramingInv, BuffersOK, Wanted, HeaderSize
    <3>2. /\ Len(header \o cells) = Len(header) + Len(cells)
          /\ \A i \in 1..Len(header) : (header \o cells)[i] = header[i]
      BY <1>1, ConcatHolds
    <3>3. Len(got) = 2 + header[2] /\ got[2] = header[2]
      BY <1>6, <3>1, <3>2
    <3>4. Rest(header \o cells, Len(header)) = cells
      <4>1. Len(header) \in 0..Len(header)
        BY <1>1
      <4> QED
        BY <1>1, <4>1, RestOfConcat
    <3> QED
      BY <1>6, <2>2, <3>1, <3>3, <3>4 DEF HeaderSize
  <2> QED
    BY <2>1, <2>2
<1>9. Len(got) >= HeaderSize /\ got \o more # << >>
  <2>1. Len(got) >= 2
    <3>1. CASE header = << >>
      <4>1. Len(got) = HeaderSize
        BY <1>8, <3>1, Zenon
      <4> QED
        BY <4>1 DEF HeaderSize
    <3>2. CASE header # << >>
      <4>1. PICK size \in Nat : size = header[2]
        BY <1>8, <3>2
      <4>2. Len(got) = 2 + size
        BY <1>8, <3>2, <4>1 DEF HeaderSize
      <4> QED
        BY <4>2
    <3> QED
      BY <3>1, <3>2
  <2>2. Len(got \o more) = Len(got) + Len(more) /\ Len(more) \in Nat
    BY ConcatHolds
  <2>3. Len(got \o more) # 0
    BY <2>1, <2>2
  <2> QED
    BY <2>1, <2>3 DEF HeaderSize
<1>10. PICK r \in Nat : r = Len(received) /\ r <= Len(asked)
  BY DEF FramingInv, PacketsOK
<1>11. PICK frames \in Seq(Seq(Cell)) : frames = Frames /\ Len(frames) = Len(asked)
  BY FramesAre DEF FramingInv
<1>12. Cut(all, frames, at) /\ Rest(all, at[r]) = got \o more
  BY <1>2, <1>7, <1>10, <1>11 DEF Carried
<1>13. r \in 0..Len(frames)
  BY <1>10, <1>11
<1>14. /\ r + 1 \in 1..Len(frames) /\ Begins(got \o more, frames[r + 1])
       /\ Rest(got \o more, Len(frames[r + 1])) = Rest(all, at[r + 1])
  <2>1. PICK row \in Seq(Cell) : row = all
    BY <1>3, Zenon
  <2>2. Cut(row, frames, at) /\ Rest(row, at[r]) # << >>
    BY <1>9, <1>12, <2>1, Zenon
  <2>3. /\ r + 1 \in 1..Len(frames)
        /\ Begins(Rest(row, at[r]), frames[r + 1])
        /\ Rest(Rest(row, at[r]), Len(frames[r + 1])) = Rest(row, at[r + 1])
    BY <1>13, <2>2, NextFrame
  <2> QED
    BY <1>12, <2>1, <2>3, Zenon
<1>15. PICK message : message = asked[r + 1]
  OBVIOUS
<1>16. /\ IsMessage(message) /\ Build(message) \in Packet /\ frames[r + 1] = Frame(message)
       /\ Len(Build(message).payload) \in Nat
  <2>1. IsMessage(message) /\ Build(message) \in Packet /\ frames[r + 1] = Frame(message)
    BY <1>11, <1>14, <1>15, FramesAre DEF FramingInv
  <2> QED
    BY <2>1 DEF Packet
<1>17. Begins(got \o more, Frame(message))
  BY <1>14, <1>16
<1>18. /\ got[1] = message.type /\ got[2] = Len(Build(message).payload)
       /\ Len(got) = HeaderSize + got[2]
          => /\ [type |-> got[1], payload |-> Rest(got, HeaderSize)] = Build(message)
             /\ Rest(got \o more, Len(Frame(message))) = more
  BY <1>9, <1>16, <1>17, Completes
<1>19. Len(stream') <= Window
  <2>1. Len(gone \o left) = Len(gone) + Len(left) /\ Len(gone) \in Nat /\ Len(left) \in Nat
    BY ConcatHolds
  <2>2. Len(stream) <= Window /\ Window \in Nat
    BY FramingAssumption DEF FramingInv, BuffersOK
  <2> QED
    BY <2>1, <2>2
<1>20. CASE header = << >> /\ cells[2] > 0
  <2>1. header' = cells /\ partial' = << >> /\ received' = received
    BY <1>20 DEF Arrived
  <2>2. PacketsOK'
    BY <2>1 DEF FramingInv, PacketsOK
  <2>3. cells[2] \in Nat /\ Len(cells) = HeaderSize /\ cells # << >>
    <3>1. got = cells /\ Len(got) = HeaderSize
      BY <1>8, <1>20, Zenon
    <3>2. cells[2] \in Nat
      BY <1>16, <1>18, <3>1, Zenon
    <3>3. Len(cells) = 2
      BY <3>1 DEF HeaderSize
    <3> QED
      BY <3>2, <3>3 DEF HeaderSize
  <2>4. << >> \in Seq(Cell) /\ Len(<< >>) = 0
    OBVIOUS
  <2>5. BuffersOK'
    BY <1>1, <1>19, <1>20, <2>1, <2>3, <2>4 DEF FramingInv, BuffersOK
  <2>6. OnTheWay(l)' = OnTheWay(lost)
    <3>1. << >> \o more = more /\ << >> \o (cells \o more) = cells \o more
      <4>1. cells \o more \in Seq(Cell)
        BY ConcatHolds, Zenon
      <4> QED
        BY <4>1, EmptyConcat
    <3>2. OnTheWay(l)' = cells \o (<< >> \o more)
      BY <1>4, <1>5, <2>1 DEF OnTheWay
    <3> QED
      BY <1>7, <1>20, <3>1, <3>2
  <2>7. Carried(all, at, l)'
    BY <1>2, <1>3, <2>1, <2>6, CarriedOn
  <2> QED
    BY <2>1, <2>2, <2>5, <2>7 DEF FramingInv
<1>21. CASE ~(header = << >> /\ cells[2] > 0)
  <2>1. /\ received' = Append(received, [ type    |-> (header \o cells)[1],
                                          payload |-> IF header = << >> THEN << >> ELSE cells ])
        /\ header' = << >> /\ partial' = << >>
    BY <1>21 DEF Arrived
  <2>2. Len(got) = HeaderSize + got[2] /\ Rest(got, HeaderSize) = IF header = << >> THEN << >> ELSE cells
    <3>1. CASE header = << >>
      <4>1. got[2] = 0
        <5>1. PICK size \in Nat : size = got[2]
          BY <1>16, <1>18, Zenon
        <5>2. got = cells
          BY <1>8, <3>1, Zenon
        <5>3. ~ (size > 0)
          BY <1>21, <3>1, <5>1, <5>2, Zenon
        <5> QED
          BY <5>1, <5>3
      <4>2. Len(got) \in 0..Len(got)
        OBVIOUS
      <4>3. Rest(got, Len(got)) = << >>
        BY <4>2, RestHolds
      <4>4. Len(got) = HeaderSize
        BY <1>8, <3>1, Zenon
      <4>5. HeaderSize = HeaderSize + got[2]
        BY <4>1 DEF HeaderSize
      <4> QED
        BY <3>1, <4>3, <4>4, <4>5, Zenon
    <3>2. CASE header # << >>
      BY <1>8, <3>2
    <3> QED
      BY <3>1, <3>2
  <2>3. received' = Append(received, Build(message)) /\ Rest(got \o more, Len(Frame(message))) = more
    BY <1>6, <1>18, <2>1, <2>2
  <2>4. /\ received' \in Seq(Packet) /\ Len(received') = r + 1
        /\ received'[r + 1] = Build(message)
        /\ \A i \in 1..r : received'[i] = received[i]
    BY <1>10, <1>16, <2>3 DEF FramingInv, PacketsOK
  <2>5. PacketsOK'
    <3>1. \A i \in 1..(r + 1) : received'[i] = Build(asked[i])
      <4>1. \A i \in 1..(r + 1) : i \in 1..r \/ i = r + 1
        BY <1>10
      <4>2. \A i \in 1..r : received[i] = Build(asked[i])
        BY <1>10 DEF FramingInv, PacketsOK
      <4> QED
        BY <1>15, <2>4, <4>1, <4>2
    <3>2. r + 1 <= Len(asked)
      BY <1>11, <1>14
    <3> QED
      BY <2>4, <3>1, <3>2 DEF FramingInv, PacketsOK
  <2>6. << >> \in Seq(Cell) /\ Len(<< >>) < HeaderSize
    BY DEF HeaderSize
  <2>7. BuffersOK'
    BY <1>1, <1>19, <2>1, <2>6 DEF FramingInv, BuffersOK
  <2>8. Rest(all, at[r + 1]) = more
    BY <1>14, <1>16, <2>3
  <2>9. OnTheWay(l)' = more
    <3>1. << >> \o more = more
      BY EmptyConcat
    <3> QED
      BY <1>4, <1>5, <2>1, <3>1 DEF OnTheWay
  <2>10. Frames' = Frames
    BY DEF Frames
  <2>11. Carried(all, at, l)'
    BY <1>3, <1>11, <1>12, <2>4, <2>8, <2>9, <2>10 DEF Carried
  <2>12. ReceivesNext
    BY <1>10, <1>11, <1>14, <1>15, <2>3 DEF ReceivesNext
  <2> QED
    BY <2>5, <2>7, <2>11, <2>12 DEF FramingInv
<1> QED
  BY <1>20, <1>21

\* One round of recvAll.
LEMMA ReadSomeCarries ==
  ASSUME FramingInv, NEW n \in 1..Window, ReadSome(n)
  PROVE  FramingInv' /\ (received' = received \/ ReceivesNext)
<1>1. /\ reader = "open" /\ n <= Len(stream)
      /\ stream' = Rest(stream, n)
      /\ LET cells == partial \o SubSeq(stream, 1, n) IN
         \/ Len(cells) = Wanted /\ Arrived(cells)
         \/ /\ Len(cells) < Wanted
            /\ partial' = cells /\ UNCHANGED << header, received >>
      /\ UNCHANGED << asked, writing, writer, reader >>
  BY DEF ReadSome, Rest
<1>2. partial \in Seq(Cell) /\ stream \in Seq(Cell)
  BY DEF FramingInv, BuffersOK
<1>3. n \in 0..Len(stream)
  BY <1>1, <1>2
<1>4. PICK gone \in Seq(Cell), left \in Seq(Cell) :
        /\ gone = SubSeq(stream, 1, n) /\ left = Rest(stream, n) /\ gone \o left = stream
  <2>1. SubSeq(stream, 1, n) \in Seq(Cell) /\ SubSeq(stream, 1, n) \o Rest(stream, n) = stream
    BY <1>2, <1>3, SplitAt
  <2>2. Rest(stream, n) \in Seq(Cell)
    BY <1>2, <1>3, RestHolds
  <2> QED
    BY <2>1, <2>2, Zenon
<1>5. PICK cells \in Seq(Cell) : cells = partial \o gone
  BY <1>2, ConcatHolds, Zenon
<1>6. CASE Len(cells) = Wanted /\ Arrived(cells)
  <2>1. /\ stream' = left
        /\ UNCHANGED << asked, writing, writer, reader >>
    BY <1>1, <1>4
  <2> QED
    BY <1>1, <1>4, <1>5, <1>6, <2>1, ArrivedCarries
<1>7. CASE Len(cells) < Wanted /\ partial' = cells /\ UNCHANGED << header, received >>
  <2>1. /\ stream' = left /\ partial' = partial \o gone /\ Len(partial \o gone) < Wanted
        /\ UNCHANGED << asked, writing, header, received, writer, reader >>
    BY <1>1, <1>4, <1>5, <1>7
  <2>2. FramingInv'
    BY <1>1, <1>4, <2>1, ReadMoreCarries
  <2> QED
    BY <2>1, <2>2
<1> QED
  BY <1>1, <1>4, <1>5, <1>6, <1>7

\* Every step keeps the invariant.
LEMMA NextCarries ==
  ASSUME FramingInv, [Next]_vars
  PROVE  FramingInv'
<1>1. ASSUME NEW message \in Messages, SendPacket(message) PROVE FramingInv'
  BY <1>1, SendPacketCarries
<1>2. ASSUME NEW n \in 1..Window, Write(n) PROVE FramingInv'
  BY <1>2, WriteCarries
<1>3. ASSUME NEW n \in 1..Window, ReadSome(n) PROVE FramingInv'
  BY <1>3, ReadSomeCarries
<1>4. CASE WriterCloses \/ WriteFails
  BY <1>4, WriterClosesCarries
<1>5. CASE ReaderCloses \/ ReadFails
  BY <1>5, ReaderClosesCarries
<1>6. CASE UNCHANGED vars
  <2>1. PacketsOK'
    BY <1>6 DEF FramingInv, PacketsOK, vars
  <2>2. BuffersOK'
    BY <1>6 DEF FramingInv, BuffersOK, vars
  <2>3. ASSUME NEW all, NEW at, NEW lost, Carried(all, at, lost) PROVE Carried(all, at, lost)'
    BY <1>6, <2>3 DEF Carried, Frames, OnTheWay, vars
  <2>4. reader' = reader
    BY <1>6 DEF vars
  <2> QED
    BY <2>1, <2>2, <2>3, <2>4 DEF FramingInv
<1> QED
  BY <1>1, <1>2, <1>3, <1>4, <1>5, <1>6 DEF Next

\* The invariant holds.
LEMMA FramingIsSound == Spec => []FramingInv
<1>1. Init => FramingInv
  BY InitCarries
<1>2. FramingInv /\ [Next]_vars => FramingInv'
  BY NextCarries
<1> QED
  BY <1>1, <1>2, PTL DEF Spec

(***************************************************************************)
(* What recvAll has got is always less than it was asked for, and a header *)
(* that waits for its payload says how much of it is to come.              *)
(***************************************************************************)
THEOREM FramingTyping == Spec => []TypeOK
<1>1. FramingInv => TypeOK
  <2> SUFFICES ASSUME FramingInv PROVE TypeOK
    OBVIOUS
  <2>1. Len(header) \in {0, HeaderSize}
    <3>1. CASE header = << >>
      BY <3>1
    <3>2. CASE header # << >>
      BY <3>2 DEF FramingInv, BuffersOK
    <3> QED
      BY <3>1, <3>2
  <2> QED
    BY <2>1 DEF FramingInv, BuffersOK, PacketsOK, TypeOK
<1> QED
  BY <1>1, FramingIsSound, PTL

(***************************************************************************)
(* A message whose strings fit their length fields is parsed back field by *)
(* field from the packet that receivePacket returns, whatever was sent     *)
(* before it, a string too long for its length field included.             *)
(***************************************************************************)
THEOREM ParsesBack == Spec => []ParsedAsAsked
<1>1. FramingInv => ParsedAsAsked
  <2> SUFFICES ASSUME FramingInv, NEW i \in 1..Len(received),
                      Legible(asked[i])
               PROVE  /\ received[i].type = asked[i].type
                      /\ Parse(received[i]) = [ ok |-> TRUE, left |-> << >>,
                                                fields |-> asked[i].fields ]
    BY DEF ParsedAsAsked, Legible
  <2>1. received[i] = Build(asked[i])
    BY DEF FramingInv, PacketsOK
  <2>2. IsMessage(asked[i])
    <3>1. PICK r \in Nat, n \in Nat : r = Len(received) /\ n = Len(asked) /\ r <= n
      BY DEF FramingInv, PacketsOK
    <3>2. i \in 1..n
      BY <3>1
    <3>3. asked[i] \in Messages
      BY <3>1, <3>2 DEF FramingInv, PacketsOK
    <3> QED
      BY <3>3, FramingAssumption
  <2>3. PICK message : message = asked[i]
    OBVIOUS
  <2>4. Parse(Build(message)) = Cursor(<< >>, message.fields)
    BY <2>2, <2>3, MessageBack
  <2>5. Build(message).type = message.type
    BY DEF Build
  <2> QED
    BY <2>1, <2>3, <2>4, <2>5 DEF Cursor
<1> QED
  BY <1>1, FramingIsSound, PTL

-----------------------------------------------------------------------------
(* The refinement. *)

LEMMA SentIs ==
  ASSUME PacketsOK
  PROVE  /\ Sent \in Seq({ Build(m) : m \in Messages }) /\ Len(Sent) = Len(asked)
         /\ \A i \in 1..Len(asked) : Sent[i] = Build(asked[i])
<1>0. PICK n \in Nat : n = Len(asked)
  BY DEF PacketsOK
<1>1. PICK B : B = { Build(m) : m \in Messages }
  OBVIOUS
<1>2. \A i \in 1..n : Build(asked[i]) \in B
  <2>1. \A i \in 1..n : asked[i] \in Messages
    BY <1>0 DEF PacketsOK
  <2> QED
    BY <1>1, <2>1
<1>3. Sent = [i \in 1..n |-> Build(asked[i])]
  BY <1>0 DEF Sent
<1>4. Sent \in Seq(B) /\ Len(Sent) = n /\ \A i \in 1..n : Sent[i] = Build(asked[i])
  BY <1>2, <1>3
<1> QED
  BY <1>0, <1>1, <1>4

\* A call of sendPacket gives the channel one more packet.
LEMMA SendPacketSends ==
  ASSUME FramingInv, NEW message \in Messages, SendPacket(message), PacketsOK'
  PROVE  Channel!Send(Build(message))
<1>1. PICK B : B = { Build(m) : m \in Messages } /\ \A m \in Messages : Build(m) \in B
  <2>1. \A m \in Messages : Build(m) \in { Build(x) : x \in Messages }
    OBVIOUS
  <2> QED
    BY <2>1, Zenon
<1>2. PICK n \in Nat : n = Len(asked)
  BY DEF FramingInv, PacketsOK
<1>3. /\ n < MaxMessages /\ asked' = Append(asked, message)
      /\ Len(asked') = n + 1 /\ asked'[n + 1] = message
      /\ \A i \in 1..n : asked'[i] = asked[i]
  BY <1>2 DEF FramingInv, PacketsOK, SendPacket
<1>4. Sent \in Seq(B) /\ Len(Sent) = n /\ \A i \in 1..n : Sent[i] = Build(asked[i])
  BY <1>1, <1>2, SentIs DEF FramingInv
<1>5. /\ Sent' \in Seq(B) /\ Len(Sent') = n + 1
      /\ \A i \in 1..(n + 1) : Sent'[i] = Build(asked'[i])
  <2>1. Sent' = [i \in 1..(n + 1) |-> Build(asked'[i])]
    BY <1>3 DEF Sent
  <2>2. \A i \in 1..(n + 1) : asked'[i] \in Messages
    BY <1>3 DEF PacketsOK
  <2>3. \A i \in 1..(n + 1) : Build(asked'[i]) \in B
    BY <1>1, <2>2
  <2> QED
    BY <2>1, <2>3
<1>6. Append(Sent, Build(message)) = Sent'
  <2>1. \A i \in 1..n : i \in 1..(n + 1)
    OBVIOUS
  <2>2. n + 1 \in 1..(n + 1)
    OBVIOUS
  <2>3. Len(Sent') = Len(Sent) + 1 /\ (\A i \in 1..Len(Sent) : Sent'[i] = Sent[i])
        /\ Sent'[Len(Sent) + 1] = Build(message)
    BY <1>3, <1>4, <1>5, <2>1, <2>2
  <2> QED
    BY <1>1, <1>4, <1>5, <2>3, Grown, Zenon
<1>7. UNCHANGED << received, writer, reader >>
  BY DEF SendPacket
<1> QED
  BY <1>3, <1>4, <1>6, <1>7, <1>2 DEF Channel!Send

LEMMA ReadSomeReceives ==
  ASSUME FramingInv, NEW n \in 1..Window, ReadSome(n)
  PROVE  [Channel!Next]_(Channel!channel)
<1>1. UNCHANGED << asked, writer, reader >>
  BY DEF ReadSome
<1>2. Sent' = Sent
  BY <1>1 DEF Sent
<1>3. received' = received \/ ReceivesNext
  BY ReadSomeCarries
<1>4. CASE received' = received
  BY <1>1, <1>2, <1>4 DEF Channel!channel
<1>5. CASE ReceivesNext
  <2>1. PICK r \in Nat, k \in Nat : r = Len(received) /\ k = Len(asked)
    BY DEF FramingInv, PacketsOK
  <2>2. r < k /\ received' = Append(received, Build(asked[r + 1]))
    BY <1>5, <2>1 DEF ReceivesNext
  <2>3. r + 1 \in 1..k
    BY <2>2
  <2>4. Len(Sent) = k /\ Sent[r + 1] = Build(asked[r + 1])
    BY <2>1, <2>3, SentIs DEF FramingInv
  <2>5. Channel!Receive
    BY <1>1, <1>2, <2>1, <2>2, <2>4 DEF Channel!Receive
  <2> QED
    BY <2>5 DEF Channel!Next
<1> QED
  BY <1>3, <1>4, <1>5

(***************************************************************************)
(* The loops of sendAll and recvAll with the packet headers implement a    *)
(* channel of packets: what receivePacket returns are the packets given to *)
(* sendPacket, whole, once and in order, also when an end closes in the    *)
(* middle of one.                                                          *)
(***************************************************************************)
THEOREM PacketsCross == Spec => FramingImplementsChannel
<1>1. Init => Channel!Init
  <2> SUFFICES ASSUME Init PROVE Channel!Init
    OBVIOUS
  <2>1. PacketsOK
    BY InitCarries DEF FramingInv
  <2>2. Sent \in Seq({ Build(m) : m \in Messages }) /\ Len(Sent) = 0
    BY <2>1, SentIs DEF Init
  <2>3. Sent = << >>
    BY <2>2
  <2> QED
    BY <2>3 DEF Init, Channel!Init
<1>2. FramingInv /\ FramingInv' /\ [Next]_vars => [Channel!Next]_(Channel!channel)
  <2> SUFFICES ASSUME FramingInv, FramingInv', [Next]_vars
               PROVE  [Channel!Next]_(Channel!channel)
    OBVIOUS
  <2>1. ASSUME NEW message \in Messages, SendPacket(message)
        PROVE  [Channel!Next]_(Channel!channel)
    <3>1. Channel!Send(Build(message))
      BY <2>1, SendPacketSends DEF FramingInv
    <3> QED
      BY <3>1 DEF Channel!Next
  <2>2. ASSUME NEW n \in 1..Window, Write(n)
        PROVE  [Channel!Next]_(Channel!channel)
    BY <2>2 DEF Write, Sent, Channel!channel
  <2>3. ASSUME NEW n \in 1..Window, ReadSome(n)
        PROVE  [Channel!Next]_(Channel!channel)
    BY <2>3, ReadSomeReceives
  <2>4. CASE WriteFails \/ ReadFails \/ WriterCloses \/ ReaderCloses
    <3>1. UNCHANGED << asked, received >> /\ (writer' = "closed" \/ reader' = "closed")
      BY <2>4 DEF WriteFails, ReadFails, WriterCloses, ReaderCloses
    <3>2. Sent' = Sent
      BY <3>1 DEF Sent
    <3>3. Channel!Close
      BY <3>1, <3>2 DEF Channel!Close
    <3> QED
      BY <3>3 DEF Channel!Next
  <2>5. CASE UNCHANGED vars
    BY <2>5 DEF vars, Sent, Channel!channel
  <2> QED
    BY <2>1, <2>2, <2>3, <2>4, <2>5 DEF Next
<1> QED
  BY <1>1, <1>2, FramingIsSound, PTL DEF Spec, FramingImplementsChannel, Channel!Spec

=============================================================================
