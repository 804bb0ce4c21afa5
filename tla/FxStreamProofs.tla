--------------------------- MODULE FxStreamProofs ---------------------------
(***************************************************************************)
(* How the stream of FxIncoming lies in the buffer: facts about sequences  *)
(* of cells that do not mention a step.  Placed says that a sequence is    *)
(* the cells of the messages after the first h, one after the other, or a  *)
(* beginning of it; start[i] is where message i begins.                    *)
(***************************************************************************)
EXTENDS FxIncoming, TLAPS

AnyCell == [of : Nat, part : Parts]

Size(m) == 2 + Length(m)

Placed(start, h, msgs, S) ==
  /\ start \in [h + 1 .. Len(msgs) + 1 -> Int]
  /\ start[h + 1] = 1
  /\ \A i \in h + 1 .. Len(msgs) : start[i + 1] = start[i] + Size(msgs[i])
  /\ \A i \in h + 1 .. Len(msgs), k \in h + 1 .. Len(msgs) + 1 :
       i < k => start[k] >= start[i] + Size(msgs[i])
  /\ Len(S) <= start[Len(msgs) + 1] - 1
  /\ \A i \in h + 1 .. Len(msgs) : \A j \in 1 .. Size(msgs[i]) :
       start[i] + j - 1 <= Len(S) =>
         S[start[i] + j - 1] = Cells(i, msgs[i])[j]

LEMMA SizeIs ==
  ASSUME NEW m \in Messages
  PROVE  Size(m) \in 2 .. 4 /\ Length(m) \in 0 .. 2
BY DEF Size, Length

LEMMA Joined ==
  ASSUME NEW X, NEW S \in Seq(X), NEW T \in Seq(X)
  PROVE  /\ S \o T \in Seq(X)
         /\ Len(S \o T) = Len(S) + Len(T)
         /\ \A k \in 1 .. Len(S) : (S \o T)[k] = S[k]
         /\ \A k \in 1 .. Len(T) : (S \o T)[Len(S) + k] = T[k]
OBVIOUS

LEMMA JoinedCells ==
  \A S, T \in Seq(AnyCell) :
    /\ S \o T \in Seq(AnyCell)
    /\ Len(S \o T) = Len(S) + Len(T)
    /\ \A k \in 1 .. Len(S) : (S \o T)[k] = S[k]
    /\ \A k \in 1 .. Len(T) : (S \o T)[Len(S) + k] = T[k]
BY Joined

LEMMA SameCells ==
  \A S, T \in Seq(AnyCell) :
    Len(S) = Len(T) /\ (\A k \in 1 .. Len(S) : S[k] = T[k]) => S = T
OBVIOUS

LEMMA Bodies ==
  ASSUME NEW X, NEW x \in X, NEW n \in Nat
  PROVE  /\ [k \in 1 .. n |-> x] \in Seq(X)
         /\ Len([k \in 1 .. n |-> x]) = n
OBVIOUS

LEMMA Headers ==
  ASSUME NEW X, NEW x \in X, NEW y \in X
  PROVE  /\ <<x, y>> \in Seq(X)
         /\ Len(<<x, y>>) = 2
         /\ <<x, y>>[1] = x /\ <<x, y>>[2] = y
OBVIOUS

LEMMA CellsOver ==
  ASSUME NEW i \in Nat, NEW m \in Messages, NEW X,
         \A p \in Parts : Cell(i, p) \in X
  PROVE  /\ Cells(i, m) \in Seq(X)
         /\ Len(Cells(i, m)) = Size(m)
         /\ Cells(i, m)[1] = Cell(i, "headers")
         /\ Cells(i, m)[2] = Cell(i, "blank")
<1>1. Length(m) \in Nat
  BY SizeIs
<1>2. Cell(i, "headers") \in X /\ Cell(i, "blank") \in X
      /\ Cell(i, "body") \in X
  BY DEF Parts
<1> DEFINE H == <<Cell(i, "headers"), Cell(i, "blank")>>
           B == [k \in 1 .. Length(m) |-> Cell(i, "body")]
<1>3. H \in Seq(X) /\ Len(H) = 2 /\ H[1] = Cell(i, "headers")
      /\ H[2] = Cell(i, "blank")
  BY <1>2, Headers
<1>4. B \in Seq(X) /\ Len(B) = Length(m)
  BY <1>1, <1>2, Bodies
<1>5. Cells(i, m) = H \o B
  BY DEF Cells
<1> HIDE DEF H, B
<1>6. /\ H \o B \in Seq(X)
      /\ Len(H \o B) = Len(H) + Len(B)
      /\ \A k \in 1 .. Len(H) : (H \o B)[k] = H[k]
  BY <1>3, <1>4, Joined
<1>7. (H \o B)[1] = H[1] /\ (H \o B)[2] = H[2]
  BY <1>3, <1>6
<1> QED
  BY <1>3, <1>4, <1>5, <1>6, <1>7 DEF Size

LEMMA CellsAre ==
  ASSUME NEW i \in Nat, NEW m \in Messages
  PROVE  /\ Cells(i, m) \in Seq(AnyCell)
         /\ Len(Cells(i, m)) = Size(m)
         /\ Cells(i, m)[1] = Cell(i, "headers")
         /\ Cells(i, m)[2] = Cell(i, "blank")
<1>1. \A p \in Parts : Cell(i, p) \in AnyCell
  BY DEF Cell, AnyCell
<1> QED
  BY <1>1, CellsOver

(* A message written.                                                      *)
LEMMA PlacedAppend ==
  ASSUME NEW msgs \in Seq(Messages), NEW S \in Seq(AnyCell), NEW h \in Nat,
         h <= Len(msgs), NEW m \in Messages, NEW start,
         Placed(start, h, msgs, S), Len(S) = start[Len(msgs) + 1] - 1
  PROVE  \E s : /\ Placed(s, h, Append(msgs, m), S \o Cells(Len(msgs) + 1, m))
                /\ Len(S \o Cells(Len(msgs) + 1, m))
                     = s[Len(Append(msgs, m)) + 1] - 1
<1> DEFINE n == Len(msgs)
           M == Append(msgs, m)
           C == Cells(n + 1, m)
           s == [i \in h + 1 .. n + 2 |->
                   IF i = n + 2 THEN start[n + 1] + Size(m) ELSE start[i]]
<1>1. n \in Nat /\ h \in Nat /\ h <= n /\ Size(m) \in 2 .. 4
  BY SizeIs
<1>2. M \in Seq(Messages) /\ Len(M) = n + 1 /\ M[n + 1] = m
      /\ \A i \in 1 .. n : M[i] = msgs[i]
  OBVIOUS
<1>3. C \in Seq(AnyCell) /\ Len(C) = Size(m)
  BY <1>1, CellsAre
<1>4. /\ start \in [h + 1 .. n + 1 -> Int]
      /\ start[h + 1] = 1
      /\ \A i \in h + 1 .. n : start[i + 1] = start[i] + Size(msgs[i])
      /\ \A i \in h + 1 .. n, k \in h + 1 .. n + 1 :
           i < k => start[k] >= start[i] + Size(msgs[i])
      /\ Len(S) = start[n + 1] - 1
      /\ \A i \in h + 1 .. n : \A j \in 1 .. Size(msgs[i]) :
           start[i] + j - 1 <= Len(S) =>
             S[start[i] + j - 1] = Cells(i, msgs[i])[j]
  BY DEF Placed
<1>5. \A i \in h + 1 .. n : msgs[i] \in Messages /\ Size(msgs[i]) \in 2 .. 4
  BY <1>1, SizeIs
<1> HIDE DEF n, M, C
<1>6. s \in [h + 1 .. n + 2 -> Int] /\ s[n + 2] = start[n + 1] + Size(m)
      /\ \A i \in h + 1 .. n + 1 : s[i] = start[i]
  <2>1. start[n + 1] + Size(m) \in Int
    BY <1>1, <1>4
  <2>2. \A i \in h + 1 .. n + 1 : i # n + 2 /\ start[i] \in Int
    BY <1>1, <1>4
  <2>3. n + 2 \in h + 1 .. n + 2
    BY <1>1
  <2>4. h + 1 .. n + 2 = (h + 1 .. n + 1) \cup {n + 2}
    BY <1>1
  <2> QED
    BY <2>1, <2>2, <2>3, <2>4
<1> HIDE DEF s
<1>7. s[h + 1] = 1
  BY <1>1, <1>4, <1>6
<1>8. ASSUME NEW i \in h + 1 .. n + 1
      PROVE  s[i + 1] = s[i] + Size(M[i])
  <2>1. CASE i = n + 1
    BY <1>1, <1>2, <1>6, <2>1
  <2>2. CASE i # n + 1
    <3>1. i \in h + 1 .. n /\ i + 1 \in h + 1 .. n + 1 /\ i \in 1 .. n
      BY <1>1, <2>2
    <3>2. M[i] = msgs[i]
      BY <1>2, <3>1
    <3>3. start[i + 1] = start[i] + Size(msgs[i])
      BY <1>4, <3>1
    <3> QED
      BY <1>6, <3>1, <3>2, <3>3
  <2> QED
    BY <2>1, <2>2
<1>9. ASSUME NEW i \in h + 1 .. n
      PROVE  /\ start[i] \in Int /\ start[i] >= 1
             /\ M[i] = msgs[i]
             /\ Size(M[i]) \in 2 .. 4
             /\ start[n + 1] >= start[i] + Size(M[i])
             /\ start[n + 1] \in Int
  <2>1. i \in 1 .. n /\ i \in h + 1 .. n + 1 /\ h + 1 \in h + 1 .. n
        /\ n + 1 \in h + 1 .. n + 1 /\ i < n + 1
    BY <1>1
  <2>2. M[i] = msgs[i] /\ Size(msgs[i]) \in 2 .. 4
        /\ Size(msgs[h + 1]) \in 2 .. 4
    BY <1>2, <1>5, <2>1
  <2>3. start[i] \in Int /\ start[n + 1] \in Int
    BY <1>4, <2>1
  <2>4. start[n + 1] >= start[i] + Size(msgs[i])
    BY <1>4, <2>1
  <2>5. h + 1 < i => start[i] >= start[h + 1] + Size(msgs[h + 1])
    BY <1>4, <2>1
  <2>6. start[h + 1] = 1
    BY <1>4
  <2>7. CASE i = h + 1
    BY <2>2, <2>3, <2>4, <2>6, <2>7
  <2>8. CASE i # h + 1
    <3>1. h + 1 < i
      BY <1>1, <2>8
    <3>2. start[i] >= 1 + Size(msgs[h + 1])
      BY <2>5, <2>6, <3>1
    <3>3. start[i] >= 1
      BY <2>2, <2>3, <3>2
    <3> QED
      BY <2>2, <2>3, <2>4, <3>3
  <2> QED
    BY <2>7, <2>8
<1>10. ASSUME NEW i \in h + 1 .. n + 1, NEW k \in h + 1 .. n + 2, i < k
       PROVE  s[k] >= s[i] + Size(M[i])
  <2>1. CASE i = n + 1
    <3>1. k = i + 1
      BY <1>1, <1>10, <2>1
    <3>2. s[k] = s[i] + Size(M[i])
      BY <1>8, <3>1
    <3>3. s[k] = start[n + 1] + Size(m) /\ start[n + 1] \in Int
      BY <1>1, <1>4, <1>6, <2>1, <3>1
    <3> QED
      BY <1>1, <3>2, <3>3
  <2>2. CASE i # n + 1 /\ k = n + 2
    <3>1. i \in h + 1 .. n /\ i \in h + 1 .. n + 1
      BY <1>1, <2>2
    <3>2. s[i] = start[i] /\ s[k] = start[n + 1] + Size(m)
      BY <1>6, <2>2, <3>1
    <3>3. PICK z \in 2 .. 4, y \in 2 .. 4 : z = Size(M[i]) /\ y = Size(m)
      BY <1>1, <1>9, <3>1
    <3>4. /\ start[i] \in Int /\ start[n + 1] \in Int
          /\ start[n + 1] >= start[i] + z
      BY <1>9, <3>1, <3>3
    <3>5. start[n + 1] + y >= start[i] + z
      BY <3>4
    <3> QED
      BY <3>2, <3>3, <3>5
  <2>3. CASE i # n + 1 /\ k # n + 2
    <3>1. i \in h + 1 .. n /\ i \in h + 1 .. n + 1 /\ k \in h + 1 .. n + 1
      BY <1>1, <2>3
    <3>2. start[k] >= start[i] + Size(msgs[i])
      BY <1>4, <1>10, <3>1
    <3> QED
      BY <1>6, <1>9, <3>1, <3>2
  <2> QED
    BY <2>1, <2>2, <2>3
<1>11. /\ S \o C \in Seq(AnyCell)
       /\ Len(S \o C) = Len(S) + Len(C)
       /\ \A k \in 1 .. Len(S) : (S \o C)[k] = S[k]
       /\ \A k \in 1 .. Len(C) : (S \o C)[Len(S) + k] = C[k]
  <2>1. S \in Seq(AnyCell) /\ C \in Seq(AnyCell)
    BY <1>3
  <2> QED
    BY <2>1, JoinedCells
<1>a. start[n + 1] \in Int /\ Len(S) \in Nat
  BY <1>1, <1>4
<1>b. Len(S \o C) = s[n + 2] - 1
  BY <1>1, <1>3, <1>4, <1>6, <1>11, <1>a
<1>c. ASSUME NEW i \in h + 1 .. n + 1, NEW j \in 1 .. Size(M[i])
      PROVE  (S \o C)[s[i] + j - 1] = Cells(i, M[i])[j]
  <2>1. CASE i = n + 1
    <3>1. M[i] = m /\ s[i] = start[n + 1] /\ j \in 1 .. Len(C)
      BY <1>1, <1>2, <1>3, <1>6, <2>1
    <3>2. s[i] + j - 1 = Len(S) + j
      <4>1. j \in Int /\ Len(S) = start[n + 1] - 1
        BY <1>1, <1>2, <1>4, <2>1
      <4> QED
        BY <1>a, <3>1, <4>1
    <3>3. (S \o C)[Len(S) + j] = C[j]
      BY <1>11, <3>1
    <3> QED
      BY <2>1, <3>1, <3>2, <3>3 DEF C
  <2>2. CASE i # n + 1
    <3>1. i \in h + 1 .. n /\ i \in h + 1 .. n + 1
      BY <1>1, <2>2
    <3>2. s[i] = start[i]
      BY <1>6, <3>1
    <3>3. start[i] + j - 1 \in 1 .. Len(S)
      <4>1. PICK z \in 2 .. 4 : z = Size(M[i])
        BY <1>9, <3>1
      <4>2. /\ start[i] \in Int /\ start[i] >= 1
            /\ start[n + 1] >= start[i] + z
        BY <1>9, <3>1, <4>1
      <4>3. j \in 1 .. z
        BY <4>1
      <4>4. Len(S) = start[n + 1] - 1 /\ start[n + 1] \in Int
        BY <1>4, <1>a
      <4>5. PICK a \in Int, b \in Int, l \in Int :
              /\ a = start[i] /\ l = Len(S)
              /\ a >= 1 /\ b >= a + z /\ l = b - 1
        BY <4>2, <4>4
      <4>6. PICK c \in Int : c = j /\ 1 <= c /\ c <= z
        BY <4>3
      <4>7. a + c - 1 \in 1 .. l
        <5>1. a >= 1 /\ a + z <= b /\ l = b - 1
          BY <4>5
        <5>2. 1 <= c /\ c <= z
          BY <4>6
        <5>3. a + c - 1 >= 1 /\ a + c - 1 <= l
          BY <5>1, <5>2
        <5> QED
          BY <5>3
      <4>8. a + j - 1 \in 1 .. l
        BY <4>6, <4>7
      <4> QED
        BY <4>5, <4>8
    <3>4. j \in 1 .. Size(msgs[i])
      BY <1>9, <3>1
    <3>5. S[start[i] + j - 1] = Cells(i, msgs[i])[j]
      BY <1>4, <3>1, <3>3, <3>4
    <3> QED
      BY <1>9, <1>11, <3>1, <3>2, <3>3, <3>5
  <2> QED
    BY <2>1, <2>2
<1>12. Placed(s, h, M, S \o C)
  <2>1. Len(M) + 1 = n + 2 /\ Len(M) = n + 1
    BY <1>1, <1>2
  <2>2. Len(S \o C) <= s[n + 2] - 1
    BY <1>b, <1>11
  <2> QED
    BY <1>6, <1>7, <1>8, <1>10, <1>c, <2>1, <2>2 DEF Placed
<1> QED
  BY <1>2, <1>b, <1>12 DEF n, M, C
LEMMA PlacedBounds ==
  ASSUME NEW msgs \in Seq(Messages), NEW S \in Seq(AnyCell), NEW h \in Nat,
         NEW start, Placed(start, h, msgs, S),
         NEW i \in h + 1 .. Len(msgs)
  PROVE  /\ msgs[i] \in Messages
         /\ Size(msgs[i]) \in 2 .. 4
         /\ start[i] \in Int /\ start[i] >= 1
         /\ start[Len(msgs) + 1] \in Int
         /\ start[Len(msgs) + 1] >= start[i] + Size(msgs[i])
         /\ i > h + 1 => start[i] >= 1 + Size(msgs[h + 1])
<1> DEFINE n == Len(msgs)
<1>1. /\ n \in Nat /\ h + 1 \in h + 1 .. n /\ h + 1 \in 1 .. n /\ i \in 1 .. n
      /\ i \in h + 1 .. n + 1 /\ n + 1 \in h + 1 .. n + 1 /\ i < n + 1
  OBVIOUS
<1>2. msgs[i] \in Messages /\ msgs[h + 1] \in Messages
  BY <1>1
<1>3. Size(msgs[i]) \in 2 .. 4 /\ Size(msgs[h + 1]) \in 2 .. 4
  BY <1>2, SizeIs
<1> HIDE DEF n
<1>4. /\ start[i] \in Int /\ start[n + 1] \in Int /\ start[h + 1] = 1
  BY <1>1 DEF Placed, n
<1>5. start[n + 1] >= start[i] + Size(msgs[i])
  BY <1>1 DEF Placed, n
<1>6. i > h + 1 => start[i] >= start[h + 1] + Size(msgs[h + 1])
  BY <1>1 DEF Placed, n
<1>7. i = h + 1 => start[i] >= 1
  BY <1>4
<1>8. i > h + 1 => start[i] >= 1
  <2>1. PICK z \in 2 .. 4 : z = Size(msgs[h + 1])
    BY <1>3
  <2> QED
    BY <1>4, <1>6, <2>1
<1>9. i = h + 1 \/ i > h + 1
  OBVIOUS
<1> QED
  BY <1>2, <1>3, <1>4, <1>5, <1>6, <1>7, <1>8, <1>9 DEF n

LEMMA Cut ==
  ASSUME NEW S \in Seq(AnyCell), NEW e \in 0 .. Len(S)
  PROVE  /\ SubSeq(S, e + 1, Len(S)) \in Seq(AnyCell)
         /\ Len(SubSeq(S, e + 1, Len(S))) = Len(S) - e
         /\ \A k \in 1 .. Len(S) - e : SubSeq(S, e + 1, Len(S))[k] = S[k + e]
         /\ SubSeq(S, 1, e) \in Seq(AnyCell)
         /\ Len(SubSeq(S, 1, e)) = e
         /\ \A k \in 1 .. e : SubSeq(S, 1, e)[k] = S[k]
OBVIOUS

(* The first message taken out.                                            *)
LEMMA PlacedShift ==
  ASSUME NEW msgs \in Seq(Messages), NEW S \in Seq(AnyCell), NEW h \in Nat,
         h < Len(msgs), NEW start, Placed(start, h, msgs, S),
         NEW e \in 2 .. 4, e = Size(msgs[h + 1]), e <= Len(S)
  PROVE  \E s :
           /\ Placed(s, h + 1, msgs, SubSeq(S, e + 1, Len(S)))
           /\ Len(S) = start[Len(msgs) + 1] - 1 =>
                Len(SubSeq(S, e + 1, Len(S))) = s[Len(msgs) + 1] - 1
<1> DEFINE n == Len(msgs)
           T == SubSeq(S, e + 1, Len(S))
           s == [i \in h + 2 .. n + 1 |-> start[i] - e]
<1>1. n \in Nat /\ h + 1 \in h + 1 .. n /\ Len(S) \in Nat
  OBVIOUS
<1>2. /\ T \in Seq(AnyCell) /\ Len(T) = Len(S) - e
      /\ \A k \in 1 .. Len(S) - e : T[k] = S[k + e]
  BY Cut
<1> HIDE DEF n, T
<1>3. /\ start \in [h + 1 .. n + 1 -> Int]
      /\ start[h + 1] = 1
      /\ start[h + 2] = 1 + e
      /\ Len(S) <= start[n + 1] - 1
  <2>1. /\ start \in [h + 1 .. n + 1 -> Int] /\ start[h + 1] = 1
        /\ Len(S) <= start[n + 1] - 1
    BY DEF Placed, n
  <2>2. start[(h + 1) + 1] = start[h + 1] + Size(msgs[h + 1])
    BY <1>1 DEF Placed, n
  <2> QED
    BY <2>1, <2>2
<1>4. s \in [h + 2 .. n + 1 -> Int]
  BY <1>1, <1>3
<1>5. \A i \in h + 2 .. n + 1 : s[i] = start[i] - e /\ start[i] \in Int
  BY <1>1, <1>3
<1> HIDE DEF s
<1>6. s[h + 2] = 1
  BY <1>1, <1>3, <1>5 DEF n
<1>7. ASSUME NEW i \in h + 2 .. n
      PROVE  s[i + 1] = s[i] + Size(msgs[i])
  <2>1. i \in h + 1 .. n /\ i \in h + 2 .. n + 1 /\ i + 1 \in h + 2 .. n + 1
    BY <1>1
  <2>2. PICK z \in 2 .. 4 : z = Size(msgs[i])
    BY <2>1, PlacedBounds DEF n
  <2>3. start[i + 1] = start[i] + Size(msgs[i])
    BY <2>1 DEF Placed, n
  <2> QED
    BY <1>5, <2>1, <2>2, <2>3
<1>8. ASSUME NEW i \in h + 2 .. n, NEW k \in h + 2 .. n + 1, i < k
      PROVE  s[k] >= s[i] + Size(msgs[i])
  <2>1. /\ i \in h + 1 .. n /\ i \in h + 2 .. n + 1 /\ k \in h + 1 .. n + 1
    BY <1>1
  <2>2. PICK z \in 2 .. 4 : z = Size(msgs[i])
    BY <2>1, PlacedBounds DEF n
  <2>3. start[k] >= start[i] + Size(msgs[i])
    BY <1>8, <2>1 DEF Placed, n
  <2>4. /\ s[k] = start[k] - e /\ s[i] = start[i] - e
        /\ start[k] \in Int /\ start[i] \in Int
    BY <1>5, <2>1
  <2>5. start[k] >= start[i] + z
    BY <2>2, <2>3
  <2>6. s[k] >= s[i] + z
    BY <2>4, <2>5
  <2> QED
    BY <2>2, <2>6
<1>9. n + 1 \in h + 2 .. n + 1
  BY <1>1
<1>10. Len(T) <= s[n + 1] - 1
  <2>1. PICK b \in Int : b = start[n + 1] /\ s[n + 1] = b - e
    BY <1>5, <1>9
  <2>2. PICK l \in Nat : l = Len(S) /\ Len(T) = l - e
    BY <1>1, <1>2
  <2>3. l <= b - 1
    BY <1>3, <2>1, <2>2
  <2>4. l - e <= b - e - 1
    BY <2>3
  <2> QED
    BY <2>1, <2>2, <2>4
<1>11. Len(S) = start[n + 1] - 1 => Len(T) = s[n + 1] - 1
  BY <1>1, <1>2, <1>5, <1>9
<1>12. ASSUME NEW i \in h + 2 .. n, NEW j \in 1 .. Size(msgs[i]),
              s[i] + j - 1 <= Len(T)
       PROVE  T[s[i] + j - 1] = Cells(i, msgs[i])[j]
  <2>1. i \in h + 1 .. n /\ i \in h + 2 .. n + 1 /\ i > h + 1
    BY <1>1
  <2>2. PICK z \in 2 .. 4 : z = Size(msgs[i])
    BY <2>1, PlacedBounds DEF n
  <2>3. PICK c \in 1 .. z : c = j
    BY <2>2
  <2>4. PICK a \in Int : a = start[i] /\ a >= 1 + e /\ s[i] = a - e
    BY <1>5, <2>1, PlacedBounds DEF n
  <2>5. a - e + c - 1 \in 1 .. Len(S) - e
    <3>1. PICK l \in Nat : l = Len(S) /\ Len(T) = l - e
      BY <1>1, <1>2
    <3>2. a - e + c - 1 <= l - e
      BY <1>12, <2>3, <2>4, <3>1
    <3>3. a - e + c - 1 >= 1
      BY <2>3, <2>4
    <3> QED
      BY <2>3, <3>1, <3>2, <3>3
  <2>6. T[a - e + c - 1] = S[a - e + c - 1 + e]
    BY <1>2, <2>5
  <2>7. a - e + c - 1 + e = a + c - 1 /\ a + c - 1 <= Len(S)
    <3>1. PICK l \in Nat : l = Len(S)
      BY <1>1
    <3>2. a - e + c - 1 <= l - e
      BY <2>5, <3>1
    <3> QED
      BY <3>1, <3>2
  <2>8. S[start[i] + j - 1] = Cells(i, msgs[i])[j]
    BY <2>1, <2>3, <2>4, <2>7 DEF Placed, n
  <2> QED
    BY <2>3, <2>4, <2>6, <2>7, <2>8
<1>13. Placed(s, h + 1, msgs, T)
  <2>1. (h + 1) + 1 = h + 2
    OBVIOUS
  <2> QED
    BY <1>4, <1>6, <1>7, <1>8, <1>10, <1>12, <2>1 DEF Placed, n
<1> QED
  BY <1>11, <1>13 DEF n, T

(* What is behind is thrown away.                                          *)
LEMMA PlacedPrefix ==
  ASSUME NEW msgs \in Seq(Messages), NEW S \in Seq(AnyCell), NEW h \in Nat,
         h <= Len(msgs), NEW start, Placed(start, h, msgs, S),
         NEW T \in Seq(AnyCell), Len(T) <= Len(S),
         \A k \in 1 .. Len(T) : T[k] = S[k]
  PROVE  Placed(start, h, msgs, T)
<1> DEFINE n == Len(msgs)
<1>1. /\ n \in Nat /\ Len(S) \in Nat /\ Len(T) \in Nat
      /\ n + 1 \in h + 1 .. n + 1
  OBVIOUS
<1> HIDE DEF n
<1>2. Len(T) <= start[n + 1] - 1
  <2>1. start[n + 1] \in Int /\ Len(S) <= start[n + 1] - 1
    BY <1>1 DEF Placed, n
  <2> QED
    BY <1>1, <2>1
<1>3. ASSUME NEW i \in h + 1 .. n, NEW j \in 1 .. Size(msgs[i]),
             start[i] + j - 1 <= Len(T)
      PROVE  T[start[i] + j - 1] = Cells(i, msgs[i])[j]
  <2>1. PICK z \in 2 .. 4 : z = Size(msgs[i])
    BY PlacedBounds DEF n
  <2>2. PICK c \in 1 .. z : c = j
    BY <2>1
  <2>3. PICK a \in Int : a = start[i] /\ a >= 1
    BY PlacedBounds DEF n
  <2>4. a + c - 1 \in 1 .. Len(T) /\ a + c - 1 <= Len(S)
    BY <1>1, <1>3, <2>2, <2>3
  <2>5. S[start[i] + j - 1] = Cells(i, msgs[i])[j]
    BY <2>2, <2>3, <2>4 DEF Placed, n
  <2> QED
    BY <2>2, <2>3, <2>4, <2>5
<1> QED
  BY <1>2, <1>3 DEF Placed, n

(* What the loop of hybrid_push_cb finds at the front of the buffer.       *)
LEMMA FrontIs ==
  ASSUME sent \in Seq(Messages), buffer \in Seq(AnyCell), NEW h \in Nat,
         h <= Len(sent), NEW start, Placed(start, h, sent, buffer),
         Blanks # {}
  PROVE  /\ h + 1 \in 1 .. Len(sent)
         /\ buffer[1].of = h + 1
         /\ MessageEnd = Size(sent[h + 1])
         /\ MessageEnd \in 2 .. 4
         /\ MessageEnd <= Len(buffer) =>
              SubSeq(buffer, 1, MessageEnd) = Cells(h + 1, sent[h + 1])
<1>1. PICK b \in Blanks : TRUE
  OBVIOUS
<1>2. b \in 1 .. Len(buffer) /\ Len(buffer) \in Nat /\ buffer[b].part = "blank"
  BY <1>1 DEF Blanks
<1>3. h + 1 \in h + 1 .. Len(sent)
  <2>1. SUFFICES ASSUME h = Len(sent) PROVE FALSE
    OBVIOUS
  <2>2. start[h + 1] = 1 /\ Len(buffer) <= start[h + 1] - 1
    BY <2>1 DEF Placed
  <2> QED
    BY <1>2, <2>2
<1>4. /\ start[h + 1] = 1 /\ h + 1 \in 1 .. Len(sent)
      /\ sent[h + 1] \in Messages
  BY <1>3 DEF Placed
<1>5. PICK z \in 2 .. 4 : z = Size(sent[h + 1])
  BY <1>3, PlacedBounds
<1>6. ASSUME NEW j \in 1 .. z, j <= Len(buffer)
      PROVE  buffer[j] = Cells(h + 1, sent[h + 1])[j]
  <2>1. start[h + 1] + j - 1 <= Len(buffer) =>
          buffer[start[h + 1] + j - 1] = Cells(h + 1, sent[h + 1])[j]
    BY <1>3, <1>5 DEF Placed
  <2>2. start[h + 1] + j - 1 = j
    BY <1>4
  <2> QED
    BY <1>6, <2>1, <2>2
<1>7. /\ Cells(h + 1, sent[h + 1])[1] = Cell(h + 1, "headers")
      /\ Cells(h + 1, sent[h + 1])[2] = Cell(h + 1, "blank")
      /\ Cells(h + 1, sent[h + 1]) \in Seq(AnyCell)
      /\ Len(Cells(h + 1, sent[h + 1])) = z
  BY <1>4, <1>5, CellsAre
<1>8. buffer[1] = Cell(h + 1, "headers")
  <2>1. 1 \in 1 .. z /\ 1 <= Len(buffer)
    BY <1>2
  <2> QED
    BY <1>6, <1>7, <2>1
<1>9. b # 1
  BY <1>2, <1>8 DEF Cell
<1>10. 2 <= Len(buffer) /\ 2 \in 1 .. z
  BY <1>2, <1>9
<1>11. buffer[2] = Cell(h + 1, "blank")
  BY <1>6, <1>7, <1>10
<1>12. 2 \in Blanks
  BY <1>10, <1>11 DEF Blanks, Cell
<1>13. \A k \in Blanks : 2 <= k
  <2> TAKE k \in Blanks
  <2>1. k \in 1 .. Len(buffer) /\ buffer[k].part = "blank"
    BY DEF Blanks
  <2>2. k # 1
    BY <1>8, <2>1 DEF Cell
  <2> QED
    BY <2>1, <2>2
<1>14. HeaderEnd = 2
  <2>1. \E k \in Blanks : \A j \in Blanks : k <= j
    BY <1>12, <1>13
  <2>2. HeaderEnd \in Blanks /\ \A j \in Blanks : HeaderEnd <= j
    BY <2>1 DEF HeaderEnd
  <2>3. HeaderEnd \in Int /\ HeaderEnd <= 2 /\ 2 <= HeaderEnd
    BY <1>12, <1>13, <2>2 DEF Blanks
  <2> QED
    BY <2>3
<1>15. buffer[1].of = h + 1
  BY <1>8 DEF Cell
<1>16. MessageEnd = z
  BY <1>5, <1>14, <1>15 DEF MessageEnd, BodyLength, Size
<1>17. ASSUME z <= Len(buffer)
       PROVE  SubSeq(buffer, 1, z) = Cells(h + 1, sent[h + 1])
  <2>1. z \in 0 .. Len(buffer)
    BY <1>2, <1>17
  <2>2. /\ SubSeq(buffer, 1, z) \in Seq(AnyCell)
        /\ Len(SubSeq(buffer, 1, z)) = z
        /\ \A k \in 1 .. z : SubSeq(buffer, 1, z)[k] = buffer[k]
    BY <2>1, Cut
  <2>3. \A k \in 1 .. z :
          SubSeq(buffer, 1, z)[k] = Cells(h + 1, sent[h + 1])[k]
    BY <1>2, <1>6, <1>17, <2>2
  <2> HIDE DEF Cells
  <2> QED
    BY <1>7, <2>2, <2>3
<1> QED
  BY <1>4, <1>5, <1>15, <1>16, <1>17
=============================================================================
