------------------------- MODULE MessageFileProofs -------------------------
(***************************************************************************)
(* Induction over the naturals, in a form the provers can use, and what    *)
(* follows from it for the messages of a file.  Both feeds' proofs build   *)
(* on it.                                                                  *)
(***************************************************************************)
EXTENDS MessageFile, FiniteSetTheorems, TLAPS

\* Induction up to n, with the set of the numbers that have the property in
\* the place of the property.  If n were missing, adding 1 would map the
\* numbers below n that are in the set one to one to those other than 0, and
\* there are fewer of these.
LEMMA IntervalInduction ==
  ASSUME NEW n \in Nat, NEW U, 0 \in U,
         \A i \in 0 .. n - 1 : i \in U => i + 1 \in U
  PROVE  n \in U
<1> SUFFICES ASSUME n \notin U PROVE FALSE
  OBVIOUS
<1> DEFINE W == U \cap (0 .. n)
           succ == [i \in W |-> i + 1]
<1>1. IsFiniteSet(0 .. n)
  BY FS_Interval
<1>2. IsFiniteSet(W) /\ IsFiniteSet(W \ {0})
  BY <1>1, FS_Intersection, FS_RemoveElement
<1>3. Cardinality(W \ {0}) < Cardinality(W)
  <2>1. 0 \in W
    OBVIOUS
  <2> HIDE DEF W
  <2>2. Cardinality(W \ {0}) = Cardinality(W) - 1 /\ Cardinality(W) \in Nat
    BY <1>2, <2>1, FS_RemoveElement, FS_CardinalityType
  <2> QED
    BY <2>2
<1>4. succ \in [W -> W \ {0}]
  OBVIOUS
<1>5. \E x, y \in W : x # y /\ succ[x] = succ[y]
  <2> HIDE DEF W, succ
  <2> QED
    BY <1>2, <1>3, <1>4, FS_PigeonHole
<1> QED
  BY <1>5

-----------------------------------------------------------------------------
\* Where the k-th message starts or, for the one after the last, would.
MessageAt(f, k) == IF k = 1 THEN 0 ELSE MessageEnd(f, f.starts[k - 1])

\* The messages cover the file without gaps up to the first position at which
\* read_message() returns an empty span.
LEMMA MessagesTile ==
  ASSUME NEW f, IsFile(f), StartsAreMessages(f)
  PROVE  /\ \A k \in 1 .. Len(f.starts) :
              /\ f.starts[k] \in Nat
              /\ MessageAt(f, k) = f.starts[k]
              /\ MessageSize(f, f.starts[k]) \in Nat
              /\ MessageSize(f, f.starts[k]) > 0
              /\ PositionAfter(f, f.starts[k]) =
                   f.starts[k] + MessageSize(f, f.starts[k])
              /\ MessageAt(f, k + 1) =
                   f.starts[k] + MessageSize(f, f.starts[k])
         /\ MessageSize(f, MessageAt(f, Len(f.starts) + 1)) = 0
         /\ \A k \in 1 .. Len(f.starts) + 1 : MessageAt(f, k) \in Nat
<1>1. f.starts \in Seq(Nat) /\ Len(f.starts) \in Nat
  BY DEF StartsAreMessages
<1>2. ASSUME NEW k \in 1 .. Len(f.starts)
      PROVE  /\ f.starts[k] \in Nat
             /\ MessageAt(f, k) = f.starts[k]
             /\ MessageSize(f, f.starts[k]) \in Nat
             /\ MessageSize(f, f.starts[k]) > 0
             /\ PositionAfter(f, f.starts[k]) =
                  f.starts[k] + MessageSize(f, f.starts[k])
             /\ MessageAt(f, k + 1) =
                  f.starts[k] + MessageSize(f, f.starts[k])
  <2> DEFINE p == f.starts[k]
  <2>1. p \in Nat /\ Readable(f, p) /\ MessageAt(f, k) = p
    BY <1>1 DEF StartsAreMessages, MessageAt
  <2>2. MessageAt(f, k + 1) = MessageEnd(f, p)
    BY <1>1 DEF MessageAt
  <2> HIDE DEF p
  <2>3. f.len[p] \in Nat /\ p + LengthPrefixSize <= f.size /\ f.size \in Nat
    BY <2>1 DEF Readable, IsFile, LengthPrefixSize
  <2>4. /\ MessageSize(f, p) = LengthPrefixSize + f.len[p]
        /\ PositionAfter(f, p) = MessageEnd(f, p)
        /\ MessageEnd(f, p) = p + LengthPrefixSize + f.len[p]
    BY <2>1, <2>3 DEF MessageSize, PositionAfter, MessageEnd, LengthPrefixSize
  <2>5. /\ MessageSize(f, p) \in Nat /\ MessageSize(f, p) > 0
        /\ MessageEnd(f, p) = p + MessageSize(f, p)
    <3> DEFINE n == f.len[p]
    <3>1. /\ n \in Nat /\ MessageSize(f, p) = LengthPrefixSize + n
          /\ MessageEnd(f, p) = p + LengthPrefixSize + n
      BY <2>3, <2>4
    <3> HIDE DEF n
    <3> QED
      BY <2>1, <3>1 DEF LengthPrefixSize
  <2> QED
    BY <2>1, <2>2, <2>4, <2>5 DEF p
<1>3. MessageSize(f, MessageAt(f, Len(f.starts) + 1)) = 0
  <2>1. f.starts = <<>> <=> Len(f.starts) + 1 = 1
    BY <1>1
  <2>2. MessageAt(f, Len(f.starts) + 1) =
          IF f.starts = <<>> THEN 0 ELSE MessageEnd(f, f.starts[Len(f.starts)])
    BY <1>1, <2>1 DEF MessageAt
  <2> QED
    BY <2>2 DEF StartsAreMessages, MessageSize
<1>4. ASSUME NEW k \in 1 .. Len(f.starts) + 1 PROVE MessageAt(f, k) \in Nat
  <2>1. CASE k = 1
    BY <2>1 DEF MessageAt
  <2>2. CASE k # 1
    <3>1. k - 1 \in 1 .. Len(f.starts) /\ (k - 1) + 1 = k
      BY <1>1, <2>2
    <3> DEFINE i == k - 1
    <3>2. i \in 1 .. Len(f.starts) /\ k = i + 1
      BY <1>1, <3>1
    <3> HIDE DEF i
    <3>3. /\ f.starts[i] \in Nat /\ MessageSize(f, f.starts[i]) \in Nat
          /\ MessageAt(f, i + 1) = f.starts[i] + MessageSize(f, f.starts[i])
      BY <1>2, <3>2
    <3>4. MessageAt(f, i + 1) \in Nat
      BY <3>3
    <3> QED
      BY <3>2, <3>4
  <2> QED
    BY <2>1, <2>2
<1> QED
  BY <1>2, <1>3, <1>4

\* A later message starts later.
LEMMA StartsIncrease ==
  ASSUME NEW f, IsFile(f), StartsAreMessages(f),
         NEW i \in 1 .. Len(f.starts), NEW j \in 1 .. Len(f.starts), i < j
  PROVE  f.starts[i] < f.starts[j]
<1> DEFINE U == {d \in 0 .. Len(f.starts) :
                   d = 0 \/ i + d > Len(f.starts) \/ f.starts[i] < f.starts[i + d]}
<1>1. Len(f.starts) \in Nat
  BY DEF StartsAreMessages
<1>2. 0 \in U
  BY <1>1
<1>3. ASSUME NEW d \in 0 .. (j - i) - 1, d \in U
      PROVE  d + 1 \in U
  <2>1. i + d \in 1 .. Len(f.starts) /\ i + (d + 1) \in 1 .. Len(f.starts)
        /\ d + 1 \in 0 .. Len(f.starts) /\ i + (d + 1) = (i + d) + 1
    BY <1>1
  <2> DEFINE x == f.starts[i + d]
             y == f.starts[i + (d + 1)]
             n == MessageSize(f, x)
  <2>2. x \in Nat /\ y \in Nat /\ n \in Nat /\ n > 0 /\ f.starts[i] \in Nat
    BY <2>1, MessagesTile
  <2>3. y = x + n
    BY <2>1, MessagesTile
  <2>4. f.starts[i] <= x
    <3>1. CASE d = 0
      <4>1. i + d = i
        BY <3>1
      <4> QED
        BY <2>2, <4>1
    <3>2. CASE d # 0
      <4>1. f.starts[i] < x
        BY <1>1, <1>3, <2>1, <3>2
      <4> QED
        BY <2>2, <4>1
    <3> QED
      BY <3>1, <3>2
  <2> HIDE DEF x, y, n
  <2>5. f.starts[i] < y
    BY <2>2, <2>3, <2>4
  <2> QED
    BY <2>1, <2>5 DEF y
<1>4. j - i \in U
  <2>1. j - i \in Nat
    BY <1>1
  <2> HIDE DEF U
  <2> QED
    BY <1>2, <1>3, <2>1, IntervalInduction
<1> QED
  BY <1>1, <1>4

=============================================================================
