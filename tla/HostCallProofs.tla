--------------------------- MODULE HostCallProofs ---------------------------
(***************************************************************************)
(* What a caller passes to a host function is what the function unpacks,   *)
(* and what the function returns is what the caller reads: for every       *)
(* signature whose stack arguments fit the script's stack, every argument  *)
(* and every result.                                                       *)
(*                                                                         *)
(* The caller places an argument by a sum over the arguments before it,    *)
(* the helper by what its loop has counted so far.  The proof is by        *)
(* induction over the arguments, which is stated for sets of numbers       *)
(* instead of predicates: that makes it a fact of first-order logic.       *)
(***************************************************************************)
EXTENDS HostCall, AvrVMProofs, WellFoundedInduction

-----------------------------------------------------------------------------
(* Induction, and functions defined by it.                                 *)

(* A set that holds 0, and with a number the next one, holds all.          *)
LEMMA AllReached ==
  ASSUME NEW N \in Nat, NEW T,
         0 \in T, \A k \in 1 .. N : k - 1 \in T => k \in T
  PROVE  0 .. N \subseteq T
<1> DEFINE missed == (0 .. N) \ T
<1>1. SUFFICES ASSUME missed # {} PROVE FALSE
  OBVIOUS
<1>2. missed \subseteq Nat
  OBVIOUS
<1>3. PICK m \in missed : \A y \in missed : ~ (<< y, m >> \in OpToRel(<, Nat))
  BY <1>1, <1>2, NatLessThanWellFounded, WFMin, Zenon
<1>4. \A y \in missed : ~ (y < m)
  BY <1>2, <1>3 DEF OpToRel
<1>5. m # 0 /\ m \in Int /\ 0 <= m /\ m <= N
  OBVIOUS
<1>6. m - 1 \notin missed
  BY <1>4, <1>5
<1>7. m - 1 \in 0 .. N /\ m \in 1 .. N
  BY <1>5
<1> QED
  BY <1>6, <1>7

(* A running sum exists, and is a running sum.                             *)
LEMMA Sums ==
  ASSUME NEW d \in Seq(Int), NEW a \in Int
  PROVE  /\ RunningSum(a, d) \in [0 .. Len(d) -> Int]
         /\ RunningSum(a, d)[0] = a
         /\ \A k \in 1 .. Len(d) : RunningSum(a, d)[k] = RunningSum(a, d)[k - 1] + d[k]
<1> DEFINE N == Len(d)
           IsSum(f, m) == /\ f = [k \in 0 .. m |-> f[k]]
                          /\ f[0] = a
                          /\ \A k \in 1 .. m : f[k] = f[k - 1] + d[k]
           sum == RunningSum(a, d)
<1>1. N \in Nat /\ \A k \in 1 .. N : d[k] \in Int
  OBVIOUS
<1> HIDE DEF N
<1>2. \A m \in 0 .. N : \E f : IsSum(f, m)
  <2> DEFINE T == { m \in 0 .. N : \E f : IsSum(f, m) }
  <2>1. 0 \in T
    <3>1. IsSum([k \in 0 .. 0 |-> a], 0)
      OBVIOUS
    <3> HIDE DEF IsSum
    <3> QED
      BY <1>1, <3>1
  <2>2. ASSUME NEW m \in 1 .. N, m - 1 \in T PROVE m \in T
    <3>1. PICK f : IsSum(f, m - 1)
      BY <2>2
    <3> DEFINE g == [k \in 0 .. m |-> IF k = m THEN f[m - 1] + d[m] ELSE f[k]]
    <3>2. /\ g = [k \in 0 .. m |-> g[k]]
          /\ g[0] = a
      BY <3>1, <1>1
    <3>3. ASSUME NEW k \in 1 .. m PROVE g[k] = g[k - 1] + d[k]
      <4>1. CASE k = m
        BY <4>1, <1>1
      <4>2. CASE k # m
        <5>1. k \in 1 .. m - 1 /\ k - 1 # m /\ k \in 0 .. m /\ k - 1 \in 0 .. m
          BY <4>2, <1>1
        <5> QED
          BY <5>1, <4>2, <3>1
      <4> QED
        BY <4>1, <4>2
    <3>4. IsSum(g, m)
      BY <3>2, <3>3
    <3> HIDE DEF IsSum, g
    <3> QED
      BY <3>4, <1>1
  <2> HIDE DEF T
  <2>3. 0 .. N \subseteq T
    BY <1>1, <2>1, <2>2, AllReached
  <2> QED
    BY <2>3 DEF T
<1>3. PICK f : IsSum(f, N)
  BY <1>1, <1>2
<1>4. f = [k \in 0 .. N |-> IF k = 0 THEN a ELSE f[k - 1] + d[k]]
  <2>1. /\ f = [k \in 0 .. N |-> f[k]]
        /\ f[0] = a
        /\ \A k \in 1 .. N : f[k] = f[k - 1] + d[k]
    BY <1>3
  <2>2. ASSUME NEW k \in 0 .. N PROVE f[k] = IF k = 0 THEN a ELSE f[k - 1] + d[k]
    <3>1. CASE k = 0
      BY <2>1, <3>1
    <3>2. CASE k # 0
      <4>1. k \in 1 .. N
        BY <1>1, <3>2
      <4> QED
        BY <2>1, <3>2, <4>1, Zenon
    <3> QED
      BY <3>1, <3>2
  <2> QED
    BY <2>1, <2>2, Zenon
<1>5. sum = [k \in 0 .. N |-> IF k = 0 THEN a ELSE sum[k - 1] + d[k]]
  BY <1>4 DEF RunningSum, N
<1> HIDE DEF sum
<1>6. /\ DOMAIN sum = 0 .. N /\ sum[0] = a
      /\ \A k \in 1 .. N : sum[k] = sum[k - 1] + d[k]
  BY <1>1, <1>5
<1>7. \A k \in 0 .. N : sum[k] \in Int
  <2> DEFINE T == { k \in 0 .. N : sum[k] \in Int }
  <2>1. 0 \in T
    BY <1>1, <1>6
  <2>2. \A k \in 1 .. N : k - 1 \in T => k \in T
    BY <1>1, <1>6
  <2> HIDE DEF T
  <2>3. 0 .. N \subseteq T
    BY <1>1, <2>1, <2>2, AllReached
  <2> QED
    BY <2>3 DEF T
<1>8. sum \in [0 .. N -> Int]
  BY <1>5, <1>6, <1>7
<1> QED
  BY <1>6, <1>8 DEF sum, N

(* What no step lets grow is never more than it was.                       *)
LEMMA NeverGrows ==
  ASSUME NEW N \in Nat, NEW f \in [0 .. N -> Int],
         \A k \in 1 .. N : f[k] <= f[k - 1]
  PROVE  \A j, k \in 0 .. N : j <= k => f[k] <= f[j]
<1> TAKE j \in 0 .. N
<1> DEFINE T == { k \in 0 .. N : j <= k => f[k] <= f[j] }
<1>1. 0 \in T
  OBVIOUS
<1>2. ASSUME NEW k \in 1 .. N, k - 1 \in T PROVE k \in T
  <2>1. f[k] \in Int /\ f[k - 1] \in Int /\ f[j] \in Int /\ f[k] <= f[k - 1]
    OBVIOUS
  <2>2. CASE j = k
    BY <2>1, <2>2
  <2>3. CASE j # k
    BY <1>2, <2>1, <2>3
  <2> QED
    BY <2>2, <2>3
<1> HIDE DEF T
<1>3. 0 .. N \subseteq T
  BY <1>1, <1>2, AllReached
<1> QED
  BY <1>3 DEF T

-----------------------------------------------------------------------------
(* Where the arguments are.                                                *)

LEMMA Sizes ==
  ASSUME NEW f \in Formats
  PROVE  /\ size(f) \in {1, 2, 4, 8} /\ RegsFor(f) \in {2, 4, 8}
         /\ size(f) <= RegsFor(f) /\ ceil_even(size(f)) = RegsFor(f)
<1>1. size(f) \in {1, 2, 4, 8}
  BY DEF Formats, size
<1> QED
  BY <1>1, SMT DEF RegsFor, ceil_even

(* From r25 down, without an overlap.                                      *)
LEMMA Registered ==
  ASSUME NEW s \in Seq(Formats)
  PROVE  /\ FirstReg(s) \in [0 .. Len(s) -> Int] /\ FirstReg(s)[0] = 26
         /\ \A k \in 1 .. Len(s) : FirstReg(s)[k] = FirstReg(s)[k - 1] - RegsFor(s[k])
         /\ \A j, k \in 0 .. Len(s) : j <= k => FirstReg(s)[k] <= FirstReg(s)[j]
<1> DEFINE N == Len(s)
           d == [k \in 1 .. N |-> -RegsFor(s[k])]
           first == FirstReg(s)
<1>1. N \in Nat /\ \A k \in 1 .. N : s[k] \in Formats
  OBVIOUS
<1>2. \A k \in 1 .. N : RegsFor(s[k]) \in Int /\ RegsFor(s[k]) >= 0
  BY <1>1, Sizes
<1>3. d \in Seq(Int) /\ Len(d) = N /\ \A k \in 1 .. N : d[k] = -RegsFor(s[k])
  <2>1. d \in [1 .. N -> Int]
    BY <1>2
  <2> QED
    BY <1>1, <2>1
<1>4. first = RunningSum(26, d)
  BY DEF FirstReg
<1> HIDE DEF N, d, first
<1>5. /\ first \in [0 .. N -> Int] /\ first[0] = 26
      /\ \A k \in 1 .. N : first[k] = first[k - 1] + d[k]
  <2>1. /\ RunningSum(26, d) \in [0 .. Len(d) -> Int]
        /\ RunningSum(26, d)[0] = 26
        /\ \A k \in 1 .. Len(d) : RunningSum(26, d)[k] = RunningSum(26, d)[k - 1] + d[k]
    <3>1. 26 \in Int /\ d \in Seq(Int)
      BY <1>3
    <3> QED
      BY <3>1, Sums, Zenon
  <2> QED
    BY <1>3, <1>4, <2>1, Zenon
<1>6. ASSUME NEW k \in 1 .. N
      PROVE  first[k] = first[k - 1] - RegsFor(s[k]) /\ first[k] <= first[k - 1]
  <2>1. k \in 0 .. N /\ k - 1 \in 0 .. N
    BY <1>1
  <2>2. /\ first[k] \in Int /\ first[k - 1] \in Int /\ first[k] = first[k - 1] + d[k]
        /\ RegsFor(s[k]) \in Int /\ RegsFor(s[k]) >= 0 /\ d[k] = -RegsFor(s[k])
    BY <1>2, <1>3, <1>5, <2>1
  <2> QED
    BY <2>2
<1>7. \A j, k \in 0 .. N : j <= k => first[k] <= first[j]
  BY <1>1, <1>5, <1>6, NeverGrows
<1> QED
  BY <1>5, <1>6, <1>7 DEF first, N

(* Up the stack, the bytes of one argument behind those of the one before. *)
LEMMA Stacked ==
  ASSUME NEW s \in Seq(Formats)
  PROVE  /\ OnStack(s) \in [0 .. Len(s) -> Int] /\ OnStack(s)[0] = 0
         /\ \A k \in 1 .. Len(s) :
              /\ InRegs(s, k) => OnStack(s)[k] = OnStack(s)[k - 1]
              /\ ~InRegs(s, k) => OnStack(s)[k] = OnStack(s)[k - 1] + size(s[k])
         /\ \A j, k \in 0 .. Len(s) : j <= k => OnStack(s)[j] <= OnStack(s)[k]
         /\ StackBytes(s) \in Nat
<1> DEFINE N == Len(s)
           d == [k \in 1 .. N |-> IF InRegs(s, k) THEN 0 ELSE size(s[k])]
           on == OnStack(s)
<1>1. N \in Nat /\ \A k \in 1 .. N : s[k] \in Formats
  OBVIOUS
<1>2. \A k \in 1 .. N : size(s[k]) \in Int /\ size(s[k]) >= 0
  BY <1>1, Sizes
<1>3. /\ d \in Seq(Int) /\ Len(d) = N
      /\ \A k \in 1 .. N : /\ InRegs(s, k) => d[k] = 0
                           /\ ~InRegs(s, k) => d[k] = size(s[k])
                           /\ d[k] \in Int /\ d[k] >= 0
  <2>1. d \in [1 .. N -> Int]
    BY <1>2
  <2> QED
    BY <1>1, <1>2, <2>1
<1>4. on = RunningSum(0, d)
  BY DEF OnStack
<1> HIDE DEF N, d, on
<1>5. /\ on \in [0 .. N -> Int] /\ on[0] = 0
      /\ \A k \in 1 .. N : on[k] = on[k - 1] + d[k]
  <2>1. /\ RunningSum(0, d) \in [0 .. Len(d) -> Int]
        /\ RunningSum(0, d)[0] = 0
        /\ \A k \in 1 .. Len(d) : RunningSum(0, d)[k] = RunningSum(0, d)[k - 1] + d[k]
    <3>1. 0 \in Int /\ d \in Seq(Int)
      BY <1>3
    <3> QED
      BY <3>1, Sums, Zenon
  <2> QED
    BY <1>3, <1>4, <2>1, Zenon
<1>6. ASSUME NEW k \in 1 .. N
      PROVE  /\ InRegs(s, k) => on[k] = on[k - 1]
             /\ ~InRegs(s, k) => on[k] = on[k - 1] + size(s[k])
             /\ on[k] >= on[k - 1]
  <2>1. k \in 0 .. N /\ k - 1 \in 0 .. N
    BY <1>1
  <2>2. on[k] \in Int /\ on[k - 1] \in Int /\ on[k] = on[k - 1] + d[k]
    BY <1>5, <2>1
  <2> QED
    BY <2>2, <1>3
<1>7. \A j, k \in 0 .. N : j <= k => on[j] <= on[k]
  <2> DEFINE f == [k \in 0 .. N |-> -on[k]]
  <2>1. f \in [0 .. N -> Int] /\ \A k \in 0 .. N : f[k] = -on[k] /\ on[k] \in Int
    BY <1>5
  <2>2. \A k \in 1 .. N : f[k] <= f[k - 1]
    BY <1>1, <1>6, <2>1
  <2> HIDE DEF f
  <2>3. \A j, k \in 0 .. N : j <= k => f[k] <= f[j]
    BY <1>1, <2>1, <2>2, NeverGrows
  <2> QED
    BY <2>1, <2>3
<1>8. on[N] \in Int /\ 0 <= on[N]
  BY <1>1, <1>5, <1>7
<1> QED
  BY <1>5, <1>6, <1>7, <1>8 DEF on, N, StackBytes

(* Nothing is on the stack before the first argument that does not fit.    *)
LEMMA FirstInRegs ==
  ASSUME NEW s \in Seq(Formats), NEW k \in 0 .. Len(s), FirstReg(s)[k] >= 8
  PROVE  OnStack(s)[k] = 0
<1> DEFINE N == Len(s)
           T == { n \in 0 .. N : FirstReg(s)[n] >= 8 => OnStack(s)[n] = 0 }
<1>1. N \in Nat
  OBVIOUS
<1>2. 0 \in T
  BY <1>1, Stacked
<1>3. ASSUME NEW n \in 1 .. N, n - 1 \in T PROVE n \in T
  <2> SUFFICES ASSUME FirstReg(s)[n] >= 8 PROVE OnStack(s)[n] = 0
    BY <1>1
  <2>1. n \in 0 .. N /\ n - 1 \in 0 .. N /\ n - 1 <= n
    BY <1>1
  <2>2. FirstReg(s)[n] <= FirstReg(s)[n - 1]
    BY <2>1, Registered
  <2>3. FirstReg(s)[n] \in Int /\ FirstReg(s)[n - 1] \in Int
    BY <2>1, Registered
  <2>4. OnStack(s)[n - 1] = 0
    BY <1>3, <2>2, <2>3
  <2> QED
    BY <2>4, Stacked DEF InRegs
<1> HIDE DEF N, T
<1>4. 0 .. N \subseteq T
  BY <1>1, <1>2, <1>3, AllReached
<1> QED
  BY <1>4 DEF T, N

(* Every byte on the stack is one of exactly one argument.                 *)
LEMMA OneCovers ==
  ASSUME NEW s \in Seq(Formats), NEW n \in 1 .. StackBytes(s)
  PROVE  /\ \E k \in 1 .. Len(s) : Covers(s, k, n)
         /\ \A i, k \in 1 .. Len(s) : Covers(s, i, n) /\ Covers(s, k, n) => i = k
<1> DEFINE N == Len(s)
           on == OnStack(s)
           T == { m \in 0 .. N : n <= on[m] => \E k \in 1 .. N : Covers(s, k, n) }
<1>1. N \in Nat /\ n \in Int /\ 1 <= n
  BY Stacked
<1>2. /\ on[0] = 0 /\ \A k \in 0 .. N : on[k] \in Int
      /\ \A j, k \in 0 .. N : j <= k => on[j] <= on[k]
      /\ n <= on[N]
  BY <1>1, Stacked DEF StackBytes
<1>3. \A k \in 1 .. N : Covers(s, k, n) <=> on[k - 1] < n /\ n <= on[k]
  BY DEF Covers
<1> HIDE DEF on, N
<1>4. 0 \in T
  BY <1>1, <1>2
<1>5. ASSUME NEW m \in 1 .. N, m - 1 \in T PROVE m \in T
  <2>1. CASE n <= on[m - 1]
    BY <1>1, <1>5, <2>1
  <2>2. CASE ~(n <= on[m - 1])
    <3>1. on[m - 1] \in Int
      BY <1>1, <1>2
    <3> QED
      BY <1>1, <1>3, <2>2, <3>1
  <2> QED
    BY <2>1, <2>2
<1>6. \E k \in 1 .. N : Covers(s, k, n)
  <2> HIDE DEF T
  <2>1. 0 .. N \subseteq T
    BY <1>1, <1>4, <1>5, AllReached
  <2> QED
    BY <1>1, <1>2, <2>1 DEF T
<1>7. ASSUME NEW i \in 1 .. N, NEW k \in 1 .. N, Covers(s, i, n), Covers(s, k, n), i < k
      PROVE  FALSE
  <2>1. i \in 0 .. N /\ k - 1 \in 0 .. N /\ i <= k - 1
    BY <1>1, <1>7
  <2>2. on[i] <= on[k - 1] /\ on[i] \in Int /\ on[k - 1] \in Int
    BY <1>2, <2>1
  <2>3. on[k - 1] < n /\ n <= on[i]
    BY <1>3, <1>7
  <2> QED
    BY <1>1, <2>2, <2>3
<1>8. \A i, k \in 1 .. N : Covers(s, i, n) /\ Covers(s, k, n) => i = k
  BY <1>1, <1>7
<1> QED
  BY <1>6, <1>8 DEF N

(* So it is the byte of that argument that the caller pushes.              *)
LEMMA StackBytesOf ==
  ASSUME NEW s \in Signatures, NEW n \in 1 .. StackBytes(s)
  PROVE  /\ StackByte(s, n) \in Byte
         /\ \A k \in 1 .. Len(s) : Covers(s, k, n) =>
              /\ n - OnStack(s)[k - 1] \in 1 .. size(s[k])
              /\ StackByte(s, n) = ArgumentByte(k, n - OnStack(s)[k - 1])
<1>1. s \in Seq(Formats)
  BY SignaturesAssumption
<1> DEFINE k == CHOOSE k \in 1 .. Len(s) : Covers(s, k, n)
           j == n - OnStack(s)[k - 1]
<1>2. k \in 1 .. Len(s) /\ Covers(s, k, n) /\ \A i \in 1 .. Len(s) : Covers(s, i, n) => i = k
  BY <1>1, OneCovers
<1>3. StackByte(s, n) = Value(s, k)[j]
  BY DEF StackByte
<1> HIDE DEF k
<1>4. j \in 1 .. size(s[k])
  <2>1. Len(s) \in Nat /\ s[k] \in Formats /\ k \in 0 .. Len(s) /\ k - 1 \in 0 .. Len(s)
    BY <1>1, <1>2
  <2>2. /\ OnStack(s)[k - 1] \in Int /\ OnStack(s)[k] \in Int /\ n \in Int
        /\ OnStack(s)[k - 1] < n /\ n <= OnStack(s)[k] /\ size(s[k]) \in Int
    <3>1. OnStack(s)[k - 1] \in Int /\ OnStack(s)[k] \in Int
      BY <1>1, <2>1, Stacked
    <3>3. n \in Int
      OBVIOUS
    <3>2. size(s[k]) \in Int
      BY <2>1, Sizes
    <3> QED
      BY <1>2, <3>1, <3>2, <3>3 DEF Covers
  <2>3. OnStack(s)[k] = OnStack(s)[k - 1] + size(s[k])
    <3>1. ~InRegs(s, k)
      BY <1>1, <1>2, <2>2, Stacked
    <3> QED
      BY <1>1, <1>2, <3>1, Stacked
  <2> HIDE DEF j
  <2>4. j \in Int /\ 1 <= j /\ j <= size(s[k])
    BY <2>2, <2>3 DEF j
  <2> QED
    BY <2>2, <2>4
<1>5. StackByte(s, n) = ArgumentByte(k, j)
  BY <1>3, <1>4 DEF Value
<1>6. ArgumentByte(k, j) \in Byte
  BY <1>1, <1>2, <1>4, ArgumentsAssumption
<1> QED
  BY <1>2, <1>4, <1>5, <1>6

(* Every register is in at most one argument, and arguments are in bytes.  *)
LEMMA OneHolds ==
  ASSUME NEW s \in Signatures, NEW n \in Int
  PROVE  /\ \A i, k \in 1 .. Len(s) : InArgument(s, n, i) /\ InArgument(s, n, k) => i = k
         /\ \A k \in 1 .. Len(s) : InArgument(s, n, k) =>
              Value(s, k)[n - FirstReg(s)[k] + 1] \in Byte
<1>1. s \in Seq(Formats) /\ Len(s) \in Nat
  BY SignaturesAssumption
<1>2. ASSUME NEW i \in 1 .. Len(s), NEW k \in 1 .. Len(s),
             InArgument(s, n, i), InArgument(s, n, k), i < k
      PROVE  FALSE
  <2>1. /\ i \in 0 .. Len(s) /\ k - 1 \in 0 .. Len(s) /\ k \in 0 .. Len(s) /\ i <= k - 1
        /\ s[i] \in Formats /\ s[k] \in Formats
    BY <1>1, <1>2
  <2>2. /\ FirstReg(s)[i] \in Int /\ FirstReg(s)[k] \in Int /\ FirstReg(s)[k - 1] \in Int
        /\ FirstReg(s)[k - 1] <= FirstReg(s)[i]
        /\ FirstReg(s)[k] = FirstReg(s)[k - 1] - RegsFor(s[k])
    BY <1>1, <2>1, Registered
  <2>3. size(s[k]) \in Int /\ RegsFor(s[k]) \in Int /\ size(s[k]) <= RegsFor(s[k])
    BY <2>1, Sizes
  <2>4. /\ n - FirstReg(s)[i] + 1 \in 1 .. size(s[i])
        /\ n - FirstReg(s)[k] + 1 \in 1 .. size(s[k])
    BY <1>2, Zenon DEF InArgument
  <2>5. n - FirstReg(s)[i] + 1 >= 1 /\ n - FirstReg(s)[k] + 1 <= size(s[k])
    <3> DEFINE p == n - FirstReg(s)[i] + 1
               q == n - FirstReg(s)[k] + 1
    <3>1. size(s[i]) \in Int
      BY <2>1, Sizes
    <3>2. p \in 1 .. size(s[i]) /\ q \in 1 .. size(s[k])
      BY <2>4
    <3> HIDE DEF p, q
    <3>3. p >= 1 /\ q <= size(s[k])
      BY <2>3, <3>1, <3>2
    <3> QED
      BY <3>3 DEF p, q
  <2> DEFINE here == FirstReg(s)[k]
             above == FirstReg(s)[k - 1]
             there == FirstReg(s)[i]
             room == RegsFor(s[k])
  <2>6. /\ here \in Int /\ above \in Int /\ there \in Int /\ above <= there
        /\ here = above - room /\ room \in Int /\ size(s[k]) \in Int /\ size(s[k]) <= room
        /\ n - there + 1 >= 1 /\ n - here + 1 <= size(s[k])
    BY <2>2, <2>3, <2>5, Zenon
  <2> HIDE DEF here, above, there, room
  <2> QED
    BY <2>6
<1>3. ASSUME NEW k \in 1 .. Len(s), InArgument(s, n, k)
      PROVE  Value(s, k)[n - FirstReg(s)[k] + 1] \in Byte
  BY <1>1, <1>3, ArgumentsAssumption DEF InArgument, Value
<1> QED
  BY <1>1, <1>2, <1>3

-----------------------------------------------------------------------------
(* The loop of avrvm_unpack_args_gcc has, after n arguments, taken each    *)
(* from its place and stands at the place of the next.                     *)

Taken(c, s, k) ==
  Patched(s[k], IF InRegs(s, k) THEN FromRegs(c, s[k], FirstReg(s)[k])
                                ELSE FromStack(c, s[k], OnStack(s)[k - 1]))

Counted(c, s, n, at) ==
  /\ at.are_using_stack \in BOOLEAN
  /\ at.are_using_stack <=> FirstReg(s)[n] < 8
  /\ at.idx = IF FirstReg(s)[n] < 8 THEN OnStack(s)[n] ELSE FirstReg(s)[n]
  /\ at.args = [k \in 1 .. n |-> Taken(c, s, k)]

LEMMA OnePass ==
  ASSUME NEW c, NEW s \in Seq(Formats), NEW n \in 1 .. Len(s), NEW at, Counted(c, s, n - 1, at)
  PROVE  Counted(c, s, n, unpack_arg(c, s[n], at))
<1> DEFINE f == s[n]
           first == FirstReg(s)[n]
           reg == at.idx - ceil_even(size(f))
           depth == IF at.are_using_stack THEN at.idx ELSE 0
           next == unpack_arg(c, f, at)
<1>1. /\ n \in 0 .. Len(s) /\ n - 1 \in 0 .. Len(s) /\ n - 1 <= n /\ f \in Formats /\ n \in Nat
  OBVIOUS
<1>2. /\ first \in Int /\ FirstReg(s)[n - 1] \in Int /\ first <= FirstReg(s)[n - 1]
      /\ first = FirstReg(s)[n - 1] - ceil_even(size(f))
  <2>1. ceil_even(size(f)) = RegsFor(f)
    BY <1>1, Sizes
  <2> QED
    BY <1>1, <2>1, Registered
<1>3. /\ InRegs(s, n) <=> first >= 8
      /\ InRegs(s, n) => OnStack(s)[n] = OnStack(s)[n - 1]
      /\ ~InRegs(s, n) => OnStack(s)[n] = OnStack(s)[n - 1] + size(f)
  BY Stacked DEF InRegs
<1>4. Append(at.args, Taken(c, s, n)) = [k \in 1 .. n |-> Taken(c, s, k)]
  <2> DEFINE list == [k \in 1 .. n - 1 |-> Taken(c, s, k)]
  <2>1. at.args = list /\ Len(list) = n - 1
    BY <1>1 DEF Counted
  <2>2. Append(list, Taken(c, s, n)) = [k \in 1 .. n |-> Taken(c, s, k)]
    BY <1>1, <2>1
  <2> QED
    BY <2>1, <2>2
<1>5. CASE first >= 8
  <2>1. ~at.are_using_stack /\ at.idx = FirstReg(s)[n - 1]
    BY <1>2, <1>5 DEF Counted
  <2>2. reg = first
    BY <1>2, <2>1
  <2>3. next = [idx |-> first, are_using_stack |-> FALSE,
                args |-> Append(at.args, Patched(f, FromRegs(c, f, first)))]
    BY <1>5, <2>1, <2>2 DEF unpack_arg
  <2>4. Taken(c, s, n) = Patched(f, FromRegs(c, f, first))
    BY <1>3, <1>5 DEF Taken
  <2> HIDE DEF next, first, f
  <2>5. /\ next.idx = first /\ next.are_using_stack = FALSE
        /\ next.args = Append(at.args, Taken(c, s, n))
    BY <2>3, <2>4
  <2>6. ~(first < 8)
    BY <1>2, <1>5
  <2> QED
    BY <1>4, <2>5, <2>6 DEF Counted, first, next, f
<1>6. CASE first < 8
  <2>1. depth = OnStack(s)[n - 1]
    <3>1. CASE FirstReg(s)[n - 1] < 8
      BY <3>1 DEF Counted
    <3>2. CASE ~(FirstReg(s)[n - 1] < 8)
      <4>1. OnStack(s)[n - 1] = 0
        BY <1>1, <1>2, <3>2, FirstInRegs
      <4> QED
        BY <3>2, <4>1 DEF Counted
    <3> QED
      BY <3>1, <3>2
  <2>2. ~(~at.are_using_stack /\ reg >= 8)
    BY <1>2, <1>6 DEF Counted
  <2>3. next = [idx |-> depth + size(f), are_using_stack |-> TRUE,
                args |-> Append(at.args, Patched(f, FromStack(c, f, depth)))]
    BY <2>2 DEF unpack_arg
  <2>4. Taken(c, s, n) = Patched(f, FromStack(c, f, depth)) /\ OnStack(s)[n] = depth + size(f)
    BY <1>2, <1>3, <1>6, <2>1 DEF Taken
  <2> HIDE DEF next, first, f, depth
  <2>5. /\ next.idx = OnStack(s)[n] /\ next.are_using_stack = TRUE
        /\ next.args = Append(at.args, Taken(c, s, n))
    BY <2>3, <2>4
  <2> QED
    BY <1>4, <1>6, <2>5 DEF Counted, first, next, f
<1> QED
  BY <1>2, <1>5, <1>6

LEMMA Unpacked ==
  ASSUME NEW c, NEW s \in Seq(Formats)
  PROVE  avrvm_unpack_args_gcc(c, s) = [k \in 1 .. Len(s) |-> Taken(c, s, k)]
<1> DEFINE N == Len(s)
           IsLoop(f, m) == /\ f = [k \in 0 .. m |-> f[k]]
                           /\ f[0] = NoneUnpacked
                           /\ \A k \in 1 .. m : f[k] = unpack_arg(c, s[k], f[k - 1])
           loop == CHOOSE f : f = [n \in 0 .. Len(s) |->
                                     IF n = 0 THEN NoneUnpacked ELSE unpack_arg(c, s[n], f[n - 1])]
<1>1. avrvm_unpack_args_gcc(c, s) = loop[N].args
  BY DEF avrvm_unpack_args_gcc
<1>2. N \in Nat
  OBVIOUS
<1>3. \A m \in 0 .. N : \E f : IsLoop(f, m)
  <2> DEFINE T == { m \in 0 .. N : \E f : IsLoop(f, m) }
  <2>1. 0 \in T
    <3>1. IsLoop([k \in 0 .. 0 |-> NoneUnpacked], 0)
      OBVIOUS
    <3> HIDE DEF IsLoop
    <3> QED
      BY <1>2, <3>1
  <2>2. ASSUME NEW m \in 1 .. N, m - 1 \in T PROVE m \in T
    <3>1. PICK f : IsLoop(f, m - 1)
      BY <2>2
    <3> DEFINE g == [k \in 0 .. m |-> IF k = m THEN unpack_arg(c, s[m], f[m - 1]) ELSE f[k]]
    <3>2. /\ g = [k \in 0 .. m |-> g[k]]
          /\ g[0] = NoneUnpacked
      BY <3>1, <1>2
    <3>3. ASSUME NEW k \in 1 .. m PROVE g[k] = unpack_arg(c, s[k], g[k - 1])
      <4>1. k - 1 # m /\ k \in 0 .. m /\ k - 1 \in 0 .. m
        BY <1>2
      <4>2. CASE k = m
        BY <4>1, <4>2
      <4>3. CASE k # m
        <5>1. k \in 1 .. m - 1
          BY <4>3, <1>2
        <5> QED
          BY <4>1, <5>1, <4>3, <3>1
      <4> QED
        BY <4>2, <4>3
    <3>4. IsLoop(g, m)
      BY <3>2, <3>3
    <3> HIDE DEF IsLoop, g
    <3> QED
      BY <3>4, <1>2
  <2> HIDE DEF T
  <2>3. 0 .. N \subseteq T
    BY <1>2, <2>1, <2>2, AllReached
  <2> QED
    BY <2>3 DEF T
<1>4. PICK f : IsLoop(f, N)
  BY <1>2, <1>3
<1>5. f = [n \in 0 .. N |-> IF n = 0 THEN NoneUnpacked ELSE unpack_arg(c, s[n], f[n - 1])]
  <2>1. /\ f = [k \in 0 .. N |-> f[k]]
        /\ f[0] = NoneUnpacked
        /\ \A k \in 1 .. N : f[k] = unpack_arg(c, s[k], f[k - 1])
    BY <1>4
  <2>2. ASSUME NEW k \in 0 .. N
        PROVE  f[k] = IF k = 0 THEN NoneUnpacked ELSE unpack_arg(c, s[k], f[k - 1])
    <3>1. CASE k = 0
      BY <2>1, <3>1
    <3>2. CASE k # 0
      <4>1. k \in 1 .. N
        BY <1>2, <3>2
      <4> QED
        BY <2>1, <3>2, <4>1, Zenon
    <3> QED
      BY <3>1, <3>2
  <2> QED
    BY <2>1, <2>2, Zenon
<1>6. loop = [n \in 0 .. N |-> IF n = 0 THEN NoneUnpacked ELSE unpack_arg(c, s[n], loop[n - 1])]
  BY <1>5
<1> HIDE DEF loop, N
<1>7. loop[0] = NoneUnpacked /\ \A n \in 1 .. N : loop[n] = unpack_arg(c, s[n], loop[n - 1])
  BY <1>2, <1>6
<1> DEFINE T == { n \in 0 .. N : Counted(c, s, n, loop[n]) }
<1>8. 0 \in T
  <2>1. FirstReg(s)[0] = 26
    BY Registered
  <2>2. << >> = [k \in 1 .. 0 |-> Taken(c, s, k)]
    OBVIOUS
  <2>3. Counted(c, s, 0, NoneUnpacked)
    BY <2>1, <2>2 DEF Counted, NoneUnpacked
  <2> QED
    BY <1>2, <1>7, <2>3
<1>9. ASSUME NEW n \in 1 .. N, n - 1 \in T PROVE n \in T
  <2>1. Counted(c, s, n, unpack_arg(c, s[n], loop[n - 1]))
    BY <1>9, OnePass DEF N
  <2> QED
    BY <1>2, <1>7, <2>1
<1> HIDE DEF T
<1>10. 0 .. N \subseteq T
  BY <1>2, <1>8, <1>9, AllReached
<1>11. Counted(c, s, N, loop[N])
  BY <1>2, <1>10 DEF T
<1> QED
  BY <1>1, <1>11 DEF Counted, N

-----------------------------------------------------------------------------
(* The invariant.  What is pushed lies in the last cells of the SRAM and   *)
(* the stack pointer below it; a call leaves the registers full.           *)

Cell(s, n) == SramSize - 1 - StackBytes(s) + n

CallInv ==
  /\ ctx \in Context
  /\ fmt \in Signatures
  /\ unpushed \in 0 .. StackBytes(fmt)
  /\ stage \in {"passing", "called"} =>
       /\ ctx.sp = SramBase + Cell(fmt, unpushed)
       /\ \A n \in unpushed + 1 .. StackBytes(fmt) :
            ctx.sram[Cell(fmt, n)] = StackByte(fmt, n)
  /\ stage = "called" =>
       /\ unpushed = 0
       /\ \A k \in 1 .. Len(fmt) :
            InRegs(fmt, k) => FromRegs(ctx, fmt[k], FirstReg(fmt)[k]) = Value(fmt, k)
  /\ ArgsArrive

LEMMA Cells ==
  ASSUME NEW s \in Signatures, NEW n \in 0 .. StackBytes(s)
  PROVE  /\ Cell(s, n) \in Int /\ -1 <= Cell(s, n) /\ Cell(s, n) <= 65439
         /\ n > 0 => Cell(s, n) \in SramIndex
<1>1. StackBytes(s) \in Nat /\ StackBytes(s) <= SramSize
  BY SignaturesAssumption, RoomAssumption, Stacked
<1>2. n \in Int /\ 0 <= n /\ n <= StackBytes(s)
  BY <1>1
<1> QED
  BY <1>1, <1>2, SramAssumption DEF Cell, SramIndex

LEMMA CallStart == CallInit => CallInv
<1> SUFFICES ASSUME CallInit PROVE CallInv
  OBVIOUS
<1>1. StackBytes(fmt) \in Nat /\ StackBytes(fmt) <= SramSize /\ fmt \in Signatures
  BY SignaturesAssumption, RoomAssumption, Stacked DEF CallInit
<1>2. SramBase + SramSize - 1 \in Word /\ 0 \in Word /\ 255 \in Byte /\ 0 \in Byte
  BY SramAssumption, WordRange, ByteRange DEF SramBase
<1>3. {} \in Sreg
  BY DEF Sreg
<1>4. ctx \in Context
  BY <1>2, <1>3 DEF CallInit, Context
<1>5. unpushed = StackBytes(fmt) /\ ctx.sp = SramBase + Cell(fmt, unpushed)
  BY <1>1, SramAssumption DEF CallInit, Cell, SramBase
<1>6. \A n \in unpushed + 1 .. StackBytes(fmt) : FALSE
  BY <1>1, <1>5
<1>7. stage = "passing" /\ ArgsArrive
  BY DEF CallInit, ArgsArrive
<1> QED
  BY <1>1, <1>4, <1>5, <1>6, <1>7 DEF CallInv

(* A push fills the next cell.                                             *)
LEMMA PushStep ==
  ASSUME CallInv, PassOnStack
  PROVE  CallInv'
<1> DEFINE T == StackBytes(fmt)
           o == Cell(fmt, unpushed)
           b == StackByte(fmt, unpushed)
<1>1. T \in Nat /\ fmt \in Signatures /\ fmt \in Seq(Formats) /\ ctx \in Context
  BY SignaturesAssumption, Stacked DEF CallInv
<1>2. unpushed \in 1 .. T /\ unpushed \in 0 .. T /\ unpushed - 1 \in 0 .. T /\ unpushed \in Int
  BY <1>1 DEF CallInv, PassOnStack
<1>3. /\ stage = "passing" /\ stage' = "passing" /\ fmt' = fmt /\ unpushed' = unpushed - 1
      /\ ctx' = push(ctx, b)
  BY DEF PassOnStack
<1>4. o \in SramIndex /\ o \in Int /\ 0 <= o /\ b \in Byte
  BY <1>1, <1>2, Cells, StackBytesOf, SramAssumption DEF SramIndex
<1>5. ctx.sp = SramBase + o /\ ctx.sp >= SramBase - 1
  BY <1>3, <1>4 DEF CallInv, SramBase
<1> HIDE DEF b
<1>6. /\ ctx' \in Context /\ ctx'.sp = ctx.sp - 1
      /\ \A q \in SramIndex : ctx.sp # SramBase + q => ctx'.sram[q] = ctx.sram[q]
      /\ \A q \in SramIndex : ctx.sp = SramBase + q => ctx'.sram[q] = b
  BY <1>1, <1>3, <1>4, <1>5, PushKeeps
<1>7. ctx'.sp = SramBase + Cell(fmt, unpushed - 1)
  BY <1>1, <1>2, <1>5, <1>6, SramAssumption DEF Cell, SramBase
<1>8. ASSUME NEW n \in unpushed .. T PROVE ctx'.sram[Cell(fmt, n)] = StackByte(fmt, n)
  <2>1. n \in 0 .. T /\ n > 0 /\ n \in Int
    BY <1>1, <1>2
  <2>2. Cell(fmt, n) \in SramIndex
    BY <1>1, <2>1, Cells
  <2>3. CASE n = unpushed
    BY <1>5, <1>6, <2>2, <2>3 DEF b
  <2>4. CASE n # unpushed
    <3>1. n \in unpushed + 1 .. T
      BY <1>2, <2>1, <2>4
    <3>2. ctx.sram[Cell(fmt, n)] = StackByte(fmt, n)
      BY <1>3, <3>1 DEF CallInv
    <3>3. SramBase + o # SramBase + Cell(fmt, n)
      BY <1>1, <1>2, <2>1, <2>4, SramAssumption DEF Cell, SramBase
    <3> QED
      BY <1>5, <1>6, <2>2, <3>2, <3>3
  <2> QED
    BY <2>3, <2>4
<1>9. (unpushed - 1) + 1 = unpushed
  BY <1>2
<1> QED
  BY <1>1, <1>2, <1>3, <1>6, <1>7, <1>8, <1>9 DEF CallInv, ArgsArrive

(* The loads leave every argument that has registers in its own.           *)
LEMMA LoadStep ==
  ASSUME CallInv, PassInRegs
  PROVE  CallInv'
<1> DEFINE Loaded(n) == IF \E k \in 1 .. Len(fmt) : InArgument(fmt, n, k)
                        THEN LET k == CHOOSE k \in 1 .. Len(fmt) : InArgument(fmt, n, k)
                             IN  Value(fmt, k)[n - FirstReg(fmt)[k] + 1]
                        ELSE ctx.regs[n]
           regs == [n \in RegIndex |-> Loaded(n)]
<1>1. fmt \in Signatures /\ fmt \in Seq(Formats) /\ ctx \in Context /\ Len(fmt) \in Nat
  BY SignaturesAssumption DEF CallInv
<1>2. ASSUME NEW n \in RegIndex PROVE Loaded(n) \in Byte
  <2>1. n \in Int /\ ctx.regs[n] \in Byte
    BY <1>1, RegRange, ContextFields
  <2> QED
    BY <1>1, <2>1, OneHolds
<1>3. ASSUME NEW n \in Int, NEW k \in 1 .. Len(fmt), InArgument(fmt, n, k)
      PROVE  Loaded(n) = Value(fmt, k)[n - FirstReg(fmt)[k] + 1]
  <2>1. (CHOOSE i \in 1 .. Len(fmt) : InArgument(fmt, n, i)) = k
    BY <1>1, <1>3, OneHolds
  <2> QED
    BY <1>3, <2>1
<1>4. ctx' = [ctx EXCEPT !.regs = regs]
  BY DEF PassInRegs
<1> HIDE DEF Loaded
<1>5. regs \in [RegIndex -> Byte] /\ \A n \in RegIndex : regs[n] = Loaded(n)
  BY <1>2
<1> HIDE DEF regs
<1>6. /\ ctx' \in Context /\ ctx'.sp = ctx.sp /\ ctx'.sram = ctx.sram /\ ctx'.regs = regs
  BY <1>1, <1>4, <1>5 DEF Context
<1>7. ASSUME NEW k \in 1 .. Len(fmt), InRegs(fmt, k)
      PROVE  FromRegs(ctx', fmt[k], FirstReg(fmt)[k]) = Value(fmt, k)
  <2> DEFINE first == FirstReg(fmt)[k]
  <2>1. k \in 0 .. Len(fmt) /\ k - 1 \in 0 .. Len(fmt) /\ 0 \in 0 .. Len(fmt) /\ 0 <= k - 1
        /\ fmt[k] \in Formats
    BY <1>1
  <2>2. first \in Int /\ first >= 8 /\ first + size(fmt[k]) <= 26 /\ size(fmt[k]) \in Int
    <3>1. /\ first \in Int /\ FirstReg(fmt)[k - 1] \in Int /\ FirstReg(fmt)[k - 1] <= 26
          /\ first = FirstReg(fmt)[k - 1] - RegsFor(fmt[k])
      BY <1>1, <2>1, Registered
    <3>2. size(fmt[k]) <= RegsFor(fmt[k]) /\ size(fmt[k]) \in Int /\ RegsFor(fmt[k]) \in Int
      BY <2>1, Sizes
    <3> QED
      BY <1>7, <3>1, <3>2 DEF InRegs
  <2>3. ASSUME NEW j \in 1 .. size(fmt[k])
        PROVE  regs[first + j - 1] = ArgumentByte(k, j)
    <3>1. /\ first + j - 1 \in Int /\ 0 <= first + j - 1 /\ first + j - 1 <= 31
          /\ (first + j - 1) - first + 1 = j
      BY <2>2
    <3>2. first + j - 1 \in RegIndex /\ InArgument(fmt, first + j - 1, k)
      BY <1>7, <3>1, RegRange DEF InArgument
    <3>3. regs[first + j - 1] = Value(fmt, k)[(first + j - 1) - first + 1]
      BY <1>3, <1>5, <3>1, <3>2
    <3> QED
      BY <3>1, <3>3 DEF Value
  <2> QED
    BY <1>6, <2>3 DEF FromRegs, Value
<1> QED
  BY <1>1, <1>6, <1>7 DEF CallInv, PassInRegs, ArgsArrive

(* The offset of a pointer, and the pointer again.                         *)
LEMMA PointerBack ==
  ASSUME NEW v, v[1] \in Byte, v[2] \in Byte
  PROVE  Wrap16(WordOf(Bytes(Wrap16(WordOf(v) - SramBase))) + SramBase) = WordOf(v)
<1> DEFINE w == WordOf(v)
           u == Wrap16(w - SramBase)
<1>1. w \in Int /\ 0 <= w /\ w <= 65535
  BY ByteRange, SMT DEF WordOf
<1> HIDE DEF w
<1>2. u \in Int /\ 0 <= u /\ u <= 65535 /\ Wrap16(u + SramBase) = w
  BY <1>1, SMT DEF Wrap16, SramBase
<1> HIDE DEF u
<1>3. WordOf(Bytes(u)) = u
  <2>1. WordOf(Bytes(u)) = Lo(u) + 256 * Hi(u)
    BY DEF WordOf, Bytes
  <2>2. Lo(u) + 256 * Hi(u) = u
    BY <1>2, SMT DEF Lo, Hi
  <2> QED
    BY <2>1, <2>2
<1> QED
  BY <1>2, <1>3 DEF u, w

(* The helper finds every argument where the caller has put it.            *)
LEMMA UnpackStep ==
  ASSUME CallInv, Unpack
  PROVE  CallInv'
<1>1. /\ fmt \in Signatures /\ fmt \in Seq(Formats) /\ ctx \in Context /\ Len(fmt) \in Nat
      /\ StackBytes(fmt) \in Nat
  BY SignaturesAssumption, Stacked DEF CallInv
<1>2. stage = "called" /\ unpushed = 0 /\ ctx.sp = SramBase + Cell(fmt, 0)
  BY DEF Unpack, CallInv
<1>3. \A n \in 1 .. StackBytes(fmt) : ctx.sram[Cell(fmt, n)] = StackByte(fmt, n)
  BY <1>1, <1>2 DEF CallInv
<1>4. ASSUME NEW k \in 1 .. Len(fmt), ~InRegs(fmt, k)
      PROVE  FromStack(ctx, fmt[k], OnStack(fmt)[k - 1]) = Value(fmt, k)
  <2> DEFINE below == OnStack(fmt)[k - 1]
  <2>1. k \in 0 .. Len(fmt) /\ k - 1 \in 0 .. Len(fmt) /\ 0 \in 0 .. Len(fmt) /\ 0 <= k - 1
        /\ Len(fmt) \in 0 .. Len(fmt) /\ k <= Len(fmt) /\ fmt[k] \in Formats
    BY <1>1
  <2>2. below \in Int /\ 0 <= below
    BY <1>1, <2>1, Stacked
  <2>3. OnStack(fmt)[k] \in Int /\ OnStack(fmt)[k] <= StackBytes(fmt)
    BY <1>1, <2>1, Stacked DEF StackBytes
  <2>4. OnStack(fmt)[k] = below + size(fmt[k]) /\ size(fmt[k]) \in Int
    BY <1>1, <1>4, <2>1, Stacked, Sizes
  <2>5. ASSUME NEW j \in 1 .. size(fmt[k])
        PROVE  readmem(ctx, Wrap16(ctx.sp + below + j)) = ArgumentByte(k, j)
    <3> DEFINE n == below + j
    <3>1. n \in 1 .. StackBytes(fmt) /\ n \in 0 .. StackBytes(fmt) /\ n > 0 /\ n - below = j
      BY <1>1, <2>2, <2>3, <2>4
    <3>2. Covers(fmt, k, n)
      BY <2>2, <2>4 DEF Covers
    <3> HIDE DEF n, below
    <3>3. StackByte(fmt, n) = ArgumentByte(k, j)
      BY <1>1, <3>1, <3>2, StackBytesOf DEF below
    <3>4. /\ Cell(fmt, n) \in SramIndex /\ Cell(fmt, n) \in Int
          /\ 0 <= Cell(fmt, n) /\ Cell(fmt, n) <= 65439 /\ Cell(fmt, n) < SramSize
      BY <1>1, <3>1, Cells, SramAssumption DEF SramIndex
    <3>5. ctx.sp + below + j = SramBase + Cell(fmt, n)
      BY <1>1, <1>2, <2>2, SramAssumption DEF Cell, n, SramBase
    <3>6. Wrap16(SramBase + Cell(fmt, n)) = SramBase + Cell(fmt, n)
      BY <3>4, SMT DEF Wrap16, SramBase
    <3>7. readmem(ctx, SramBase + Cell(fmt, n)) = ctx.sram[(SramBase + Cell(fmt, n)) - SramBase]
      <4>1. /\ SramBase + Cell(fmt, n) \in Int /\ SramBase + Cell(fmt, n) >= SramBase
            /\ SramBase + Cell(fmt, n) < SramBase + SramSize
        BY <3>4, SramAssumption DEF SramBase
      <4> QED
        BY <4>1, SramRead
    <3>8. (SramBase + Cell(fmt, n)) - SramBase = Cell(fmt, n)
      BY <3>4 DEF SramBase
    <3> QED
      BY <1>3, <3>1, <3>3, <3>5, <3>6, <3>7, <3>8
  <2> QED
    BY <2>5 DEF FromStack, Value
<1>5. ASSUME NEW k \in 1 .. Len(fmt) PROVE Taken(ctx, fmt, k) = Patched(fmt[k], Value(fmt, k))
  <2>1. CASE InRegs(fmt, k)
    BY <1>2, <2>1 DEF Taken, CallInv
  <2>2. CASE ~InRegs(fmt, k)
    BY <1>4, <2>2 DEF Taken
  <2> QED
    BY <2>1, <2>2
<1>6. args' = [k \in 1 .. Len(fmt) |-> Taken(ctx, fmt, k)]
  BY <1>1, Unpacked DEF Unpack
<1>7. Len(args') = Len(fmt) /\ \A k \in 1 .. Len(fmt) : args'[k] = Patched(fmt[k], Value(fmt, k))
  BY <1>1, <1>5, <1>6
<1>8. ASSUME NEW k \in 1 .. Len(fmt)
      PROVE  IF fmt[k] = "P" THEN Wrap16(WordOf(args'[k]) + SramBase) = WordOf(Value(fmt, k))
                             ELSE args'[k] = Value(fmt, k)
  <2>1. CASE fmt[k] = "P"
    <3>1. size(fmt[k]) = 2
      BY <2>1 DEF size
    <3>2. Value(fmt, k)[1] \in Byte /\ Value(fmt, k)[2] \in Byte
      BY <1>1, <3>1, ArgumentsAssumption DEF Value
    <3>3. args'[k] = Bytes(Wrap16(WordOf(Value(fmt, k)) - SramBase))
      BY <1>7, <2>1 DEF Patched
    <3> QED
      BY <2>1, <3>2, <3>3, PointerBack
  <2>2. CASE fmt[k] # "P"
    BY <1>7, <2>2 DEF Patched
  <2> QED
    BY <2>1, <2>2
<1>9. /\ stage' = "unpacked" /\ fmt' = fmt /\ ctx' = ctx /\ unpushed' = unpushed
      /\ DOMAIN fmt = 1 .. Len(fmt)
  BY <1>1 DEF Unpack
<1>10. ArgsArrive'
  BY <1>7, <1>8, <1>9 DEF ArgsArrive
<1> QED
  BY <1>9, <1>10 DEF CallInv

-----------------------------------------------------------------------------
(* The result.                                                             *)

(* The registers a result is written to, and what is written there.        *)
ResultIn(c, d, f, val) ==
  LET first == 26 - RegsFor(f)
  IN  /\ \A n \in first .. 25 : d.regs[n] = Expected(f, val)[n - first + 1]
      /\ d = [c EXCEPT !.regs = [n \in RegIndex |-> IF n \in first .. 25 THEN d.regs[n]
                                                   ELSE c.regs[n]]]

(* The halves of a byte extended by its sign, and of two bytes.            *)
LEMMA Extended ==
  ASSUME NEW b \in Int, 0 <= b, b <= 255
  PROVE  LET w == Wrap16(Signed(b, 128))
         IN  w \in Int /\ Lo(w) = b /\ Hi(w) = IF b >= 128 THEN 255 ELSE 0
<1>1. CASE b >= 128
  <2>1. Signed(b, 128) = b - 256
    BY <1>1 DEF Signed
  <2>2. Wrap16(b - 256) = b + 65280
    BY <1>1, SMT DEF Wrap16
  <2>3. Lo(b + 65280) = b /\ Hi(b + 65280) = 255
    BY <1>1, SMT DEF Lo, Hi
  <2> QED
    BY <1>1, <2>1, <2>2, <2>3
<1>2. CASE ~(b >= 128)
  <2>1. Signed(b, 128) = b
    BY <1>2 DEF Signed
  <2>2. Wrap16(b) = b /\ Lo(b) = b /\ Hi(b) = 0
    BY <1>2, SMT DEF Wrap16, Lo, Hi
  <2> QED
    BY <1>2, <2>1, <2>2
<1> QED
  BY <1>1, <1>2

LEMMA BytesOfWord ==
  ASSUME NEW v, v[1] \in Byte, v[2] \in Byte
  PROVE  WordOf(v) \in Int /\ Lo(WordOf(v)) = v[1] /\ Hi(WordOf(v)) = v[2]
BY ByteRange, SMT DEF WordOf, Lo, Hi

(* One or two bytes, by way of regsw[12].                                  *)
LEMMA ReturnWords ==
  ASSUME NEW f \in Formats, size(f) <= 2, NEW val \in [1 .. size(f) -> Byte]
  PROVE  /\ ReturnWord(f, val) \in Int
         /\ Lo(ReturnWord(f, val)) = Expected(f, val)[1]
         /\ Hi(ReturnWord(f, val)) = Expected(f, val)[2]
<1>1. 1 \in 1 .. size(f) /\ val[1] \in Int /\ 0 <= val[1] /\ val[1] <= 255
  BY Sizes, ByteRange
<1>2. CASE f \in {"c", "b"}
  <2>1. size(f) = 1 /\ f \notin {"B", "P"} /\ ReturnWord(f, val) = Wrap16(Signed(val[1], 128))
    BY <1>2 DEF size, ReturnWord
  <2>2. Expected(f, val) = << val[1], IF val[1] >= 128 THEN 255 ELSE 0 >>
    <3>1. Expected(f, val) = << val[1], HighByte(f, val[1]) >>
      BY <2>1 DEF Expected
    <3>2. HighByte(f, val[1]) = IF val[1] >= 128 THEN 255 ELSE 0
      BY <2>1 DEF HighByte
    <3> QED
      BY <3>1, <3>2
  <2>3. /\ Wrap16(Signed(val[1], 128)) \in Int
        /\ Lo(Wrap16(Signed(val[1], 128))) = val[1]
        /\ Hi(Wrap16(Signed(val[1], 128))) = IF val[1] >= 128 THEN 255 ELSE 0
    BY <1>1, Extended
  <2> QED
    BY <2>1, <2>2, <2>3
<1>3. CASE f = "B"
  <2>1. size(f) = 1 /\ ReturnWord(f, val) = val[1]
    BY <1>3 DEF size, ReturnWord
  <2>2. Expected(f, val) = << val[1], 0 >>
    BY <1>3, <2>1 DEF Expected, HighByte
  <2>3. Lo(val[1]) = val[1] /\ Hi(val[1]) = 0
    BY <1>1, SMT DEF Lo, Hi
  <2> QED
    BY <1>1, <2>1, <2>2, <2>3
<1>4. CASE f \in {"h", "H"}
  <2>1. size(f) = 2 /\ ReturnWord(f, val) = WordOf(val) /\ f # "P"
    BY <1>4 DEF size, ReturnWord
  <2>2. Expected(f, val) = val
    BY <2>1 DEF Expected
  <2>3. /\ WordOf(val) \in Int /\ Lo(WordOf(val)) = val[1] /\ Hi(WordOf(val)) = val[2]
    <3>1. val[1] \in Byte /\ val[2] \in Byte
      BY <2>1
    <3> QED
      BY <3>1, BytesOfWord
  <2> QED
    BY <2>1, <2>2, <2>3
<1>5. CASE f = "P"
  <2>1. size(f) = 2 /\ ReturnWord(f, val) = Wrap16(WordOf(val) + SramBase)
    BY <1>5 DEF size, ReturnWord
  <2>2. Expected(f, val) = Bytes(Wrap16(WordOf(val) + SramBase))
    BY <1>5, <2>1 DEF Expected
  <2>3. 2 \in 1 .. size(f) /\ val[2] \in Int
    BY <2>1, ByteRange
  <2>4. Wrap16(WordOf(val) + SramBase) \in Int
    BY <1>1, <2>3 DEF WordOf, Wrap16, SramBase
  <2> QED
    BY <2>1, <2>2, <2>4 DEF Bytes
<1> QED
  <2>1. f \in {"c", "b", "B", "h", "H", "P"}
    BY DEF Formats, size
  <2> QED
    BY <2>1, <1>2, <1>3, <1>4, <1>5

LEMMA ShortResult ==
  ASSUME NEW c \in Context, NEW f \in Formats, size(f) <= 2, NEW val \in [1 .. size(f) -> Byte]
  PROVE  /\ avrvm_pack_return_gcc(c, f, val) \in Context
         /\ ResultIn(c, avrvm_pack_return_gcc(c, f, val), f, val)
<1> DEFINE w == ReturnWord(f, val)
           d == SetWord(c, 12, w)
           first == 26 - RegsFor(f)
<1>1. avrvm_pack_return_gcc(c, f, val) = d
  BY Sizes DEF avrvm_pack_return_gcc
<1>2. w \in Int /\ Lo(w) = Expected(f, val)[1] /\ Hi(w) = Expected(f, val)[2]
  BY ReturnWords
<1>3. first = 24
  <2>1. size(f) \in {1, 2}
    BY Sizes
  <2> QED
    BY <2>1, SMT DEF RegsFor
<1> HIDE DEF w, first
<1>4. d \in Context
  BY <1>2, WordRegisters
<1>5. d = [c EXCEPT !.regs[24] = Lo(w), !.regs[25] = Hi(w)]
  BY DEF SetWord
<1>6. d.regs = [c.regs EXCEPT ![24] = Lo(w), ![25] = Hi(w)] /\ d = [c EXCEPT !.regs = d.regs]
  BY <1>5 DEF Context
<1>7. 24 \in RegIndex /\ 25 \in RegIndex /\ c.regs \in [RegIndex -> Byte]
  BY RegRange, ContextFields
<1>8. d.regs[24] = Lo(w) /\ d.regs[25] = Hi(w)
  BY <1>6, <1>7
<1>9. \A n \in 24 .. 25 : n \in {24, 25}
  OBVIOUS
<1>10. \A n \in 24 .. 25 : d.regs[n] = Expected(f, val)[n - 24 + 1]
  BY <1>2, <1>8, <1>9
<1>11. d.regs = [n \in RegIndex |-> IF n \in 24 .. 25 THEN d.regs[n] ELSE c.regs[n]]
  BY <1>6, <1>7, <1>9
<1> HIDE DEF d
<1> QED
  BY <1>1, <1>3, <1>4, <1>6, <1>10, <1>11 DEF ResultIn, first

(* Four or eight bytes.                                                    *)
LEMMA LongResult ==
  ASSUME NEW c \in Context, NEW f \in Formats, size(f) \in {4, 8},
         NEW val \in [1 .. size(f) -> Byte]
  PROVE  /\ avrvm_pack_return_gcc(c, f, val) \in Context
         /\ ResultIn(c, avrvm_pack_return_gcc(c, f, val), f, val)
<1> DEFINE first == 26 - RegsFor(f)
           d == SetRegs(c, first, val)
           regs == [n \in RegIndex |-> IF n - first + 1 \in DOMAIN val
                                       THEN val[n - first + 1] ELSE c.regs[n]]
<1>1. /\ size(f) = 4 => first = 22
      /\ size(f) = 8 => first = 18
      /\ first \in Int /\ 18 <= first /\ first + size(f) = 26
  BY SMT DEF RegsFor
<1>2. avrvm_pack_return_gcc(c, f, val) = d
  BY <1>1 DEF avrvm_pack_return_gcc
<1>3. Expected(f, val) = val
  <2>1. size(f) # 1
    OBVIOUS
  <2>2. f # "P"
    <3>1. f = "P" => size(f) = 2
      BY DEF size
    <3> QED
      BY <3>1
  <2> QED
    BY <2>1, <2>2 DEF Expected
<1>4. d = [c EXCEPT !.regs = regs]
  BY DEF SetRegs
<1> HIDE DEF first, d
<1>5. /\ \A n \in RegIndex : c.regs[n] \in Byte /\ n \in Int /\ 0 <= n /\ n <= 31
      /\ size(f) \in Int /\ DOMAIN val = 1 .. size(f)
  BY ContextFields, RegRange
<1>6. regs \in [RegIndex -> Byte]
  BY <1>1, <1>5
<1>7. \A n \in first .. 25 : n \in RegIndex /\ n - first + 1 \in 1 .. size(f)
  BY <1>1, <1>5, RegRange
<1>8. \A n \in first .. 25 : regs[n] = val[n - first + 1]
  BY <1>5, <1>7
<1>9. \A n \in RegIndex : n - first + 1 \in 1 .. size(f) => n \in first .. 25
  BY <1>1, <1>5
<1>10. regs = [n \in RegIndex |-> IF n \in first .. 25 THEN regs[n] ELSE c.regs[n]]
  BY <1>5, <1>7, <1>8, <1>9
<1> HIDE DEF regs
<1>11. d \in Context /\ d.regs = regs
  BY <1>4, <1>6 DEF Context
<1> QED
  BY <1>2, <1>3, <1>4, <1>8, <1>10, <1>11 DEF ResultIn, first

(* The host function returns.                                              *)
LEMMA PackStep ==
  ASSUME CallInv, Pack
  PROVE  CallInv' /\ ResultIn(ctx, ctx', result'[1], result'[2])
<1>1. PICK f \in Formats, v \in ReturnValues :
        /\ ctx' = avrvm_pack_return_gcc(ctx, f, [j \in 1 .. size(f) |-> v[j]])
        /\ result' = << f, [j \in 1 .. size(f) |-> v[j]] >>
  BY DEF Pack
<1> DEFINE val == [j \in 1 .. size(f) |-> v[j]]
<1>2. val \in [1 .. size(f) -> Byte]
  <2>1. v \in [1 .. 8 -> Byte]
    BY ReturnValuesAssumption
  <2>2. size(f) \in 1 .. 8
    BY Sizes
  <2> QED
    BY <2>1, <2>2
<1>3. ctx \in Context
  BY DEF CallInv
<1> HIDE DEF val
<1>4. ctx' \in Context /\ ResultIn(ctx, ctx', f, val)
  <2>1. ctx' = avrvm_pack_return_gcc(ctx, f, val)
    BY <1>1 DEF val
  <2>2. size(f) <= 2 \/ size(f) \in {4, 8}
    BY Sizes
  <2> QED
    BY <1>2, <1>3, <2>1, <2>2, ShortResult, LongResult
<1>5. /\ stage' = "returned" /\ fmt' = fmt /\ unpushed' = unpushed
      /\ result'[1] = f /\ result'[2] = val
  BY <1>1 DEF Pack, val
<1> QED
  BY <1>4, <1>5 DEF CallInv, ArgsArrive

-----------------------------------------------------------------------------
LEMMA CallStep == CallInv /\ [CallNext]_callvars => CallInv'
<1> SUFFICES ASSUME CallInv, [CallNext]_callvars PROVE CallInv'
  OBVIOUS
<1>1. CASE UNCHANGED callvars
  BY <1>1 DEF callvars, CallInv, ArgsArrive
<1>2. CASE Resumed
  BY <1>2 DEF Resumed, callvars, CallInv, ArgsArrive
<1> QED
  BY <1>1, <1>2, PushStep, LoadStep, UnpackStep, PackStep DEF CallNext

(* The host function sees the values that the caller passed, for every     *)
(* signature and all values.                                               *)
THEOREM ArgumentsArrive == CallSpec => []ArgsArrive
<1>1. CallInv => ArgsArrive
  BY DEF CallInv
<1> QED
  BY <1>1, CallStart, CallStep, PTL DEF CallSpec

(* The caller finds the result where it looks for it, extended as its      *)
(* format says, and nothing else changed.                                  *)
THEOREM ResultsArrive == CallSpec => ReturnArrives
<1> DEFINE Arrives ==
      stage = "unpacked" =>
        LET f     == result'[1]
            first == 26 - RegsFor(f)
        IN  /\ \A n \in first .. 25 :
                 ctx'.regs[n] = Expected(f, result'[2])[n - first + 1]
            /\ ctx' = [ctx EXCEPT !.regs = [n \in RegIndex |->
                         IF n \in first .. 25 THEN ctx'.regs[n] ELSE @[n]]]
<1>1. CallInv /\ [CallNext]_callvars => [Arrives]_callvars
  <2> SUFFICES ASSUME CallInv, CallNext, stage = "unpacked"
               PROVE  Arrives
    OBVIOUS
  <2>1. Pack
    BY DEF CallNext, PassOnStack, PassInRegs, Unpack, Resumed
  <2> QED
    BY <2>1, PackStep DEF ResultIn
<1> QED
  BY <1>1, CallStart, CallStep, PTL DEF CallSpec, ReturnArrives

=============================================================================
