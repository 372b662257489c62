-------------------------- MODULE AcquisitionProofs --------------------------
(***************************************************************************)
(* Proofs about Acquisition, for any messages, processes and earlier rows, *)
(* any number of runs and any file: a replay of the capture file sees what *)
(* the engine of the run saw, and a follower publishes what a replay from  *)
(* where it began would begin with.                                        *)
(*                                                                         *)
(* Both rest on what the decoder does with one piece more (Take) and with  *)
(* pieces that come in parts (DecodeInParts), which are inductions over    *)
(* the pieces.                                                             *)
(***************************************************************************)
EXTENDS Acquisition, WellFoundedInduction, TLAPS
-----------------------------------------------------------------------------
(* Sequences. *)

LEMMA JoinedElements ==
  ASSUME NEW P, NEW s \in Seq(P), NEW t \in Seq(P)
  PROVE  /\ Len(s) \in Nat /\ Len(t) \in Nat /\ Len(s \o t) = Len(s) + Len(t)
         /\ \A i \in 1..Len(s) : (s \o t)[i] = s[i]
         /\ \A i \in 1..Len(t) : (s \o t)[Len(s) + i] = t[i]
  OBVIOUS

LEMMA Tuples ==
  ASSUME NEW x, NEW y
  PROVE  Append(<<>>, x) = <<x>> /\ Append(<<x>>, y) = <<x, y>>
  <1> DEFINE P == {x, y}
             two == Append(<<x>>, y)
  <1>1. <<x>> \in Seq(P) /\ x \in P /\ y \in P /\ <<>> \in Seq(P)
    OBVIOUS
  <1> HIDE DEF P
  <1>2. Append(<<>>, x) \in Seq(P) /\ Len(Append(<<>>, x)) = 1 /\ Append(<<>>, x)[1] = x
    BY <1>1
  <1>3. two \in Seq(P) /\ Len(two) = 2 /\ two[1] = x /\ two[2] = y
    BY <1>1
  <1> HIDE DEF two
  <1>4. two = <<x, y>>
    BY <1>3
  <1> DEFINE one == Append(<<>>, x)
  <1>5. one \in Seq(P) /\ Len(one) = 1 /\ one[1] = x
    BY <1>2
  <1> HIDE DEF one
  <1>6. one = <<x>>
    BY <1>5
  <1>7. QED
    BY <1>4, <1>6 DEF one, two

LEMMA FirstParts ==
  ASSUME NEW P, NEW x \in P, NEW y \in P, NEW z \in P
  PROVE  /\ SubSeq(<<x, y, z>>, 1, 1) = <<x>>
         /\ SubSeq(<<x, y, z>>, 1, 2) = <<x, y>>
         /\ SubSeq(<<x, y, z>>, 1, 3) = <<x, y, z>>
  <1> DEFINE s == <<x, y, z>>
             one == SubSeq(s, 1, 1)
             two == SubSeq(s, 1, 2)
             three == SubSeq(s, 1, 3)
  <1>1. s \in Seq(P) /\ Len(s) = 3 /\ s[1] = x /\ s[2] = y /\ s[3] = z
    OBVIOUS
  <1> HIDE DEF s
  <1>2. one \in Seq(P) /\ Len(one) = 1 /\ one[1] = x
    BY <1>1
  <1>3. two \in Seq(P) /\ Len(two) = 2
    BY <1>1
  <1>4. two[1] = x /\ two[2] = y
    BY <1>1
  <1>5. three = s
    BY <1>1
  <1> HIDE DEF one, two, three
  <1>6. one = <<x>>
    BY <1>2
  <1>7. two = <<x, y>>
    BY <1>3, <1>4
  <1>8. QED
    BY <1>5, <1>6, <1>7 DEF one, two, three, s

LEMMA PrefixOfLonger ==
  ASSUME NEW P, NEW s \in Seq(P), NEW t \in Seq(P), NEW x \in P
  PROVE  IsPrefix(s, s \o t) /\ IsPrefix(s, Append(s \o t, x)) /\ IsPrefix(s, s)
  BY DEF IsPrefix
-----------------------------------------------------------------------------
(* Induction over the numbers, for a property given as a set of them. *)
LEMMA NumbersByInduction ==
  ASSUME NEW T, 0 \in T, \A n \in Nat : n \in T => n + 1 \in T
  PROVE  Nat \subseteq T
  <1> DEFINE Missing == Nat \ T
  <1>1. SUFFICES ASSUME Missing # {} PROVE FALSE
    OBVIOUS
  <1>2. PICK n \in Missing : \A k \in Missing : <<k, n>> \notin OpToRel(<, Nat)
    BY <1>1, WFMin, NatLessThanWellFounded, Zenon
  <1>3. \A k \in Missing : ~(k < n)
    BY <1>2, Zenon DEF OpToRel
  <1>4. n \in Nat /\ n # 0 /\ n - 1 \in Nat /\ n - 1 < n /\ (n - 1) + 1 = n
    OBVIOUS
  <1>5. n - 1 \notin Missing
    BY <1>3, <1>4
  <1>6. QED
    BY <1>4, <1>5

(* What is built up from a first value by one step after another exists. *)
Histories(U, init, step) ==
  {f \in [Nat -> U] : f[0] = init /\ \A n \in Nat : f[n + 1] = step[n][f[n]]}
LEMMA StepByStep ==
  ASSUME NEW U, NEW init \in U, NEW step \in [Nat -> [U -> U]]
  PROVE  Histories(U, init, step) # {}
  <1> DEFINE Begins(n) == {f \in [0..n -> U] :
                             f[0] = init /\ \A i \in 0..(n - 1) : f[i + 1] = step[i][f[i]]}
             Good == {n \in Nat : Begins(n) # {}}
  <1>1. 0 \in Good
    <2>1. [i \in 0..0 |-> init] \in Begins(0)
      OBVIOUS
    <2>2. QED
      BY <2>1
  <1>2. ASSUME NEW n \in Nat, n \in Good PROVE n + 1 \in Good
    <2>1. PICK f : f \in Begins(n)
      BY <1>2
    <2>2. /\ f \in [0..n -> U] /\ f[0] = init
          /\ \A i \in 0..(n - 1) : f[i + 1] = step[i][f[i]]
      BY <2>1
    <2> DEFINE h == [i \in 0..(n + 1) |-> IF i = n + 1 THEN step[n][f[n]] ELSE f[i]]
    <2>3. h \in [0..(n + 1) -> U]
      <3>1. f[n] \in U /\ step[n][f[n]] \in U
        BY <2>2
      <3>2. \A i \in 0..(n + 1) : i # n + 1 => f[i] \in U
        BY <2>2
      <3>3. QED
        BY <3>1, <3>2
    <2>4. h[0] = init
      BY <2>2
    <2>5. \A i \in 0..n : h[i + 1] = step[i][h[i]]
      <3> SUFFICES ASSUME NEW i \in 0..n PROVE h[i + 1] = step[i][h[i]]
        OBVIOUS
      <3>1. CASE i = n
        <4>1. h[i] = f[n] /\ h[i + 1] = step[n][f[n]]
          BY <3>1
        <4>2. QED
          BY <3>1, <4>1
      <3>2. CASE i # n
        <4>1. i \in 0..(n - 1) /\ h[i] = f[i] /\ h[i + 1] = f[i + 1]
          BY <3>2
        <4>2. QED
          BY <4>1, <2>2
      <3>3. QED
        BY <3>1, <3>2
    <2>6. (n + 1) - 1 = n /\ n + 1 \in Nat
      OBVIOUS
    <2> HIDE DEF h
    <2>7. h \in Begins(n + 1)
      BY <2>3, <2>4, <2>5, <2>6
    <2>8. QED
      BY <2>6, <2>7
  <1> HIDE DEF Good
  <1>3. Nat \subseteq Good
    BY <1>1, <1>2, NumbersByInduction
  <1>4. \A n \in Nat : Begins(n) # {}
    BY <1>3 DEF Good
  <1> DEFINE pick == [n \in Nat |-> CHOOSE f : f \in Begins(n)]
             whole == [n \in Nat |-> pick[n][n]]
  <1>5. ASSUME NEW n \in Nat PROVE pick[n] \in Begins(n)
    <2>1. \E f : f \in Begins(n)
      BY <1>4
    <2> HIDE DEF Begins
    <2>2. QED
      BY <2>1, Zenon
  <1> HIDE DEF pick
  <1>6. \A n \in Nat : /\ pick[n] \in [0..n -> U] /\ pick[n][0] = init
                       /\ \A i \in 0..(n - 1) : pick[n][i + 1] = step[i][pick[n][i]]
    BY <1>5
  <1> DEFINE Agree == {i \in Nat : \A m \in Nat, n \in Nat :
                         i <= m /\ i <= n => pick[m][i] = pick[n][i]}
  <1>7. Nat \subseteq Agree
    <2>1. 0 \in Agree
      BY <1>6
    <2>2. ASSUME NEW i \in Nat, i \in Agree PROVE i + 1 \in Agree
      <3> SUFFICES ASSUME NEW m \in Nat, NEW n \in Nat, i + 1 <= m, i + 1 <= n
                   PROVE  pick[m][i + 1] = pick[n][i + 1]
        OBVIOUS
      <3>1. i \in 0..(m - 1) /\ i \in 0..(n - 1) /\ i <= m /\ i <= n
        OBVIOUS
      <3>2. pick[m][i] = pick[n][i]
        BY <2>2, <3>1
      <3>3. pick[m][i + 1] = step[i][pick[m][i]] /\ pick[n][i + 1] = step[i][pick[n][i]]
        BY <1>6, <3>1
      <3>4. QED
        BY <3>2, <3>3
    <2> HIDE DEF Agree
    <2>3. QED
      BY <2>1, <2>2, NumbersByInduction
  <1>8. whole \in [Nat -> U]
    <2>1. \A n \in Nat : n \in 0..n
      OBVIOUS
    <2>2. \A n \in Nat : pick[n][n] \in U
      BY <1>6, <2>1
    <2>3. QED
      BY <2>2
  <1>9. whole[0] = init
    BY <1>6
  <1>10. ASSUME NEW n \in Nat PROVE whole[n + 1] = step[n][whole[n]]
    <2>1. n + 1 \in Nat /\ n \in 0..((n + 1) - 1) /\ n \in Agree /\ n <= n + 1 /\ n <= n
      BY <1>7
    <2>2. pick[n + 1][n + 1] = step[n][pick[n + 1][n]]
      BY <1>6, <2>1
    <2>3. pick[n + 1][n] = pick[n][n]
      BY <2>1
    <2>4. QED
      BY <2>1, <2>2, <2>3
  <1> HIDE DEF whole
  <1>11. QED
    BY <1>8, <1>9, <1>10 DEF Histories
-----------------------------------------------------------------------------
(* A sequence is built up by appending: what holds of the empty one, and of *)
(* every one that is longer by an element, holds of all.                    *)
LEMMA SequencesByInduction ==
  ASSUME NEW P, NEW T, <<>> \in T,
         \A s \in Seq(P), x \in P : s \in T => Append(s, x) \in T
  PROVE  Seq(P) \subseteq T
  <1> DEFINE N == {n \in Nat : \A s \in Seq(P) : Len(s) = n => s \in T}
  <1>1. 0 \in N
    OBVIOUS
  <1>2. ASSUME NEW n \in Nat, n \in N PROVE n + 1 \in N
    <2> SUFFICES ASSUME NEW s \in Seq(P), Len(s) = n + 1 PROVE s \in T
      OBVIOUS
    <2> DEFINE front == SubSeq(s, 1, n)
    <2>1. front \in Seq(P) /\ Len(front) = n /\ s[n + 1] \in P
      OBVIOUS
    <2>2. s = Append(front, s[n + 1])
      OBVIOUS
    <2>3. front \in T
      BY <1>2, <2>1
    <2> HIDE DEF front
    <2>4. QED
      BY <2>1, <2>2, <2>3
  <1> HIDE DEF N
  <1>3. Nat \subseteq N
    BY <1>1, <1>2, NumbersByInduction
  <1>4. QED
    BY <1>3 DEF N

LEMMA AppendBehind ==
  ASSUME NEW P, NEW s \in Seq(P), NEW t \in Seq(P), NEW x \in P
  PROVE  /\ s \o t \in Seq(P) /\ Append(t, x) \in Seq(P)
         /\ s \o Append(t, x) = Append(s \o t, x)
  OBVIOUS

LEMMA AppendedElements ==
  ASSUME NEW P, NEW s \in Seq(P), NEW x \in P
  PROVE  /\ DOMAIN s = 1..Len(s) /\ DOMAIN Append(s, x) = 1..(Len(s) + 1)
         /\ \A i \in DOMAIN s : i \in DOMAIN Append(s, x) /\ Append(s, x)[i] = s[i]
         /\ Len(s) + 1 \in DOMAIN Append(s, x) /\ Append(s, x)[Len(s) + 1] = x
         /\ \A i \in DOMAIN Append(s, x) : i \in DOMAIN s \/ i = Len(s) + 1
  OBVIOUS

(* The decoder's states, piece by piece. *)
Empty == [records |-> <<>>, pending |-> <<>>]
Decoding(P) == [records : Seq({Classify(line) : line \in Seq(P)}), pending : Seq(P)]

LEMMA TakeType ==
  ASSUME NEW P, NEW d \in Decoding(P), NEW x \in P
  PROVE  Take(d, x) \in Decoding(P)
  BY DEF Take, Decoding

LEMMA DecodingSteps ==
  ASSUME NEW P, NEW p \in Seq(P)
  PROVE  \E f \in [0..Len(p) -> Decoding(P)] :
           /\ f[0] = Empty
           /\ \A n \in 1..Len(p) : f[n] = Take(f[n - 1], p[n])
           /\ DecodeLines(p) = f[Len(p)]
  <1> DEFINE U == Decoding(P)
             N == Len(p)
             step == [n \in Nat |-> [u \in U |-> IF n + 1 \in 1..N THEN Take(u, p[n + 1]) ELSE u]]
             Body(after) == [n \in 0..Len(p) |->
                               IF n = 0 THEN [records |-> <<>>, pending |-> <<>>]
                               ELSE Take(after[n - 1], p[n])]
             after == CHOOSE after : after = Body(after)
  <1>1. N \in Nat /\ \A n \in 1..N : p[n] \in P
    OBVIOUS
  <1>2. step \in [Nat -> [U -> U]]
    <2> HIDE DEF U
    <2> SUFFICES ASSUME NEW n \in Nat, NEW u \in U
                 PROVE  (IF n + 1 \in 1..N THEN Take(u, p[n + 1]) ELSE u) \in U
      OBVIOUS
    <2>1. QED
      BY <1>1, TakeType DEF U
  <1>3. Empty \in U
    BY DEF Empty, Decoding
  <1>4. PICK f \in [Nat -> U] : f[0] = Empty /\ \A n \in Nat : f[n + 1] = step[n][f[n]]
    <2> DEFINE start == Empty
    <2>1. start \in U
      BY <1>3
    <2> HIDE DEF U, N, step, start, Body, after
    <2>2. Histories(U, start, step) # {}
      BY <1>2, <2>1, StepByStep
    <2>3. QED
      BY <2>2 DEF start, Histories
  <1>5. \A n \in 1..N : f[n] = Take(f[n - 1], p[n])
    <2> SUFFICES ASSUME NEW n \in 1..N PROVE f[n] = Take(f[n - 1], p[n])
      OBVIOUS
    <2>1. n - 1 \in Nat /\ (n - 1) + 1 = n /\ f[n - 1] \in U
      BY <1>1, <1>4
    <2> HIDE DEF U
    <2>2. f[n] = step[n - 1][f[n - 1]]
      BY <2>1, <1>4
    <2>3. step[n - 1][f[n - 1]] = Take(f[n - 1], p[n])
      BY <2>1
    <2>4. QED
      BY <2>2, <2>3
  <1> DEFINE g == [n \in 0..N |-> f[n]]
  <1>6. g = Body(g)
    <2> HIDE DEF U
    <2>1. g[0] = Body(g)[0]
      BY <1>1, <1>4 DEF Empty
    <2>2. \A n \in 1..N : g[n] = Body(g)[n]
      BY <1>1, <1>5
    <2>3. \A n \in 0..N : n = 0 \/ n \in 1..N
      BY <1>1
    <2>4. \A n \in 0..N : g[n] = Body(g)[n]
      BY <2>1, <2>2, <2>3
    <2> DEFINE k == Body(g)
    <2>5. k = [n \in 0..N |-> k[n]] /\ g = [n \in 0..N |-> g[n]]
      OBVIOUS
    <2> HIDE DEF k, g
    <2>6. QED
      BY <2>4, <2>5 DEF k
  <1>7. after = Body(after)
    BY <1>6
  <1> HIDE DEF after, U, step
  <1>8. \A n \in 0..N : after[n] = f[n]
    <2> DEFINE Same == {n \in Nat : n <= N => after[n] = f[n]}
    <2>1. 0 \in Same
      BY <1>1, <1>4, <1>7 DEF Empty
    <2>2. ASSUME NEW n \in Nat, n \in Same PROVE n + 1 \in Same
      <3> SUFFICES ASSUME n + 1 <= N PROVE after[n + 1] = f[n + 1]
        OBVIOUS
      <3>1. n <= N /\ n + 1 \in 1..N /\ (n + 1) - 1 = n
        BY <1>1
      <3>2. after[n + 1] = Body(after)[n + 1]
        BY <1>7
      <3>3. Body(after)[n + 1] = Take(after[n], p[n + 1])
        BY <3>1
      <3>4. QED
        BY <2>2, <3>1, <3>2, <3>3, <1>5
    <2> HIDE DEF Same
    <2>3. Nat \subseteq Same
      BY <2>1, <2>2, NumbersByInduction
    <2>4. QED
      BY <2>3, <1>1 DEF Same
  <1>9. DecodeLines(p) = after[N]
    BY DEF DecodeLines, after
  <1>10. g \in [0..N -> U]
    BY <1>1, <1>4
  <1>11. /\ g[0] = Empty /\ \A n \in 1..N : g[n] = Take(g[n - 1], p[n])
         /\ DecodeLines(p) = g[N]
    <2>1. \A n \in 0..N : g[n] = f[n]
      OBVIOUS
    <2>2. \A n \in 1..N : n \in 0..N /\ n - 1 \in 0..N
      BY <1>1
    <2> HIDE DEF g
    <2>3. g[0] = Empty
      BY <2>1, <1>1, <1>4
    <2>4. \A n \in 1..N : g[n] = Take(g[n - 1], p[n])
      BY <2>1, <2>2, <1>5
    <2>5. DecodeLines(p) = g[N]
      BY <2>1, <1>1, <1>8, <1>9
    <2>6. QED
      BY <2>3, <2>4, <2>5
  <1> HIDE DEF g
  <1>12. QED
    BY <1>10, <1>11 DEF U

LEMMA DecodeNone == DecodeLines(<<>>) = Empty
  <1>1. PICK f \in [0..Len(<<>>) -> Decoding({})] : f[0] = Empty /\ DecodeLines(<<>>) = f[Len(<<>>)]
    <2>1. <<>> \in Seq({})
      OBVIOUS
    <2>2. QED
      BY <2>1, DecodingSteps
  <1>2. QED
    BY <1>1

LEMMA DecodeType ==
  ASSUME NEW P, NEW p \in Seq(P)
  PROVE  DecodeLines(p) \in Decoding(P)
  <1>1. PICK f \in [0..Len(p) -> Decoding(P)] : DecodeLines(p) = f[Len(p)]
    BY DecodingSteps
  <1>2. QED
    BY <1>1

(* One piece more is one step more. *)
LEMMA DecodeOneMore ==
  ASSUME NEW P, NEW p \in Seq(P), NEW x \in P
  PROVE  DecodeLines(Append(p, x)) = Take(DecodeLines(p), x)
  <1> DEFINE q == Append(p, x)
             N == Len(p)
  <1>1. /\ q \in Seq(P) /\ Len(q) = N + 1 /\ N \in Nat /\ q[N + 1] = x
        /\ \A n \in 1..N : q[n] = p[n]
    OBVIOUS
  <1>2. PICK f \in [0..N -> Decoding(P)] :
          /\ f[0] = Empty
          /\ \A n \in 1..N : f[n] = Take(f[n - 1], p[n])
          /\ DecodeLines(p) = f[N]
    BY DecodingSteps
  <1> HIDE DEF q, N
  <1>3. PICK g \in [0..Len(q) -> Decoding(P)] :
          /\ g[0] = Empty
          /\ \A n \in 1..Len(q) : g[n] = Take(g[n - 1], q[n])
          /\ DecodeLines(q) = g[Len(q)]
    BY <1>1, DecodingSteps
  <1> DEFINE Same == {n \in Nat : n <= N => f[n] = g[n]}
  <1>4. 0 \in Same
    BY <1>2, <1>3
  <1>5. ASSUME NEW n \in Nat, n \in Same PROVE n + 1 \in Same
    <2> SUFFICES ASSUME n + 1 <= N PROVE f[n + 1] = g[n + 1]
      OBVIOUS
    <2>1. n <= N /\ n + 1 \in 1..N /\ n + 1 \in 1..(N + 1) /\ (n + 1) - 1 = n
      BY <1>1
    <2>2. f[n + 1] = Take(f[n], p[n + 1]) /\ g[n + 1] = Take(g[n], q[n + 1])
      BY <1>1, <1>2, <1>3, <2>1
    <2>3. QED
      BY <1>1, <1>5, <2>1, <2>2
  <1> HIDE DEF Same
  <1>6. N \in Same
    BY <1>1, <1>4, <1>5, NumbersByInduction
  <1>7. N + 1 \in 1..(N + 1) /\ (N + 1) - 1 = N
    BY <1>1
  <1>8. g[N + 1] = Take(g[N], q[N + 1])
    BY <1>1, <1>3, <1>7
  <1>9. QED
    BY <1>1, <1>2, <1>3, <1>6, <1>8 DEF Same, q

(* What is pending holds no newline. *)
LEMMA PendingIsOpen ==
  ASSUME NEW P, NEW p \in Seq(P)
  PROVE  \A i \in DOMAIN DecodeLines(p).pending : DecodeLines(p).pending[i] # Newline
  <1> DEFINE T == {s \in Seq(P) : \A i \in DOMAIN DecodeLines(s).pending :
                                    DecodeLines(s).pending[i] # Newline}
  <1>1. <<>> \in T
    BY DecodeNone DEF Empty
  <1>2. ASSUME NEW s \in Seq(P), NEW x \in P, s \in T PROVE Append(s, x) \in T
    <2>1. DecodeLines(s) \in Decoding(P) /\ DecodeLines(Append(s, x)) = Take(DecodeLines(s), x)
      BY DecodeType, DecodeOneMore
    <2>2. CASE x = Newline
      <3>1. DecodeLines(Append(s, x)).pending = <<>>
        BY <2>1, <2>2 DEF Take
      <3>2. QED
        BY <3>1
    <2>3. CASE x # Newline
      <3>1. DecodeLines(Append(s, x)).pending = Append(DecodeLines(s).pending, x)
        BY <2>1, <2>3 DEF Take
      <3>2. DecodeLines(s).pending \in Seq(P)
        BY <2>1 DEF Decoding
      <3> DEFINE l == DecodeLines(s).pending
      <3>3. \A i \in DOMAIN l : l[i] # Newline
        BY <1>2
      <3> HIDE DEF l
      <3>4. \A i \in DOMAIN Append(l, x) : Append(l, x)[i] # Newline
        BY <3>2, <3>3, <2>3, AppendedElements DEF l
      <3>5. \A i \in DOMAIN DecodeLines(Append(s, x)).pending :
               DecodeLines(Append(s, x)).pending[i] # Newline
        BY <3>1, <3>4 DEF l
      <3>6. QED
        BY <3>5, AppendBehind
    <2>4. QED
      BY <2>2, <2>3
  <1> HIDE DEF T
  <1>3. Seq(P) \subseteq T
    BY <1>1, <1>2, SequencesByInduction
  <1>4. QED
    BY <1>3 DEF T

(* Pieces without a newline are no record yet. *)
LEMMA DecodeOpen ==
  ASSUME NEW P, NEW p \in Seq(P), \A i \in DOMAIN p : p[i] # Newline
  PROVE  DecodeLines(p) = [records |-> <<>>, pending |-> p]
  <1> DEFINE T == {s \in Seq(P) : (\A i \in DOMAIN s : s[i] # Newline) =>
                                    DecodeLines(s) = [records |-> <<>>, pending |-> s]}
  <1>1. <<>> \in T
    BY DecodeNone DEF Empty
  <1>2. ASSUME NEW s \in Seq(P), NEW x \in P, s \in T PROVE Append(s, x) \in T
    <2> SUFFICES ASSUME \A i \in DOMAIN Append(s, x) : Append(s, x)[i] # Newline
                 PROVE  DecodeLines(Append(s, x)) = [records |-> <<>>, pending |-> Append(s, x)]
      BY AppendBehind
    <2>2. x # Newline /\ \A i \in DOMAIN s : s[i] # Newline
      BY AppendedElements
    <2>3. DecodeLines(s) = [records |-> <<>>, pending |-> s]
      BY <1>2, <2>2
    <2>4. QED
      BY <2>2, <2>3, DecodeOneMore DEF Take
  <1> HIDE DEF T
  <1>3. Seq(P) \subseteq T
    BY <1>1, <1>2, SequencesByInduction
  <1>4. QED
    BY <1>3 DEF T

(* Pieces may be read in parts: the rest is decoded behind what was pending.*)
LEMMA DecodeInParts ==
  ASSUME NEW P, NEW a \in Seq(P), NEW b \in Seq(P)
  PROVE  LET d == DecodeLines(a)
             e == DecodeLines(d.pending \o b)
         IN DecodeLines(a \o b) = [records |-> d.records \o e.records, pending |-> e.pending]
  <1> DEFINE r == DecodeLines(a).records
             l == DecodeLines(a).pending
             e(s) == DecodeLines(l \o s)
             E == {Classify(line) : line \in Seq(P)}
             T == {s \in Seq(P) : DecodeLines(a \o s)
                     = [records |-> r \o e(s).records, pending |-> e(s).pending]}
  <1>1. r \in Seq(E) /\ l \in Seq(P) /\ DecodeLines(a) = [records |-> r, pending |-> l]
    BY DecodeType DEF Decoding
  <1>2. \A i \in DOMAIN l : l[i] # Newline
    BY PendingIsOpen
  <1> HIDE DEF r, l, E
  <1>3. \A s \in Seq(P) : l \o s \in Seq(P) /\ e(s).records \in Seq(E) /\ e(s).pending \in Seq(P)
    <2> SUFFICES ASSUME NEW s \in Seq(P)
                 PROVE  l \o s \in Seq(P) /\ e(s).records \in Seq(E) /\ e(s).pending \in Seq(P)
      OBVIOUS
    <2>1. l \o s \in Seq(P)
      BY <1>1
    <2>2. QED
      BY <2>1, DecodeType DEF Decoding, E
  <1>4. <<>> \in T
    <2>1. a \o <<>> = a /\ l \o <<>> = l /\ r \o <<>> = r
      BY <1>1
    <2>2. e(<<>>) = [records |-> <<>>, pending |-> l]
      BY <1>1, <1>2, <2>1, DecodeOpen
    <2> HIDE DEF e
    <2>3. QED
      BY <1>1, <2>1, <2>2
  <1>5. ASSUME NEW s \in Seq(P), NEW x \in P, s \in T PROVE Append(s, x) \in T
    <2>1. a \o Append(s, x) = Append(a \o s, x) /\ a \o s \in Seq(P)
      BY AppendBehind
    <2>2. l \o Append(s, x) = Append(l \o s, x) /\ l \o s \in Seq(P)
      BY <1>1, AppendBehind
    <2>3. /\ DecodeLines(a \o Append(s, x)) = Take(DecodeLines(a \o s), x)
          /\ e(Append(s, x)) = Take(e(s), x)
      BY <2>1, <2>2, DecodeOneMore
    <2>4. DecodeLines(a \o s) = [records |-> r \o e(s).records, pending |-> e(s).pending]
      BY <1>5
    <2>5. e(s).records \in Seq(E) /\ Classify(e(s).pending) \in E
      BY <1>3 DEF E
    <2> HIDE DEF e
    <2>6. r \o Append(e(s).records, Classify(e(s).pending))
            = Append(r \o e(s).records, Classify(e(s).pending))
      <3> DEFINE rs == e(s).records
                 c == Classify(e(s).pending)
      <3>1. r \in Seq(E) /\ rs \in Seq(E) /\ c \in E
        BY <1>1, <2>5
      <3> HIDE DEF rs, c
      <3>2. r \o Append(rs, c) = Append(r \o rs, c)
        BY <3>1, AppendBehind
      <3>3. QED
        BY <3>2 DEF rs, c
    <2>7. DecodeLines(a \o Append(s, x))
            = [records |-> r \o e(Append(s, x)).records, pending |-> e(Append(s, x)).pending]
      <3> DEFINE rs == e(s).records
                 ps == e(s).pending
                 c == Classify(ps)
      <3>1. DecodeLines(a \o s) = [records |-> r \o rs, pending |-> ps]
        BY <2>4
      <3>2. r \o Append(rs, c) = Append(r \o rs, c)
        BY <2>6
      <3>3. CASE x = Newline
        <4>1. e(Append(s, x)) = [records |-> Append(rs, c), pending |-> <<>>]
          BY <2>3, <3>3 DEF Take
        <4>2. DecodeLines(a \o Append(s, x))
                = [records |-> Append(r \o rs, c), pending |-> <<>>]
          BY <2>3, <3>1, <3>3 DEF Take
        <4> DEFINE longer == e(Append(s, x))
        <4>3. longer.records = Append(rs, c) /\ longer.pending = <<>>
          BY <4>1
        <4>4. DecodeLines(a \o Append(s, x))
                = [records |-> r \o Append(rs, c), pending |-> <<>>]
          BY <4>2, <3>2
        <4> HIDE DEF rs, ps, c, longer
        <4>5. DecodeLines(a \o Append(s, x))
                = [records |-> r \o longer.records, pending |-> longer.pending]
          BY <4>3, <4>4, Zenon
        <4>6. QED
          BY <4>5 DEF longer
      <3>4. CASE x # Newline
        BY <2>3, <2>4, <3>4 DEF Take
      <3>5. QED
        BY <3>3, <3>4
    <2>8. QED
      BY <2>7, AppendBehind
  <1> HIDE DEF T
  <1>6. Seq(P) \subseteq T
    BY <1>4, <1>5, SequencesByInduction
  <1>7. QED
    BY <1>6 DEF T, r, l

(* The same for what is kept of a run's entries. *)
None == <<>>
Kept(P) == Seq(P)
Keepings(P, r, p) ==
  {f \in [0..Len(p) -> Kept(P)] :
     f[0] = None /\ \A n \in 1..Len(p) : f[n] = Keep(r, f[n - 1], p[n])}

LEMMA KeepType ==
  ASSUME NEW P, NEW r, NEW d \in Seq(P), NEW x \in P
  PROVE  Keep(r, d, x) \in Seq(P)
  BY DEF Keep

LEMMA KeepingSteps ==
  ASSUME NEW P, NEW r, NEW p \in Seq(P)
  PROVE  \E f \in Keepings(P, r, p) : OfRun(r, p) = f[Len(p)]
  <1> DEFINE U == Kept(P)
             N == Len(p)
             step == [n \in Nat |-> [u \in U |-> IF n + 1 \in 1..N THEN Keep(r, u, p[n + 1]) ELSE u]]
             Body(kept) == [n \in 0..Len(p) |->
                               IF n = 0 THEN <<>>
                               ELSE Keep(r, kept[n - 1], p[n])]
             kept == CHOOSE kept : kept = Body(kept)
  <1>1. N \in Nat /\ \A n \in 1..N : p[n] \in P
    OBVIOUS
  <1>2. step \in [Nat -> [U -> U]]
    <2> HIDE DEF U
    <2> SUFFICES ASSUME NEW n \in Nat, NEW u \in U
                 PROVE  (IF n + 1 \in 1..N THEN Keep(r, u, p[n + 1]) ELSE u) \in U
      OBVIOUS
    <2>1. QED
      BY <1>1, KeepType DEF U, Kept
  <1>3. None \in U
    BY DEF None, Kept
  <1>4. PICK f \in [Nat -> U] : f[0] = None /\ \A n \in Nat : f[n + 1] = step[n][f[n]]
    <2> DEFINE start == None
    <2>1. start \in U
      BY <1>3
    <2> HIDE DEF U, N, step, start, Body, kept
    <2>2. Histories(U, start, step) # {}
      BY <1>2, <2>1, StepByStep
    <2>3. QED
      BY <2>2 DEF start, Histories
  <1>5. \A n \in 1..N : f[n] = Keep(r, f[n - 1], p[n])
    <2> SUFFICES ASSUME NEW n \in 1..N PROVE f[n] = Keep(r, f[n - 1], p[n])
      OBVIOUS
    <2>1. n - 1 \in Nat /\ (n - 1) + 1 = n /\ f[n - 1] \in U
      BY <1>1, <1>4
    <2> HIDE DEF U
    <2>2. f[n] = step[n - 1][f[n - 1]]
      BY <2>1, <1>4
    <2>3. step[n - 1][f[n - 1]] = Keep(r, f[n - 1], p[n])
      BY <2>1
    <2>4. QED
      BY <2>2, <2>3
  <1> DEFINE g == [n \in 0..N |-> f[n]]
  <1>6. g = Body(g)
    <2> HIDE DEF U
    <2>1. g[0] = Body(g)[0]
      BY <1>1, <1>4 DEF None
    <2>2. \A n \in 1..N : g[n] = Body(g)[n]
      BY <1>1, <1>5
    <2>3. \A n \in 0..N : n = 0 \/ n \in 1..N
      BY <1>1
    <2>4. \A n \in 0..N : g[n] = Body(g)[n]
      BY <2>1, <2>2, <2>3
    <2> DEFINE k == Body(g)
    <2>5. k = [n \in 0..N |-> k[n]] /\ g = [n \in 0..N |-> g[n]]
      OBVIOUS
    <2> HIDE DEF k, g
    <2>6. QED
      BY <2>4, <2>5 DEF k
  <1>7. kept = Body(kept)
    BY <1>6
  <1> HIDE DEF kept, U, step
  <1>8. \A n \in 0..N : kept[n] = f[n]
    <2> DEFINE Same == {n \in Nat : n <= N => kept[n] = f[n]}
    <2>1. 0 \in Same
      BY <1>1, <1>4, <1>7 DEF None
    <2>2. ASSUME NEW n \in Nat, n \in Same PROVE n + 1 \in Same
      <3> SUFFICES ASSUME n + 1 <= N PROVE kept[n + 1] = f[n + 1]
        OBVIOUS
      <3>1. n <= N /\ n + 1 \in 1..N /\ (n + 1) - 1 = n
        BY <1>1
      <3>2. kept[n + 1] = Body(kept)[n + 1]
        BY <1>7
      <3>3. Body(kept)[n + 1] = Keep(r, kept[n], p[n + 1])
        BY <3>1
      <3>4. QED
        BY <2>2, <3>1, <3>2, <3>3, <1>5
    <2> HIDE DEF Same
    <2>3. Nat \subseteq Same
      BY <2>1, <2>2, NumbersByInduction
    <2>4. QED
      BY <2>3, <1>1 DEF Same
  <1>9. OfRun(r, p) = kept[N]
    BY DEF OfRun, kept
  <1>10. g \in [0..N -> U]
    BY <1>1, <1>4
  <1>11. /\ g[0] = None /\ \A n \in 1..N : g[n] = Keep(r, g[n - 1], p[n])
         /\ OfRun(r, p) = g[N]
    <2>1. \A n \in 0..N : g[n] = f[n]
      OBVIOUS
    <2>2. \A n \in 1..N : n \in 0..N /\ n - 1 \in 0..N
      BY <1>1
    <2> HIDE DEF g
    <2>3. g[0] = None
      BY <2>1, <1>1, <1>4
    <2>4. \A n \in 1..N : g[n] = Keep(r, g[n - 1], p[n])
      BY <2>1, <2>2, <1>5
    <2>5. OfRun(r, p) = g[N]
      BY <2>1, <1>1, <1>8, <1>9
    <2>6. QED
      BY <2>3, <2>4, <2>5
  <1> HIDE DEF g
  <1>12. QED
    BY <1>10, <1>11 DEF U, Keepings

LEMMA KeepNone == \A r : OfRun(r, <<>>) = <<>>
  <1> SUFFICES ASSUME NEW r PROVE OfRun(r, <<>>) = <<>>
    OBVIOUS
  <1>1. PICK f \in Keepings({}, r, <<>>) : OfRun(r, <<>>) = f[Len(<<>>)]
    <2>1. <<>> \in Seq({})
      OBVIOUS
    <2>2. QED
      BY <2>1, KeepingSteps
  <1>2. QED
    BY <1>1 DEF None, Keepings

LEMMA KeptType ==
  ASSUME NEW P, NEW r, NEW p \in Seq(P)
  PROVE  OfRun(r, p) \in Kept(P)
  <1>1. PICK f \in Keepings(P, r, p) : OfRun(r, p) = f[Len(p)]
    BY KeepingSteps
  <1>2. QED
    BY <1>1 DEF Keepings

(* One entry more is kept, if it is of that run. *)
LEMMA KeepOneMore ==
  ASSUME NEW P, NEW r, NEW p \in Seq(P), NEW x \in P
  PROVE  OfRun(r, Append(p, x)) = Keep(r, OfRun(r, p), x)
  <1>f. PICK f \in Keepings(P, r, p) : OfRun(r, p) = f[Len(p)]
    BY KeepingSteps
  <1> DEFINE q == Append(p, x)
             N == Len(p)
  <1>1. /\ q \in Seq(P) /\ Len(q) = N + 1 /\ N \in Nat /\ q[N + 1] = x
        /\ \A n \in 1..N : q[n] = p[n]
    OBVIOUS
  <1>2. /\ f \in [0..N -> Kept(P)] /\ f[0] = None
        /\ \A n \in 1..N : f[n] = Keep(r, f[n - 1], p[n])
        /\ OfRun(r, p) = f[N]
    BY <1>f DEF Keepings
  <1> HIDE DEF q, N
  <1>g. PICK g \in Keepings(P, r, q) : OfRun(r, q) = g[Len(q)]
    BY <1>1, KeepingSteps
  <1>3. /\ g \in [0..Len(q) -> Kept(P)] /\ g[0] = None
        /\ \A n \in 1..Len(q) : g[n] = Keep(r, g[n - 1], q[n])
        /\ OfRun(r, q) = g[Len(q)]
    BY <1>g DEF Keepings
  <1> DEFINE Same == {n \in Nat : n <= N => f[n] = g[n]}
  <1>4. 0 \in Same
    BY <1>2, <1>3
  <1>5. ASSUME NEW n \in Nat, n \in Same PROVE n + 1 \in Same
    <2> SUFFICES ASSUME n + 1 <= N PROVE f[n + 1] = g[n + 1]
      OBVIOUS
    <2>1. n <= N /\ n + 1 \in 1..N /\ n + 1 \in 1..(N + 1) /\ (n + 1) - 1 = n
      BY <1>1
    <2>2. f[n + 1] = Keep(r, f[n], p[n + 1]) /\ g[n + 1] = Keep(r, g[n], q[n + 1])
      BY <1>1, <1>2, <1>3, <2>1
    <2>3. QED
      BY <1>1, <1>5, <2>1, <2>2
  <1> HIDE DEF Same
  <1>6. N \in Same
    BY <1>1, <1>4, <1>5, NumbersByInduction
  <1>7. N + 1 \in 1..(N + 1) /\ (N + 1) - 1 = N
    BY <1>1
  <1>8. g[N + 1] = Keep(r, g[N], q[N + 1])
    BY <1>1, <1>3, <1>7
  <1>9. QED
    BY <1>1, <1>2, <1>3, <1>6, <1>8 DEF Same, q
-----------------------------------------------------------------------------
(* What the file can hold: rows of this and of earlier runs, in pieces. *)
Rows(r) ==
  [type : {"packet"}, direction : STRING, length : Nat, hex : Seq(0..255),
   run : 0..r, at : Nat]
    \cup [type : {"capture-session-start", "transport-closed", "transport-fault"},
          run : 0..r, at : Nat]
Pieces(r) == {Newline} \cup [row : Rows(r), part : {"head", "rest"}]

FileInv == run \in Nat /\ file \in Seq(Pieces(run))

(* What the follower has published is what its part of the file decodes to, *)
(* and what it keeps is what that leaves over.                              *)
FollowerInv ==
  /\ follower = [at |-> follower.at, from |-> follower.from,
                 pending |-> follower.pending, seen |-> follower.seen,
                 phase |-> follower.phase]
  /\ follower.at \in 0..Len(file) /\ follower.from \in 0..follower.at
  /\ follower.phase = "closed" => follower.seen = <<>> /\ follower.pending = <<>>
  /\ DecodeLines(SubSeq(file, follower.from + 1, follower.at))
       = [records |-> follower.seen, pending |-> follower.pending]

LEMMA JoinedType ==
  ASSUME NEW P, NEW s \in Seq(P), NEW t \in Seq(P)
  PROVE  s \o t \in Seq(P)
  OBVIOUS

(* What is behind a part of a sequence does not change that part. *)
LEMMA PartOfLonger ==
  ASSUME NEW P, NEW s \in Seq(P), NEW t \in Seq(P),
         NEW b \in 0..Len(s), NEW a \in 0..b
  PROVE  /\ SubSeq(s \o t, a + 1, b) = SubSeq(s, a + 1, b)
         /\ Len(s) <= Len(s \o t)
  OBVIOUS

LEMMA PartsJoin ==
  ASSUME NEW P, NEW s \in Seq(P),
         NEW c \in 0..Len(s), NEW b \in 0..c, NEW a \in 0..b
  PROVE  /\ SubSeq(s, a + 1, b) \in Seq(P) /\ SubSeq(s, b + 1, c) \in Seq(P)
         /\ SubSeq(s, a + 1, c) = SubSeq(s, a + 1, b) \o SubSeq(s, b + 1, c)
  OBVIOUS

LEMMA RowsGrow ==
  ASSUME NEW r \in Nat, NEW s \in Nat, r <= s
  PROVE  Rows(r) \subseteq Rows(s) /\ Pieces(r) \subseteq Pieces(s)
  <1>1. 0..r \subseteq 0..s
    OBVIOUS
  <1>2. Rows(r) \subseteq Rows(s)
    BY <1>1 DEF Rows
  <1>3. QED
    BY <1>2 DEF Pieces

LEMMA PiecesType ==
  ASSUME NEW r \in Nat, NEW row \in Rows(r)
  PROVE  /\ PiecesOf(row) \in Seq(Pieces(r)) /\ Len(PiecesOf(row)) = 3
         /\ PiecesOf(row)[1] = [row |-> row, part |-> "head"]
         /\ PiecesOf(row)[2] = [row |-> row, part |-> "rest"]
         /\ PiecesOf(row)[3] = Newline
         /\ \A n \in 0..3 : SubSeq(PiecesOf(row), 1, n) \in Seq(Pieces(r))
  <1>1. /\ [row |-> row, part |-> "head"] \in Pieces(r)
        /\ [row |-> row, part |-> "rest"] \in Pieces(r)
        /\ Newline \in Pieces(r)
    BY DEF Pieces
  <1> DEFINE h == [row |-> row, part |-> "head"]
             t == [row |-> row, part |-> "rest"]
             n == Newline
             P == Pieces(r)
  <1> HIDE DEF h, t, n, P
  <1>2. h \in P /\ t \in P /\ n \in P
    BY <1>1 DEF h, t, n, P
  <1>3. /\ <<h, t, n>> \in Seq(P) /\ Len(<<h, t, n>>) = 3
        /\ <<h, t, n>>[1] = h /\ <<h, t, n>>[2] = t /\ <<h, t, n>>[3] = n
        /\ \A k \in 0..3 : SubSeq(<<h, t, n>>, 1, k) \in Seq(P)
    BY <1>2
  <1>4. PiecesOf(row) = <<h, t, n>>
    BY DEF PiecesOf, h, t, n
  <1>5. QED
    BY <1>3, <1>4 DEF h, t, n, P

LEMMA RowOfType ==
  ASSUME run \in Nat, NEW m \in Messages, NEW at \in Nat
  PROVE  RowOf(m, at) \in Rows(run) /\ RowOf(m, at).type # "capture-session-start"
  <1>1. run \in 0..run
    OBVIOUS
  <1>2. CASE m.type = "packet"
    <2>1. m.direction \in STRING /\ m.data \in Seq(0..255)
      BY <1>2, MessagesAssumption
    <2>2. Len(m.data) \in Nat
      BY <2>1
    <2>3. QED
      BY <1>1, <1>2, <2>1, <2>2 DEF RowOf, Rows
  <1>3. CASE m.type # "packet"
    <2>1. m.type \in {"transport-closed", "transport-fault"}
      BY <1>3, MessagesAssumption
    <2>2. QED
      BY <1>1, <1>3, <2>1 DEF RowOf, Rows
  <1>4. QED
    BY <1>2, <1>3

LEMMA StartRowType ==
  ASSUME NEW r \in Nat
  PROVE  StartRow(r) \in Rows(r)
  BY DEF StartRow, Rows

LEMMA EarlierFile ==
  ASSUME NEW rows \in EarlierRows
  PROVE  [i \in 1..(3 * Len(rows)) |->
            PiecesOf(rows[(i + 2) \div 3])[((i - 1) % 3) + 1]] \in Seq(Pieces(0))
  <1>1. Len(rows) \in Nat /\ \A k \in 1..Len(rows) : rows[k] \in Rows(0)
    <2> DEFINE E == [type : {"packet"}, direction : STRING,
                     length : Nat, hex : Seq(0..255), run : {0}, at : {0}]
    <2>1. rows \in Seq(E)
      BY EarlierRowsAssumption
    <2>2. E \subseteq Rows(0)
      <3> HIDE DEF E
      <3> SUFFICES ASSUME NEW e \in E PROVE e \in Rows(0)
        OBVIOUS
      <3>1. 0 \in 0..0 /\ 0 \in Nat
        OBVIOUS
      <3>2. QED
        BY <3>1 DEF E, Rows
    <2> HIDE DEF E
    <2>3. QED
      BY <2>1, <2>2
  <1>2. ASSUME NEW i \in 1..(3 * Len(rows))
        PROVE  PiecesOf(rows[(i + 2) \div 3])[((i - 1) % 3) + 1] \in Pieces(0)
    <2> DEFINE k == (i + 2) \div 3
               n == ((i - 1) % 3) + 1
    <2>1. k \in 1..Len(rows) /\ n \in 1..3
      BY <1>1
    <2> HIDE DEF k, n
    <2>2. PiecesOf(rows[k]) \in Seq(Pieces(0)) /\ Len(PiecesOf(rows[k])) = 3
      BY <1>1, <2>1, PiecesType
    <2>3. PiecesOf(rows[k])[n] \in Pieces(0)
      BY <2>1, <2>2
    <2>4. QED
      BY <2>3 DEF k, n
  <1>3. 3 * Len(rows) \in Nat
    BY <1>1
  <1>4. QED
    BY <1>2, <1>3

LEMMA WrittenFile ==
  ASSUME NEW r \in Nat, NEW s \in Nat, r <= s, file \in Seq(Pieces(r)),
         NEW row \in Rows(s), NEW ok, Written(row, ok)
  PROVE  /\ file' \in Seq(Pieces(s))
         /\ \E tail \in Seq(Pieces(s)) : file' = file \o tail
  <1>1. file \in Seq(Pieces(s))
    BY RowsGrow
  <1>2. PICK tail \in Seq(Pieces(s)) : file' = file \o tail
    BY PiecesType DEF Written
  <1>3. file \o tail \in Seq(Pieces(s))
    BY <1>1, JoinedType
  <1>4. QED
    BY <1>2, <1>3, Zenon
-----------------------------------------------------------------------------
(* The follower. *)

(* The file only grows at its end, and by rows of the current run. *)
LEMMA FileStep ==
  ASSUME FileInv,
         hand # Nothing => hand.message \in Messages /\ hand.at \in Nat, Next
  PROVE  /\ FileInv'
         /\ \E tail \in Seq(Pieces(run')) : file' = file \o tail
  <1> DEFINE Grown == /\ FileInv'
                      /\ \E tail \in Seq(Pieces(run')) : file' = file \o tail
  <1>1. ASSUME run' = run, file' = file PROVE Grown
    <2>1. <<>> \in Seq(Pieces(run)) /\ file = file \o <<>>
      BY DEF FileInv
    <2>2. QED
      BY <1>1, <2>1 DEF FileInv
  <1>2. ASSUME NEW s \in Nat, run <= s, run' = s,
               NEW row \in Rows(s), NEW ok \in BOOLEAN, Written(row, ok)
        PROVE  Grown
    <2>1. /\ file' \in Seq(Pieces(s))
          /\ \E tail \in Seq(Pieces(s)) : file' = file \o tail
      BY <1>2, WrittenFile DEF FileInv
    <2>2. QED
      BY <1>2, <2>1 DEF FileInv
  <1>3. CASE Open
    <2>1. run + 1 \in Nat /\ run <= run + 1 /\ run' = run + 1 /\ StartRow(run + 1) \in Rows(run + 1)
      BY <1>3, StartRowType DEF Open, FileInv
    <2>2. CASE file' = file
      <3>1. file \in Seq(Pieces(run + 1))
        BY <2>1, RowsGrow DEF FileInv
      <3>2. <<>> \in Seq(Pieces(run + 1)) /\ file = file \o <<>>
        BY <3>1
      <3>3. QED
        BY <2>1, <2>2, <3>1, <3>2 DEF FileInv
    <2>3. CASE \E ok \in BOOLEAN : Written(StartRow(run + 1), ok)
      BY <1>2, <2>1, <2>3
    <2>4. file' = file \/ \E ok \in BOOLEAN : Written(StartRow(run + 1), ok)
      BY <1>3 DEF Open
    <2>5. QED
      BY <2>2, <2>3, <2>4
  <1>4. CASE Record
    <2>1. run' = run /\ run \in Nat /\ run <= run
      BY <1>4 DEF Record, runVars, FileInv
    <2>2. RowOf(hand.message, hand.at) \in Rows(run)
      BY <1>4, <2>1, RowOfType DEF Record
    <2>3. file' = file \/ \E ok \in BOOLEAN : Written(RowOf(hand.message, hand.at), ok)
      BY <1>4 DEF Record
    <2>4. QED
      BY <1>1, <1>2, <2>1, <2>2, <2>3
  <1>5. CASE StartSession \/ LoadScript \/ InventoryUnknown \/ Seed \/ StartupFails
               \/ Unload \/ Dies \/ EngineStops
    BY <1>1, <1>5 DEF StartSession, LoadScript, InventoryUnknown, Seed,
       StartupFails, Unload, Dies, EngineStops, Down
  <1>6. CASE (\E m \in Messages : Arrive(m)) \/ RejectUnframed \/ Promote
    BY <1>1, <1>6 DEF Arrive, RejectUnframed, Promote, runVars
  <1>7. CASE Follow
    BY <1>1, <1>7 DEF Follow, FollowFrom, Read, Ready, runVars
  <1>8. QED
    BY <1>3, <1>4, <1>5, <1>6, <1>7 DEF Next, Startup, Handler

LEMMA FollowerUnchanged ==
  ASSUME FileInv, FollowerInv, follower' = follower,
         \E tail \in Seq(Pieces(run')) : file' = file \o tail,
         run' \in Nat, run <= run'
  PROVE  FollowerInv'
  <1>1. PICK tail \in Seq(Pieces(run')) : file' = file \o tail
    OBVIOUS
  <1> DEFINE P == Pieces(run')
             at == follower.at
             from == follower.from
  <1>2. file \in Seq(P) /\ tail \in Seq(P)
    BY RowsGrow DEF FileInv
  <1>3. at \in 0..Len(file) /\ from \in 0..at
    BY DEF FollowerInv
  <1> HIDE DEF P, at, from
  <1>4. SubSeq(file \o tail, from + 1, at) = SubSeq(file, from + 1, at)
        /\ Len(file) <= Len(file \o tail)
    BY <1>2, <1>3, PartOfLonger
  <1>5. at \in 0..Len(file')
    <2>1. Len(file \o tail) \in Nat /\ Len(file) \in Nat
      BY <1>2
    <2>2. QED
      BY <1>1, <1>3, <1>4, <2>1
  <1>6. SubSeq(file', from + 1, at) = SubSeq(file, from + 1, at)
    BY <1>1, <1>4
  <1>7. QED
    BY <1>3, <1>5, <1>6 DEF FollowerInv, at, from

LEMMA FollowerReads ==
  ASSUME FileInv, FollowerInv, Read
  PROVE  FollowerInv'
  <1> DEFINE P == Pieces(run)
             at == follower.at
             from == follower.from
             E == {Classify(line) : line \in Seq(P)}
             part == SubSeq(file, from + 1, at)
  <1>1. /\ file \in Seq(P) /\ at \in 0..Len(file) /\ from \in 0..at
        /\ DecodeLines(part) = [records |-> follower.seen, pending |-> follower.pending]
    BY DEF FileInv, FollowerInv
  <1>2. PICK n \in (at + 1)..Len(file) :
          LET d == DecodeLines(follower.pending \o SubSeq(file, at + 1, n))
          IN follower' = [follower EXCEPT !.at = n, !.pending = d.pending,
                                          !.seen = @ \o d.records]
    BY DEF Read
  <1> DEFINE more == SubSeq(file, at + 1, n)
             d == DecodeLines(follower.pending \o more)
  <1>3. /\ follower'.at = n /\ follower'.pending = d.pending
        /\ follower'.seen = follower.seen \o d.records
        /\ follower'.from = from /\ follower'.phase = follower.phase
        /\ follower' = [at |-> follower'.at, from |-> follower'.from,
                 pending |-> follower'.pending, seen |-> follower'.seen,
                 phase |-> follower'.phase]
    BY <1>2 DEF FollowerInv
  <1>4. n \in 0..Len(file) /\ at \in 0..n /\ from \in 0..n
    <2>1. Len(file) \in Nat
      BY <1>1
    <2>2. QED
      BY <1>1, <1>2, <2>1
  <1>5. file' = file /\ follower.phase # "closed"
    BY DEF Read
  <1> HIDE DEF P, at, from
  <1>6. /\ part \in Seq(P) /\ more \in Seq(P)
        /\ SubSeq(file, from + 1, n) = part \o more
    BY <1>1, <1>4, PartsJoin
  <1> HIDE DEF part, more
  <1>7. DecodeLines(part \o more)
          = [records |-> DecodeLines(part).records
                           \o DecodeLines(DecodeLines(part).pending \o more).records,
             pending |-> DecodeLines(DecodeLines(part).pending \o more).pending]
    BY <1>6, DecodeInParts
  <1>8. DecodeLines(part).records = follower.seen /\ DecodeLines(part).pending = follower.pending
    BY <1>1
  <1>9. DecodeLines(part \o more) = [records |-> follower.seen \o d.records, pending |-> d.pending]
    BY <1>7, <1>8
  <1> HIDE DEF d
  <1>10. DecodeLines(SubSeq(file', follower'.from + 1, follower'.at))
           = [records |-> follower'.seen, pending |-> follower'.pending]
    BY <1>3, <1>5, <1>6, <1>9
  <1>11. QED
    BY <1>3, <1>4, <1>5, <1>10 DEF FollowerInv, from

LEMMA FollowerOpens ==
  ASSUME FileInv, FollowerInv, FollowFrom
  PROVE  FollowerInv'
  <1>1. PICK from \in {0, Len(file)} :
          follower' = [follower EXCEPT !.at = from, !.from = from, !.phase = "catching up"]
    BY DEF FollowFrom
  <1>2. /\ follower'.at = from /\ follower'.from = from /\ follower'.phase = "catching up"
        /\ follower'.seen = follower.seen /\ follower'.pending = follower.pending
        /\ follower' = [at |-> follower'.at, from |-> follower'.from,
                 pending |-> follower'.pending, seen |-> follower'.seen,
                 phase |-> follower'.phase]
    BY <1>1 DEF FollowerInv
  <1>3. follower.seen = <<>> /\ follower.pending = <<>> /\ file' = file
    BY DEF FollowFrom, FollowerInv
  <1>4. from \in 0..Len(file) /\ from \in 0..from
    BY <1>1 DEF FileInv
  <1>5. SubSeq(file, from + 1, from) = <<>>
    BY <1>4 DEF FileInv
  <1>6. DecodeLines(SubSeq(file', follower'.from + 1, follower'.at))
          = [records |-> <<>>, pending |-> <<>>]
    BY <1>2, <1>3, <1>5, DecodeNone DEF Empty
  <1>7. QED
    BY <1>2, <1>3, <1>4, <1>6 DEF FollowerInv

LEMMA FollowerStep ==
  ASSUME FileInv, FollowerInv,
         hand # Nothing => hand.message \in Messages /\ hand.at \in Nat,
         [Next]_vars
  PROVE  FileInv' /\ FollowerInv'
  <1>1. CASE UNCHANGED vars
    BY <1>1 DEF vars, runVars, FileInv, FollowerInv
  <1>2. CASE Next
    <2>1. FileInv' /\ \E tail \in Seq(Pieces(run')) : file' = file \o tail
      BY <1>2, FileStep
    <2>2. run' \in Nat /\ run <= run'
      <3>1. run' = run \/ run' = run + 1
        BY <1>2 DEF Next, Startup, Handler, Follow, Open, StartSession, LoadScript,
           InventoryUnknown, Seed, StartupFails, Unload, Dies, EngineStops, Down,
           Arrive, RejectUnframed, Record, Promote, FollowFrom, Read, Ready, runVars
      <3>2. QED
        BY <3>1 DEF FileInv
    <2>3. CASE FollowFrom
      BY <2>1, <2>3, FollowerOpens
    <2>4. CASE Read
      BY <2>1, <2>4, FollowerReads
    <2>5. CASE Ready
      <3>1. /\ follower'.at = follower.at /\ follower'.from = follower.from
            /\ follower'.seen = follower.seen /\ follower'.pending = follower.pending
            /\ follower'.phase = "following"
            /\ follower' = [at |-> follower'.at, from |-> follower'.from,
                 pending |-> follower'.pending, seen |-> follower'.seen,
                 phase |-> follower'.phase]
            /\ file' = file
        BY <2>5 DEF Ready, FollowerInv
      <3>2. QED
        BY <2>1, <3>1 DEF FollowerInv
    <2>6. CASE Startup \/ Handler
      <3>1. follower' = follower
        BY <2>6 DEF Startup, Handler, Open, StartSession, LoadScript,
           InventoryUnknown, Seed, StartupFails, Unload, Dies, EngineStops, Down,
           Arrive, RejectUnframed, Record, Promote
      <3>2. QED
        BY <2>1, <2>2, <3>1, FollowerUnchanged
    <2>7. QED
      BY <1>2, <2>3, <2>4, <2>5, <2>6 DEF Next, Follow
  <1>3. QED
    BY <1>1, <1>2

LEMMA FollowerInvIsReplay ==
  ASSUME FileInv, FollowerInv
  PROVE  FollowerIsReplay
  <1> DEFINE P == Pieces(run)
             at == follower.at
             from == follower.from
             part == SubSeq(file, from + 1, at)
             more == SubSeq(file, at + 1, Len(file))
             E == {Classify(line) : line \in Seq(P)}
             d == DecodeLines(follower.pending \o more)
  <1>1. /\ file \in Seq(P) /\ at \in 0..Len(file) /\ from \in 0..at
        /\ DecodeLines(part) = [records |-> follower.seen, pending |-> follower.pending]
        /\ Len(file) \in 0..Len(file)
    BY DEF FileInv, FollowerInv
  <1>2. /\ part \in Seq(P) /\ more \in Seq(P)
        /\ SubSeq(file, from + 1, Len(file)) = part \o more
    <2> HIDE DEF P, at, from
    <2>1. QED
      BY <1>1, PartsJoin
  <1>3. follower.seen \in Seq(E) /\ follower.pending \in Seq(P)
    <2>1. DecodeLines(part) \in Decoding(P)
      BY <1>2, DecodeType
    <2>2. QED
      BY <1>1, <2>1 DEF Decoding
  <1>4. follower.pending \o more \in Seq(P)
    <2> HIDE DEF P, more
    <2>1. QED
      BY <1>2, <1>3, JoinedType
  <1>5. d.records \in Seq(E) /\ d.pending \in Seq(P)
    <2>1. d \in Decoding(P)
      BY <1>4, DecodeType
    <2>2. QED
      BY <2>1 DEF Decoding
  <1> HIDE DEF P, at, from, part, more
  <1>6. DecodeLines(part \o more) = [records |-> follower.seen \o d.records, pending |-> d.pending]
    <2>1. DecodeLines(part \o more)
            = [records |-> DecodeLines(part).records
                             \o DecodeLines(DecodeLines(part).pending \o more).records,
               pending |-> DecodeLines(DecodeLines(part).pending \o more).pending]
      BY <1>2, DecodeInParts
    <2>2. QED
      BY <1>1, <2>1
  <1> DEFINE all == DecodeLines(part \o more)
             seen == follower.seen
             new == d.records
             last == Classify(d.pending)
  <1>7. Replay(part \o more) = IF d.pending = <<>> THEN seen \o new ELSE Append(seen \o new, last)
    BY <1>6 DEF Replay
  <1>8. last \in E
    BY <1>5
  <1> HIDE DEF d, seen, new, last, E
  <1>9. seen \in Seq(E) /\ new \in Seq(E)
    BY <1>3, <1>5 DEF seen, new
  <1>10. IsPrefix(seen, seen \o new) /\ IsPrefix(seen, Append(seen \o new, last))
    BY <1>8, <1>9, PrefixOfLonger
  <1>11. IsPrefix(seen, Replay(part \o more))
    BY <1>7, <1>10
  <1>12. QED
    BY <1>2, <1>11 DEF FollowerIsReplay, seen, from
-----------------------------------------------------------------------------
Torn == [what |-> "rejected", run |-> 0, at |-> 0]
IsSequence(s) == \E S : s \in Seq(S)

HandInv ==
  /\ sent \in Nat
  /\ hand # Nothing =>
       /\ hand = [type |-> hand.message.type, message |-> hand.message,
                  at |-> hand.at, phase |-> hand.phase]
       /\ hand.message \in Messages /\ hand.at \in Nat
       /\ hand.phase \in {"arrived", "recorded"}
       /\ hand.phase = "recorded" => Framed(hand.message)

StageInv ==
  /\ stage \in {"down", "opened", "attached"} \cup Loaded
  /\ stage \in {"down", "opened"} => lived = <<>>
  /\ stage = "attached" => lived = <<Started>>
  /\ stage \notin Loaded => hand = Nothing
  /\ stage \in Loaded => lived # <<>>
  /\ stage # "down" => run > 0
  /\ IsSequence(lived)

RecorderInv ==
  /\ recorder \in {"disabled", "active", "failed"}
  /\ stage = "down" => recorder = "disabled"
  /\ recorder = "failed" => warned
  /\ recorder = "active" => DecodeLines(file).pending = <<>>

IInv == FileInv /\ FollowerInv /\ HandInv /\ StageInv /\ RecorderInv /\ ReplayIsLive
-----------------------------------------------------------------------------
(* A replay reads a row as the handler did. *)
LEMMA RowIsOutcome ==
  ASSUME NEW m \in Messages, Framed(m), NEW at
  PROVE  ClassifyRow(RowOf(m, at)) = Outcome(m, at)
  <1>1. CASE m.type = "packet"
    <2>1. /\ m.direction \in {"incoming", "outgoing"} /\ m.length >= 0
          /\ m.data \in Seq(0..255) /\ m.length \in Int
          /\ m.length < 0 \/ m.length = Len(m.data)
      BY <1>1, MessagesAssumption DEF Framed
    <2>2. m.length = Len(m.data)
      BY <2>1
    <2> DEFINE row == RowOf(m, at)
    <2>3. /\ row.type = "packet" /\ row.direction = m.direction /\ row.length = m.length
          /\ row.hex = m.data /\ row.run = run /\ row.at = at
      BY <1>1, <2>2 DEF RowOf
    <2>4. FlowOf(row.direction) # "other"
      BY <2>1, <2>3 DEF FlowOf
    <2> HIDE DEF row
    <2>5. ClassifyRow(row) = ClassifyPacket(row)
      BY <2>3 DEF ClassifyRow
    <2>6. ClassifyPacket(row) =
            IF Decode(FlowOf(m.direction), m.length, m.data) = Malformed
              THEN [what |-> "rejected", run |-> run, at |-> at]
              ELSE [what |-> "packet", run |-> run, at |-> at,
                    packet |-> Decode(FlowOf(m.direction), m.length, m.data)]
      BY <2>2, <2>3, <2>4 DEF ClassifyPacket, Rejected, Promoted, Entry
    <2>7. QED
      BY <1>1, <2>5, <2>6 DEF Outcome, Rejected, Promoted, Entry, row
  <1>2. CASE m.type # "packet"
    <2>1. m.type \in {"transport-closed", "transport-fault"}
      BY <1>2, MessagesAssumption
    <2>2. RowOf(m, at) = [type |-> m.type, run |-> run, at |-> at]
      BY <1>2 DEF RowOf
    <2>3. QED
      BY <2>1, <2>2 DEF ClassifyRow, Outcome, Fact, Entry
  <1>3. QED
    BY <1>1, <1>2

(* A file is read to its end when it is empty or ends with a newline. *)
LEMMA NothingPending ==
  ASSUME NEW P, NEW p \in Seq(P)
  PROVE  DecodeLines(p).pending = <<>> <=> (Len(p) = 0 \/ p[Len(p)] = Newline)
  <1> DEFINE T == {s \in Seq(P) : DecodeLines(s).pending = <<>>
                                     <=> (Len(s) = 0 \/ s[Len(s)] = Newline)}
  <1>1. <<>> \in T
    BY DecodeNone DEF Empty
  <1>2. ASSUME NEW s \in Seq(P), NEW x \in P, s \in T PROVE Append(s, x) \in T
    <2> DEFINE l == DecodeLines(s).pending
    <2>1. DecodeLines(Append(s, x)) = Take(DecodeLines(s), x) /\ l \in Seq(P)
      BY DecodeType, DecodeOneMore DEF Decoding
    <2> HIDE DEF l
    <2>2. DecodeLines(Append(s, x)).pending = IF x = Newline THEN <<>> ELSE Append(l, x)
      BY <2>1 DEF Take, l
    <2>3. Append(l, x) # <<>>
      BY <2>1
    <2>4. Len(Append(s, x)) # 0 /\ Append(s, x)[Len(Append(s, x))] = x /\ Append(s, x) \in Seq(P)
      OBVIOUS
    <2>5. QED
      BY <2>2, <2>3, <2>4
  <1> HIDE DEF T
  <1>3. Seq(P) \subseteq T
    BY <1>1, <1>2, SequencesByInduction
  <1>4. QED
    BY <1>3 DEF T

(* A row behind what is pending, piece by piece. *)
LEMMA RowBehind ==
  ASSUME NEW r \in Nat, NEW p \in Seq(Pieces(r)), NEW row \in Rows(r)
  PROVE  LET d == DecodeLines(p)
             h == [row |-> row, part |-> "head"]
             t == [row |-> row, part |-> "rest"]
         IN /\ p \o SubSeq(PiecesOf(row), 1, 0) = p
            /\ DecodeLines(p \o SubSeq(PiecesOf(row), 1, 1))
                 = [records |-> d.records, pending |-> Append(d.pending, h)]
            /\ DecodeLines(p \o SubSeq(PiecesOf(row), 1, 2))
                 = [records |-> d.records, pending |-> Append(Append(d.pending, h), t)]
            /\ DecodeLines(p \o PiecesOf(row))
                 = [records |-> Append(d.records, Classify(Append(Append(d.pending, h), t))),
                    pending |-> <<>>]
            /\ SubSeq(PiecesOf(row), 1, 3) = PiecesOf(row)
  <1> DEFINE d == DecodeLines(p)
             h == [row |-> row, part |-> "head"]
             t == [row |-> row, part |-> "rest"]
             P == Pieces(r)
             all == PiecesOf(row)
             n == Newline
  <1>1. /\ all \in Seq(P) /\ Len(all) = 3
        /\ all[1] = h /\ all[2] = t /\ all[3] = n
    BY PiecesType
  <1>2. h # n /\ t # n /\ n = Newline
    BY DEF Newline
  <1>3. p \in Seq(P)
    OBVIOUS
  <1> HIDE DEF h, t, n, P, all, d
  <1>4. all[1] \in P /\ all[2] \in P /\ all[3] \in P
    BY <1>1
  <1>5. h \in P /\ t \in P /\ n \in P
    BY <1>1, <1>4
  <1>6. /\ Append(p, h) \in Seq(P) /\ Append(Append(p, h), t) \in Seq(P)
    BY <1>3, <1>5
  <1>7. /\ p \o SubSeq(all, 1, 0) = p
        /\ SubSeq(all, 1, 1) = <<h>> /\ SubSeq(all, 1, 2) = <<h, t>>
        /\ all = <<h, t, n>> /\ SubSeq(all, 1, 3) = all
    <2>1. p \o SubSeq(all, 1, 0) = p
      BY <1>1, <1>3
    <2>2. all = <<h, t, n>>
      BY <1>1
    <2>3. QED
      BY <1>5, <2>1, <2>2, FirstParts
  <1>8. /\ p \o <<h>> = Append(p, h)
        /\ p \o <<h, t>> = Append(Append(p, h), t)
        /\ p \o <<h, t, n>> = Append(Append(Append(p, h), t), n)
    <2>1. p \o <<h>> = Append(p, h)
      BY <1>3, <1>5
    <2>2. p \o <<h, t>> = Append(Append(p, h), t)
      BY <1>3, <1>5
    <2>3. p \o <<h, t, n>> = Append(Append(Append(p, h), t), n)
      BY <1>3, <1>5
    <2>4. QED
      BY <2>1, <2>2, <2>3
  <1>9. DecodeLines(Append(p, h)) = [records |-> d.records, pending |-> Append(d.pending, h)]
    <2>1. DecodeLines(Append(p, h)) = Take(DecodeLines(p), h)
      BY <1>3, <1>5, DecodeOneMore
    <2>2. QED
      BY <1>2, <2>1 DEF Take, d
  <1>10. DecodeLines(Append(Append(p, h), t))
           = [records |-> d.records, pending |-> Append(Append(d.pending, h), t)]
    <2>1. DecodeLines(Append(Append(p, h), t)) = Take(DecodeLines(Append(p, h)), t)
      BY <1>5, <1>6, DecodeOneMore
    <2>2. QED
      BY <1>2, <1>9, <2>1 DEF Take
  <1>11. DecodeLines(Append(Append(Append(p, h), t), n))
           = [records |-> Append(d.records, Classify(Append(Append(d.pending, h), t))),
              pending |-> <<>>]
    <2>1. DecodeLines(Append(Append(Append(p, h), t), n))
            = Take(DecodeLines(Append(Append(p, h), t)), n)
      BY <1>5, <1>6, DecodeOneMore
    <2>2. QED
      BY <1>2, <1>10, <2>1 DEF Take
  <1>12. /\ p \o SubSeq(all, 1, 0) = p
         /\ DecodeLines(p \o SubSeq(all, 1, 1))
              = [records |-> d.records, pending |-> Append(d.pending, h)]
         /\ DecodeLines(p \o SubSeq(all, 1, 2))
              = [records |-> d.records, pending |-> Append(Append(d.pending, h), t)]
         /\ DecodeLines(p \o all)
              = [records |-> Append(d.records, Classify(Append(Append(d.pending, h), t))),
                 pending |-> <<>>]
         /\ SubSeq(all, 1, 3) = all
    BY <1>7, <1>8, <1>9, <1>10, <1>11, Zenon
  <1>13. QED
    BY <1>12 DEF d, h, t, all

LEMMA WholeLine ==
  ASSUME NEW row
  PROVE  /\ Classify(<<[row |-> row, part |-> "head"], [row |-> row, part |-> "rest"]>>)
              = ClassifyRow(row)
         /\ Classify(<<[row |-> row, part |-> "head"]>>) = Torn
  BY DEF Classify, Torn

LEMMA LongLine ==
  ASSUME NEW P, NEW l \in Seq(P), l # <<>>, NEW h \in P, NEW t \in P
  PROVE  Classify(Append(Append(l, h), t)) = Torn
  <1>1. Len(Append(Append(l, h), t)) # 2
    OBVIOUS
  <1>2. QED
    BY <1>1 DEF Classify, Torn

(* What is in the file when a row follows the last newline. *)
LEMMA CleanRow ==
  ASSUME FileInv, run > 0, DecodeLines(file).pending = <<>>,
         NEW row \in Rows(run), row.run = run,
         NEW n \in 0..3, file' = file \o SubSeq(PiecesOf(row), 1, n)
  PROVE  LET kept == OfRun(run, Replay(file))
             o == ClassifyRow(row)
         IN /\ o.run = run =>
                 OfRun(run, Replay(file')) \in {kept, Append(kept, o)}
            /\ n = 3 => DecodeLines(file').pending = <<>>
            /\ (n = 3 /\ o.run = run) => OfRun(run, Replay(file')) = Append(kept, o)
  <1> DEFINE d == DecodeLines(file)
             h == [row |-> row, part |-> "head"]
             t == [row |-> row, part |-> "rest"]
             o == ClassifyRow(row)
             all == PiecesOf(row)
             P == Pieces(run)
             E == {Classify(line) : line \in Seq(P)}
             rs == d.records
             kept == OfRun(run, rs)
  <1>1. /\ file \o SubSeq(all, 1, 0) = file
        /\ DecodeLines(file \o SubSeq(all, 1, 1))
             = [records |-> d.records, pending |-> Append(d.pending, h)]
        /\ DecodeLines(file \o SubSeq(all, 1, 2))
             = [records |-> d.records, pending |-> Append(Append(d.pending, h), t)]
        /\ DecodeLines(file \o all)
             = [records |-> Append(d.records, Classify(Append(Append(d.pending, h), t))),
                pending |-> <<>>]
        /\ SubSeq(all, 1, 3) = all
    BY RowBehind DEF FileInv
  <1>2. d.pending = <<>> /\ Append(<<>>, h) = <<h>> /\ Append(<<h>>, t) = <<h, t>>
    BY Tuples
  <1>3. Classify(<<h, t>>) = o /\ Classify(<<h>>) = Torn
    BY WholeLine
  <1>4. rs \in Seq(E)
    BY DecodeType DEF FileInv, Decoding
  <1>5. o \in E /\ Torn \in E
    <2>1. h \in P /\ t \in P
      BY DEF Pieces
    <2> HIDE DEF P, h, t
    <2>2. <<h, t>> \in Seq(P) /\ <<h>> \in Seq(P)
      BY <2>1
    <2> HIDE DEF o
    <2>3. QED
      BY <1>3, <2>2
  <1>6. Torn.run # run
    BY DEF Torn
  <1> HIDE DEF d, h, t, o, all, P, E
  <1>7. Replay(file) = rs
    BY <1>2 DEF Replay, d
  <1>8. /\ OfRun(run, Append(rs, o)) = Keep(run, kept, o)
        /\ OfRun(run, Append(rs, Torn)) = Keep(run, kept, Torn)
    BY <1>4, <1>5, KeepOneMore
  <1>9. OfRun(run, Append(rs, Torn)) = kept
    BY <1>6, <1>8 DEF Keep
  <1>10. o.run = run => OfRun(run, Append(rs, o)) = Append(kept, o)
    BY <1>8 DEF Keep
  <1>11. <<h>> # <<>> /\ <<h, t>> # <<>>
    OBVIOUS
  <1> DEFINE f == file'
             left == OfRun(run, Replay(f))
             Claim == /\ o.run = run => left \in {kept, Append(kept, o)}
                      /\ n = 3 => DecodeLines(f).pending = <<>>
                      /\ (n = 3 /\ o.run = run) => left = Append(kept, o)
  <1>a. ASSUME DecodeLines(f).records = rs, DecodeLines(f).pending # <<>>
        PROVE  Replay(f) = Append(rs, Classify(DecodeLines(f).pending))
    BY <1>a DEF Replay
  <1>b. ASSUME DecodeLines(f).pending = <<>>
        PROVE  Replay(f) = DecodeLines(f).records
    BY <1>b DEF Replay
  <1>c. f = file \o SubSeq(all, 1, n)
    BY DEF all
  <1>d. f = file => left = OfRun(run, Replay(file))
    BY DEF left
  <1>e. \A x : Replay(f) = x => left = OfRun(run, x)
    BY DEF left
  <1> HIDE DEF f, kept, left
  <1>12. ASSUME n = 0 PROVE Claim
    <2>1. f = file
      BY <1>1, <1>12, <1>c
    <2>2. left = kept
      BY <1>7, <2>1, <1>d DEF kept
    <2>3. QED
      BY <1>12, <2>2
  <1>13. ASSUME n = 1 PROVE Claim
    <2>1. DecodeLines(f) = [records |-> rs, pending |-> <<h>>]
      BY <1>1, <1>2, <1>13, <1>c
    <2>2. DecodeLines(f).records = rs /\ DecodeLines(f).pending = <<h>>
      BY <2>1
    <2>3. Replay(f) = Append(rs, Torn)
      BY <1>3, <1>11, <2>2, <1>a
    <2>4. left = kept
      BY <1>9, <2>3, <1>e
    <2>5. QED
      BY <1>13, <2>4
  <1>14. ASSUME n = 2 PROVE Claim
    <2>1. DecodeLines(f) = [records |-> rs, pending |-> <<h, t>>]
      BY <1>1, <1>2, <1>14, <1>c
    <2>2. DecodeLines(f).records = rs /\ DecodeLines(f).pending = <<h, t>>
      BY <2>1
    <2>3. Replay(f) = Append(rs, o)
      BY <1>3, <1>11, <2>2, <1>a
    <2>4. o.run = run => left = Append(kept, o)
      BY <1>10, <2>3, <1>e
    <2>5. QED
      BY <1>14, <2>4
  <1>15. ASSUME n = 3 PROVE Claim
    <2>1. DecodeLines(f) = [records |-> Append(rs, o), pending |-> <<>>]
      BY <1>1, <1>2, <1>3, <1>15, <1>c
    <2>2. DecodeLines(f).records = Append(rs, o) /\ DecodeLines(f).pending = <<>>
      BY <2>1
    <2>3. Replay(f) = Append(rs, o)
      BY <2>2, <1>b
    <2>4. o.run = run => left = Append(kept, o)
      BY <1>10, <2>3, <1>e
    <2>5. QED
      BY <1>15, <2>2, <2>4
  <1>16. Claim
    <2> HIDE DEF Claim
    <2>1. n = 0 \/ n = 1 \/ n = 2 \/ n = 3
      OBVIOUS
    <2>2. QED
      BY <2>1, <1>12, <1>13, <1>14, <1>15
  <1>17. QED
    BY <1>7, <1>16 DEF o, kept, f, left

(* Only the first row of a run can be glued to a torn one. *)
LEMMA GluedStays ==
  ASSUME FileInv, run' = run, NEW tail \in Seq(Pieces(run)), file' = file \o tail,
         \A i \in 1..Len(tail) : tail[i].row.type # "capture-session-start"
  PROVE  Glued' <=> Glued
  <1> DEFINE P == Pieces(run)
             N == Len(file)
             G(i) == /\ file[i] = PiecesOf(file[i].row)[1] /\ file[i - 1] # Newline
                     /\ file[i].row.type = "capture-session-start" /\ file[i].row.run = run
  <1>1. /\ N \in Nat /\ Len(tail) \in Nat /\ Len(file') = N + Len(tail)
        /\ \A i \in 1..N : file'[i] = file[i]
        /\ \A i \in 1..Len(tail) : file'[N + i] = tail[i]
    <2> HIDE DEF P
    <2>1. file \in Seq(P) /\ tail \in Seq(P)
      BY DEF FileInv, P
    <2>2. QED
      BY <2>1
  <1>2. Glued <=> \E i \in 2..N : G(i)
    BY DEF Glued
  <1>3. Glued' <=> \E i \in 2..Len(file') : G(i)'
    BY DEF Glued
  <1>4. \A i \in 2..N : G(i)' <=> G(i)
    <2> SUFFICES ASSUME NEW i \in 2..N PROVE G(i)' <=> G(i)
      OBVIOUS
    <2>1. i \in 1..N /\ i - 1 \in 1..N
      BY <1>1
    <2>2. file'[i] = file[i] /\ file'[i - 1] = file[i - 1]
      BY <1>1, <2>1
    <2>3. QED
      BY <2>2
  <1>5. \A i \in (N + 1)..Len(file') : ~G(i)'
    <2> SUFFICES ASSUME NEW i \in (N + 1)..Len(file') PROVE ~G(i)'
      OBVIOUS
    <2>1. i - N \in 1..Len(tail) /\ N + (i - N) = i
      BY <1>1
    <2>2. file'[i] = tail[i - N]
      BY <1>1, <2>1
    <2>3. QED
      BY <2>1, <2>2
  <1>6. \A i \in 2..N : i \in 2..Len(file')
    BY <1>1
  <1>7. \A i \in 2..Len(file') : i \in 2..N \/ i \in (N + 1)..Len(file')
    BY <1>1
  <1> HIDE DEF G
  <1>8. QED
    BY <1>2, <1>3, <1>4, <1>5, <1>6, <1>7

(* ... and it is if something torn was left at the end. *)
LEMMA GluedAtOpen ==
  ASSUME FileInv, run' = run + 1, file' = file \o PiecesOf(StartRow(run + 1))
  PROVE  Glued' <=> DecodeLines(file).pending # <<>>
  <1> DEFINE P == Pieces(run)
             Q == Pieces(run + 1)
             N == Len(file)
             row == StartRow(run + 1)
             all == PiecesOf(row)
  <1>1. /\ all \in Seq(Q) /\ Len(all) = 3 /\ file \in Seq(Q) /\ N \in Nat
        /\ all[1] = [row |-> row, part |-> "head"]
        /\ all[2] = [row |-> row, part |-> "rest"]
        /\ all[3] = Newline
    <2>1. run \in Nat /\ run + 1 \in Nat /\ run <= run + 1
      BY DEF FileInv
    <2>2. row \in Rows(run + 1)
      BY <2>1, StartRowType
    <2>3. file \in Seq(Q)
      BY <2>1, RowsGrow DEF FileInv
    <2>4. QED
      BY <2>1, <2>2, <2>3, PiecesType
  <1>2. /\ Len(file') = N + 3
        /\ \A i \in 1..N : file'[i] = file[i]
        /\ file'[N + 1] = all[1] /\ file'[N + 2] = all[2] /\ file'[N + 3] = all[3]
    <2>1. file' = file \o all /\ N = Len(file)
      OBVIOUS
    <2> HIDE DEF Q, all
    <2>2. /\ Len(file \o all) = Len(file) + Len(all)
          /\ \A i \in 1..Len(file) : (file \o all)[i] = file[i]
          /\ \A i \in 1..Len(all) : (file \o all)[Len(file) + i] = all[i]
      <3>1. file \in Seq(Q) /\ all \in Seq(Q)
        BY <1>1
      <3>2. QED
        BY <3>1, JoinedElements
    <2>3. 1 \in 1..Len(all) /\ 2 \in 1..Len(all) /\ 3 \in 1..Len(all) /\ Len(all) = 3
      BY <1>1
    <2> HIDE DEF N
    <2>4. QED
      BY <2>1, <2>2, <2>3
  <1>3. DecodeLines(file).pending = <<>> <=> (N = 0 \/ file[N] = Newline)
    BY NothingPending DEF FileInv
  <1>4. \A i \in 1..N : ~(file[i] = PiecesOf(file[i].row)[1] /\ file[i].row.run = run + 1)
    <2> SUFFICES ASSUME NEW i \in 1..N, file[i] = PiecesOf(file[i].row)[1],
                        file[i].row.run = run + 1
                 PROVE  FALSE
      OBVIOUS
    <2>1. file[i] \in Pieces(run) /\ run \in Nat
      BY DEF FileInv
    <2>2. file[i].part = "head"
      <3>1. PiecesOf(file[i].row)[1] = [row |-> file[i].row, part |-> "head"]
        BY DEF PiecesOf
      <3> DEFINE x == file[i]
      <3>2. x = [row |-> x.row, part |-> "head"]
        BY <3>1
      <3> HIDE DEF x
      <3>3. x.part = "head"
        BY <3>2
      <3>4. QED
        BY <3>3 DEF x
    <2>3. file[i].row \in Rows(run)
      BY <2>1, <2>2 DEF Pieces, Newline
    <2>4. file[i].row.run \in 0..run
      BY <2>3 DEF Rows
    <2>5. QED
      BY <2>1, <2>4
  <1>5. /\ all[1] = PiecesOf(all[1].row)[1] /\ all[1].row.type = "capture-session-start"
        /\ all[1].row.run = run + 1
    BY <1>1 DEF PiecesOf, StartRow
  <1>6. all[2] # PiecesOf(all[2].row)[1] /\ all[3] # PiecesOf(all[3].row)[1]
    BY <1>1 DEF PiecesOf, Newline
  <1> DEFINE G(i) == /\ file'[i] = PiecesOf(file'[i].row)[1] /\ file'[i - 1] # Newline
                     /\ file'[i].row.type = "capture-session-start"
                     /\ file'[i].row.run = run + 1
  <1>7. Glued' <=> \E i \in 2..(N + 3) : G(i)
    BY <1>2 DEF Glued
  <1>8. \A i \in 2..(N + 3) : i \in 1..N \/ i = N + 1 \/ i = N + 2 \/ i = N + 3
    <2>1. N \in Nat
      BY <1>1
    <2> HIDE DEF N
    <2>2. QED
      BY <2>1
  <1>9. \A i \in 2..(N + 3) : G(i) => i = N + 1
    <2> SUFFICES ASSUME NEW i \in 2..(N + 3), G(i) PROVE i = N + 1
      OBVIOUS
    <2> HIDE DEF all, row, N
    <2>1. i \notin 1..N
      BY <1>2, <1>4
    <2>2. i # N + 2 /\ i # N + 3
      BY <1>2, <1>6
    <2>3. QED
      BY <1>8, <2>1, <2>2
  <1>10. N >= 1 => (G(N + 1) <=> file[N] # Newline)
    <2> SUFFICES ASSUME N >= 1 PROVE G(N + 1) <=> file[N] # Newline
      OBVIOUS
    <2>1. (N + 1) - 1 = N /\ N \in 1..N
      BY <1>1
    <2> HIDE DEF all, row, N
    <2>2. file'[(N + 1) - 1] = file[N]
      BY <1>2, <2>1
    <2>3. QED
      BY <1>2, <1>5, <2>2
  <1> HIDE DEF G, N, all, row
  <1>11. Glued' <=> N >= 1 /\ file[N] # Newline
    <2>1. N + 1 \in 2..(N + 3) <=> N >= 1
      BY <1>1
    <2>2. QED
      BY <1>7, <1>9, <1>10, <2>1
  <1>12. QED
    BY <1>1, <1>3, <1>11

(* The entries of earlier runs are none of the next one. *)
LEMMA EarlierRunsForgotten ==
  ASSUME NEW r \in Nat, NEW p \in Seq(Pieces(r))
  PROVE  OfRun(r + 1, DecodeLines(p).records) = <<>>
  <1> DEFINE P == Pieces(r)
             E == {Classify(line) : line \in Seq(P)}
             T == {s \in Seq(E) : OfRun(r + 1, s) = <<>>}
  <1>1. ASSUME NEW line \in Seq(P) PROVE Classify(line).run # r + 1
    <2>1. CASE Len(line) = 2 /\ line[1] = [row |-> line[2].row, part |-> "head"]
                   /\ line[2].part = "rest"
      <3> DEFINE x == line[2]
      <3>1. x \in P
        <4> HIDE DEF P
        <4>1. 2 \in 1..Len(line)
          BY <2>1
        <4>2. QED
          BY <4>1
      <3>2. x.part = "rest"
        BY <2>1
      <3>3. line[1].row = x.row
        <4> DEFINE y == line[1]
        <4>1. y = [row |-> x.row, part |-> "head"]
          BY <2>1
        <4> HIDE DEF y, x
        <4>2. y.row = x.row
          BY <4>1
        <4>3. QED
          BY <4>2 DEF y, x
      <3> HIDE DEF x
      <3>4. x.row \in Rows(r)
        BY <3>1, <3>2 DEF Pieces, Newline
      <3>5. x.row.run \in 0..r
        BY <3>4 DEF Rows
      <3>6. x.row.type \in {"packet", "capture-session-start", "transport-closed",
                            "transport-fault"}
        BY <3>4 DEF Rows
      <3>7. ClassifyRow(x.row).run = x.row.run
        BY <3>6 DEF ClassifyRow, ClassifyPacket, Fact, Rejected, Promoted, Entry
      <3>8. Classify(line) = ClassifyRow(x.row)
        BY <2>1, <3>3 DEF Classify
      <3>9. QED
        BY <3>5, <3>7, <3>8
    <2>2. CASE ~(Len(line) = 2 /\ line[1] = [row |-> line[2].row, part |-> "head"]
                   /\ line[2].part = "rest")
      BY <2>2 DEF Classify
    <2>3. QED
      BY <2>1, <2>2
  <1>2. \A x \in E : x.run # r + 1
    BY <1>1
  <1>3. <<>> \in T
    BY KeepNone
  <1> HIDE DEF E
  <1>4. ASSUME NEW s \in Seq(E), NEW x \in E, s \in T PROVE Append(s, x) \in T
    <2>1. OfRun(r + 1, Append(s, x)) = Keep(r + 1, OfRun(r + 1, s), x)
      BY KeepOneMore
    <2>2. OfRun(r + 1, s) = <<>> /\ x.run # r + 1
      BY <1>2, <1>4
    <2>3. Append(s, x) \in Seq(E)
      OBVIOUS
    <2>4. QED
      BY <2>1, <2>2, <2>3 DEF Keep
  <1> HIDE DEF T
  <1>5. Seq(E) \subseteq T
    BY <1>3, <1>4, SequencesByInduction
  <1>6. DecodeLines(p).records \in Seq(E)
    BY DecodeType DEF Decoding, E
  <1>7. QED
    BY <1>5, <1>6 DEF T
-----------------------------------------------------------------------------
LEMMA LongerSequence ==
  ASSUME NEW s, IsSequence(s), NEW x
  PROVE  /\ IsSequence(Append(s, x)) /\ Append(s, x) # <<>>
         /\ IsPrefix(s, Append(s, x)) /\ IsPrefix(s, s) /\ s \o <<x>> = Append(s, x)
         /\ s # <<>> => IsSequence(Tail(s)) /\ Tail(Append(s, x)) = Append(Tail(s), x)
         /\ <<>> \o s \o <<>> = s /\ <<>> \o s \o <<x>> = Append(s, x)
  <1>1. PICK S : s \in Seq(S)
    BY DEF IsSequence
  <1> DEFINE T == S \cup {x}
  <1>2. s \in Seq(T) /\ x \in T
    BY <1>1
  <1> HIDE DEF T
  <1>3. Append(s, x) \in Seq(T)
    BY <1>2
  <1>4. IsSequence(Append(s, x))
    BY <1>3 DEF IsSequence
  <1>5. Append(s, x) # <<>> /\ s \o <<x>> = Append(s, x)
    BY <1>2
  <1>6. IsPrefix(s, Append(s, x)) /\ IsPrefix(s, s)
    BY <1>2 DEF IsPrefix
  <1>7. ASSUME s # <<>>
        PROVE  IsSequence(Tail(s)) /\ Tail(Append(s, x)) = Append(Tail(s), x)
    <2>1. Tail(s) \in Seq(T)
      BY <1>2, <1>7
    <2>2. Tail(Append(s, x)) = Append(Tail(s), x)
      BY <1>2, <1>7
    <2>3. QED
      BY <2>1, <2>2 DEF IsSequence
  <1>8. <<>> \o s = s /\ s \o <<>> = s
    BY <1>2
  <1>9. QED
    BY <1>4, <1>5, <1>6, <1>7, <1>8

LEMMA PrefixOfAppended ==
  ASSUME NEW s, NEW t, IsSequence(t), IsPrefix(s, t), NEW x
  PROVE  IsPrefix(s, Append(t, x))
  <1>1. PICK S : t \in Seq(S)
    BY DEF IsSequence
  <1>2. t \in Seq(S \cup {x})
    BY <1>1
  <1>3. QED
    BY <1>2 DEF IsPrefix

(* The evidence of a run that is up: what has been observed, then what is   *)
(* in hand.                                                                 *)
EvidenceShape ==
  /\ stage = "opened" => Evidence = <<Started>>
  /\ stage = "attached" => Evidence = <<Started>>
  /\ (stage \in Loaded /\ (hand = Nothing \/ hand.phase = "arrived")) => Evidence = lived
  /\ (stage \in Loaded /\ hand # Nothing /\ hand.phase = "recorded")
       => Evidence = Append(lived, Outcome(hand.message, hand.at))
  /\ stage # "down" => IsSequence(Evidence) /\ Evidence # <<>>

LEMMA EvidenceIs == HandInv /\ StageInv => EvidenceShape
  <1> SUFFICES ASSUME HandInv, StageInv PROVE EvidenceShape
    OBVIOUS
  <1> USE DEF EvidenceShape
  <1>1. /\ stage \in Loaded => stage # "opened" /\ stage # "down"
        /\ stage # "attached" \/ (stage # "opened" /\ stage \notin Loaded)
        /\ stage # "opened" \/ stage \notin Loaded
    BY DEF Loaded
  <1>2. ASSUME NEW x PROVE IsSequence(<<x>>) /\ <<x>> # <<>>
    <2>1. <<x>> \in Seq({x}) /\ <<x>> # <<>>
      OBVIOUS
    <2>2. QED
      BY <2>1 DEF IsSequence
  <1>3. IsSequence(lived)
    BY DEF StageInv
  <1>4. CASE stage = "opened"
    <2>1. lived = <<>> /\ InHand = <<>>
      BY <1>1, <1>4 DEF StageInv, InHand
    <2>2. Evidence = <<Started>> \o <<>> \o <<>>
      BY <1>4, <2>1 DEF Evidence
    <2> DEFINE s == Started
    <2>3. Evidence = <<s>> \o <<>> \o <<>>
      BY <2>2
    <2> HIDE DEF s
    <2>4. <<s>> \o <<>> \o <<>> = <<s>>
      OBVIOUS
    <2>5. Evidence = <<s>>
      BY <2>3, <2>4
    <2>6. QED
      BY <1>1, <1>2, <1>4, <2>5 DEF s
  <1>5. CASE stage = "attached"
    <2>1. lived = <<Started>> /\ InHand = <<>>
      BY <1>1, <1>5 DEF StageInv, InHand
    <2>2. Evidence = <<>> \o lived \o <<>>
      BY <1>5, <2>1 DEF Evidence
    <2>3. Evidence = lived
      BY <1>3, <2>2, LongerSequence
    <2>4. QED
      BY <1>1, <1>2, <1>5, <2>1, <2>3
  <1>6. CASE stage \in Loaded /\ (hand = Nothing \/ hand.phase = "arrived")
    <2>1. InHand = <<>> /\ lived # <<>>
      BY <1>6 DEF InHand, StageInv
    <2>2. Evidence = <<>> \o lived \o <<>>
      BY <1>1, <1>6, <2>1 DEF Evidence
    <2>3. Evidence = lived
      BY <1>3, <2>2, LongerSequence
    <2>4. QED
      BY <1>1, <1>3, <1>6, <2>1, <2>3 DEF HandInv
  <1>7. CASE stage \in Loaded /\ hand # Nothing /\ hand.phase = "recorded"
    <2> DEFINE o == Outcome(hand.message, hand.at)
    <2>1. InHand = <<o>>
      BY <1>7 DEF InHand
    <2> HIDE DEF o
    <2>2. Evidence = <<>> \o lived \o <<o>>
      BY <1>1, <1>7, <2>1 DEF Evidence
    <2>3. /\ Evidence = Append(lived, o) /\ IsSequence(Append(lived, o))
          /\ Append(lived, o) # <<>>
      BY <1>3, <2>2, LongerSequence
    <2>4. QED
      BY <1>1, <1>7, <2>3 DEF o
  <1>8. stage \in Loaded /\ hand # Nothing => hand.phase \in {"arrived", "recorded"}
    BY DEF HandInv
  <1>9. stage # "down" => stage \in {"opened", "attached"} \cup Loaded
    BY DEF StageInv
  <1>10. CASE stage = "down"
    BY <1>10 DEF Loaded
  <1>11. QED
    BY <1>4, <1>5, <1>6, <1>7, <1>8, <1>9, <1>10

LEMMA EvidenceNext == HandInv' /\ StageInv' => EvidenceShape'
  BY EvidenceIs, PTL

(* Nothing is written and the evidence is the same. *)
LEMMA SameEvidence ==
  ASSUME ReplayIsLive, file' = file, run' = run, recorder' = recorder,
         warned => warned', Evidence' = Evidence,
         stage' # "down" => stage # "down", engine' = "running" => engine = "running"
  PROVE  ReplayIsLive'
  <1>1. Replayed' = Replayed
    BY DEF Replayed
  <1>2. Glued' = Glued
    BY DEF Glued
  <1>3. QED
    BY <1>1, <1>2 DEF ReplayIsLive
-----------------------------------------------------------------------------
LEMMA HandStep ==
  ASSUME HandInv, Next
  PROVE  HandInv'
  <1>1. CASE \E m \in Messages : Arrive(m)
    <2>1. PICK m \in Messages : Arrive(m)
      BY <1>1
    <2>2. sent' = sent + 1 /\ sent \in Nat
      BY <2>1 DEF Arrive, HandInv
    <2>3. hand' = [type |-> m.type, message |-> m, at |-> sent + 1, phase |-> "arrived"]
      BY <2>1 DEF Arrive
    <2>4. sent + 1 \in Nat
      BY <2>2
    <2>5. QED
      BY <2>2, <2>3, <2>4 DEF HandInv
  <1>2. CASE Record
    <2>1. /\ hand' = [hand EXCEPT !.phase = "recorded"] /\ sent' = sent /\ hand # Nothing
          /\ Framed(hand.message)
      BY <1>2 DEF Record
    <2>2. /\ hand = [type |-> hand.message.type, message |-> hand.message,
                     at |-> hand.at, phase |-> hand.phase]
          /\ hand.message \in Messages /\ hand.at \in Nat /\ sent \in Nat
      BY <2>1 DEF HandInv
    <2>3. hand' = [type |-> hand.message.type, message |-> hand.message,
                   at |-> hand.at, phase |-> "recorded"]
      BY <2>1, <2>2
    <2>4. /\ hand'.message = hand.message /\ hand'.at = hand.at /\ hand'.phase = "recorded"
      BY <2>3
    <2>5. QED
      BY <2>1, <2>2, <2>3, <2>4 DEF HandInv
  <1>3. CASE RejectUnframed \/ Promote
    BY <1>3 DEF RejectUnframed, Promote, HandInv
  <1>4. CASE Startup
    BY <1>4 DEF Startup, Open, StartSession, LoadScript, InventoryUnknown, Seed,
       StartupFails, Unload, Dies, EngineStops, Down, HandInv
  <1>5. CASE Follow
    BY <1>5 DEF Follow, FollowFrom, Read, Ready, HandInv
  <1>6. QED
    BY <1>1, <1>2, <1>3, <1>4, <1>5 DEF Next, Handler

LEMMA StageStep ==
  ASSUME FileInv, HandInv, StageInv, Next
  PROVE  StageInv'
  <1>1. /\ {"down", "opened", "attached"} \cap Loaded = {}
        /\ "seeding" \in Loaded /\ "serving" \in Loaded
    BY DEF Loaded
  <1>2. CASE Open
    <2>1. /\ run' = run + 1 /\ run \in Nat /\ stage' \in {"down", "opened"}
          /\ lived' = lived /\ hand' = hand /\ stage = "down"
      BY <1>2 DEF Open, FileInv
    <2>2. run' > 0
      BY <2>1
    <2>3. QED
      BY <1>1, <2>1, <2>2 DEF StageInv
  <1>3. CASE StartSession
    <2>1. lived = <<>> /\ lived' = Append(lived, Started) /\ run' = run
      BY <1>3 DEF StartSession, StageInv
    <2>2. Started' = Started
      BY <2>1 DEF Started
    <2>3. lived' = <<Started>> /\ IsSequence(lived')
      <3> DEFINE s == Started
      <3>1. lived' = Append(<<>>, s)
        BY <2>1
      <3> HIDE DEF s
      <3>2. lived' = <<s>> /\ lived' \in Seq({s})
        BY <3>1, Tuples
      <3>3. QED
        BY <3>2 DEF s, IsSequence
    <2>4. stage' = "attached" /\ hand' = hand /\ stage = "opened" /\ run' = run
      BY <1>3 DEF StartSession
    <2>5. QED
      BY <1>1, <2>2, <2>3, <2>4 DEF StageInv
  <1>4. CASE LoadScript \/ Seed \/ InventoryUnknown
    <2>1. /\ lived' = lived /\ hand' = hand /\ run' = run /\ stage' \in Loaded
          /\ stage = "attached" \/ stage \in Loaded
      BY <1>1, <1>4 DEF LoadScript, Seed, InventoryUnknown
    <2>2. lived # <<>>
      BY <2>1 DEF StageInv
    <2>3. QED
      BY <1>1, <2>1, <2>2 DEF StageInv
  <1>5. CASE StartupFails \/ Unload \/ Dies
    <2>1. lived' = <<>> /\ hand' = Nothing /\ stage' = "down"
      BY <1>5 DEF StartupFails, Unload, Dies, Down
    <2>2. IsSequence(lived')
      <3>1. <<>> \in Seq({})
        OBVIOUS
      <3>2. QED
        BY <2>1, <3>1 DEF IsSequence
    <2>3. QED
      BY <1>1, <2>1, <2>2 DEF StageInv
  <1>6. CASE Promote
    <2> DEFINE o == IF engine = "stopped" /\ hand.type # "transport-fault"
                      THEN Rejected([run |-> run, at |-> hand.at])
                      ELSE Outcome(hand.message, hand.at)
    <2>1. lived' = Append(lived, o) /\ stage' = stage /\ run' = run /\ hand' = Nothing
          /\ hand # Nothing
      BY <1>6 DEF Promote, runVars
    <2>2. stage \in Loaded
      BY <2>1 DEF StageInv
    <2> HIDE DEF o
    <2>3. IsSequence(lived') /\ lived' # <<>>
      BY <2>1, LongerSequence DEF StageInv
    <2>4. QED
      BY <1>1, <2>1, <2>2, <2>3 DEF StageInv
  <1>7. CASE (\E m \in Messages : Arrive(m)) \/ RejectUnframed \/ Record
    <2>1. lived' = lived /\ stage' = stage /\ run' = run
      BY <1>7 DEF Arrive, RejectUnframed, Record, runVars
    <2>2. stage \in Loaded
      BY <1>7 DEF StageInv, Arrive, RejectUnframed, Record
    <2>3. QED
      BY <1>1, <2>1, <2>2 DEF StageInv
  <1>8. CASE EngineStops \/ Follow
    <2>1. lived' = lived /\ stage' = stage /\ run' = run /\ hand' = hand
      BY <1>8 DEF EngineStops, Follow, FollowFrom, Read, Ready, runVars
    <2>2. Started' = Started
      BY <2>1 DEF Started
    <2>3. QED
      BY <2>1, <2>2 DEF StageInv
  <1>9. QED
    BY <1>2, <1>3, <1>4, <1>5, <1>6, <1>7, <1>8 DEF Next, Startup, Handler

(* The two steps that write. *)
LEMMA LiveOpen ==
  ASSUME FileInv, HandInv, StageInv, RecorderInv, HandInv', StageInv', Open
  PROVE  ReplayIsLive' /\ RecorderInv'
  <1>1. /\ run' = run + 1 /\ run \in Nat /\ stage = "down" /\ warned' = warned
        /\ recorder = "disabled"
        /\ stage' \in {"down", "opened"} /\ hand' = hand
        /\ \/ recorder' = "disabled"
           \/ /\ recorder' = "active" /\ Written(StartRow(run + 1), TRUE)
              /\ stage' = "opened"
    BY DEF Open, FileInv, RecorderInv
  <1>2. CASE recorder' = "disabled"
    BY <1>2 DEF ReplayIsLive, RecorderInv
  <1>3. CASE recorder' = "active" /\ Written(StartRow(run + 1), TRUE) /\ stage' = "opened"
    <2> DEFINE row == StartRow(run + 1)
               h == [row |-> row, part |-> "head"]
               t == [row |-> row, part |-> "rest"]
               Q == Pieces(run + 1)
               d == DecodeLines(file)
               rs == d.records
               l == d.pending
               E == {Classify(line) : line \in Seq(Q)}
               s == Started'
    <2>1. file' = file \o PiecesOf(row)
      BY <1>3 DEF Written
    <2>2. run + 1 \in Nat /\ run <= run + 1 /\ file \in Seq(Q) /\ row \in Rows(run + 1)
      BY <1>1, RowsGrow, StartRowType DEF FileInv
    <2>3. DecodeLines(file') = [records |-> Append(rs, Classify(Append(Append(l, h), t))),
                                pending |-> <<>>]
      BY <2>1, <2>2, RowBehind
    <2>4. Glued' <=> l # <<>>
      BY <1>1, <2>1, GluedAtOpen
    <2>5. Evidence' = <<s>>
      <3>1. EvidenceShape'
        BY EvidenceNext
      <3>2. QED
        BY <1>3, <3>1 DEF EvidenceShape
    <2>6. ClassifyRow(row) = s
      BY <1>1 DEF ClassifyRow, StartRow, Fact, Entry, Started
    <2>7. /\ h \in Q /\ t \in Q /\ rs \in Seq(E) /\ l \in Seq(Q)
      <3>1. h \in Q /\ t \in Q
        BY <2>2 DEF Pieces
      <3>2. d \in Decoding(Q)
        BY <2>2, DecodeType
      <3>3. QED
        BY <3>1, <3>2 DEF Decoding
    <2>8. Classify(<<h, t>>) = s
      BY <2>6, WholeLine
    <2>9. Replay(file') = DecodeLines(file').records
      BY <2>3 DEF Replay
    <2> DEFINE c == Classify(Append(Append(l, h), t))
    <2>10. Replay(file') = Append(rs, c)
      BY <2>3, <2>9
    <2>11. c \in E
      <3> HIDE DEF h, t, Q, l
      <3>1. Append(Append(l, h), t) \in Seq(Q)
        BY <2>7
      <3>2. QED
        BY <3>1
    <2>12. OfRun(run + 1, rs) = <<>>
      BY EarlierRunsForgotten DEF FileInv
    <2>13. OfRun(run + 1, Append(rs, c)) = Keep(run + 1, <<>>, c)
      <3> HIDE DEF rs, c, E
      <3>1. OfRun(run + 1, Append(rs, c)) = Keep(run + 1, OfRun(run + 1, rs), c)
        BY <2>7, <2>11, KeepOneMore
      <3>2. QED
        BY <2>12, <3>1
    <2>14. Replayed' = Keep(run + 1, <<>>, c)
      BY <1>1, <2>10, <2>13 DEF Replayed
    <2>15. s.run = run + 1
      BY <1>1 DEF Started
    <2>16. RecorderInv'
      BY <1>1, <1>3, <2>3 DEF RecorderInv
    <2> HIDE DEF h, t, Q, l, d, rs, E, s
    <2>17. CASE l = <<>>
      <3>1. c = s
        BY <2>8, <2>17, Tuples
      <3>2. Replayed' = <<s>>
        BY <2>14, <2>15, <3>1, Tuples DEF Keep
      <3>3. Replayed' = Evidence' /\ ~Glued'
        BY <2>4, <2>5, <2>17, <3>2
      <3>4. QED
        BY <1>3, <2>16, <3>3 DEF ReplayIsLive
    <2>18. CASE l # <<>>
      <3>1. c = Torn
        BY <2>7, <2>18, LongLine
      <3>2. Torn.run # run + 1
        BY <1>1 DEF Torn
      <3>3. Replayed' = <<>>
        BY <2>14, <3>1, <3>2 DEF Keep
      <3>4. Tail(<<s>>) = <<>>
        OBVIOUS
      <3>5. Replayed' = Tail(Evidence') /\ Glued'
        BY <2>4, <2>5, <2>18, <3>3, <3>4
      <3>6. QED
        BY <1>3, <2>16, <3>5 DEF ReplayIsLive
    <2>19. QED
      BY <2>17, <2>18
  <1>4. QED
    BY <1>1, <1>2, <1>3

LEMMA LiveRecord ==
  ASSUME FileInv, HandInv, StageInv, RecorderInv, ReplayIsLive, HandInv', StageInv', Record
  PROVE  ReplayIsLive' /\ RecorderInv'
  <1> DEFINE m == hand.message
             at == hand.at
             o == Outcome(m, at)
             row == RowOf(m, at)
             expected == IF Glued THEN Tail(Evidence) ELSE Evidence
  <1>1. /\ hand # Nothing /\ hand.phase = "arrived" /\ Framed(m) /\ run' = run
        /\ stage' = stage /\ engine' = engine /\ lived' = lived
        /\ hand' = [hand EXCEPT !.phase = "recorded"]
    BY DEF Record, runVars
  <1>2. /\ m \in Messages /\ at \in Nat /\ run \in Nat /\ run > 0 /\ stage \in Loaded
        /\ stage # "down"
    BY <1>1 DEF HandInv, StageInv, FileInv, Loaded
  <1>3. hand' # Nothing /\ hand'.phase = "recorded" /\ hand'.message = m /\ hand'.at = at
    <2>1. hand = [type |-> hand.message.type, message |-> hand.message,
                  at |-> hand.at, phase |-> hand.phase]
          /\ hand.message.type \in {"packet", "transport-closed", "transport-fault"}
      BY <1>1, <1>2, MessagesAssumption DEF HandInv
    <2>2. hand' = [type |-> hand.message.type, message |-> hand.message,
                   at |-> hand.at, phase |-> "recorded"]
      BY <1>1, <2>1
    <2>3. hand'.type # "nothing"
      BY <2>1, <2>2
    <2>4. QED
      BY <2>2, <2>3 DEF Nothing
  <1>4. Evidence = lived /\ IsSequence(Evidence) /\ Evidence # <<>>
    BY <1>1, <1>2, EvidenceIs DEF EvidenceShape
  <1>5. Evidence' = Append(lived, o)
    <2>1. EvidenceShape'
      BY EvidenceNext
    <2>2. Evidence' = Append(lived', Outcome(hand.message, hand.at)')
      BY <1>1, <1>2, <1>3, <2>1 DEF EvidenceShape, Loaded
    <2>3. Outcome(hand.message, hand.at)' = o
      BY <1>1, <1>3 DEF Outcome, Fact, Entry, Rejected, Promoted
    <2>4. QED
      BY <1>1, <2>2, <2>3
  <1>6. /\ row \in Rows(run) /\ row.type # "capture-session-start"
        /\ ClassifyRow(row) = o /\ row.run = run /\ o.run = run
    <2>1. row \in Rows(run) /\ row.type # "capture-session-start" /\ ClassifyRow(row) = o
      BY <1>1, <1>2, RowOfType, RowIsOutcome
    <2>2. row.run = run
      BY DEF RowOf
    <2>3. o.run = run
      BY DEF Outcome, Fact, Entry, Rejected, Promoted
    <2>4. QED
      BY <2>1, <2>2, <2>3
  <1>7. ASSUME NEW n \in 0..3, file' = file \o SubSeq(PiecesOf(row), 1, n)
        PROVE  Glued' <=> Glued
    <2> DEFINE tail == SubSeq(PiecesOf(row), 1, n)
    <2>1. tail \in Seq(Pieces(run))
      BY <1>2, <1>6, PiecesType
    <2>2. \A i \in 1..Len(tail) : tail[i].row.type # "capture-session-start"
      <3> SUFFICES ASSUME NEW i \in 1..Len(tail)
                   PROVE  tail[i].row.type # "capture-session-start"
        OBVIOUS
      <3> DEFINE all == PiecesOf(row)
      <3>1. /\ all \in Seq(Pieces(run)) /\ Len(all) = 3
            /\ all[1] = [row |-> row, part |-> "head"]
            /\ all[2] = [row |-> row, part |-> "rest"]
            /\ all[3] = Newline
        BY <1>2, <1>6, PiecesType
      <3>2. i \in 1..3 /\ tail[i] = all[i]
        <4>1. all \in Seq(Pieces(run)) /\ Len(all) = 3
          BY <3>1
        <4> HIDE DEF all
        <4>2. QED
          BY <4>1 DEF all
      <3>3. all[i].row = row \/ all[i].row = Nothing
        <4> HIDE DEF row, all
        <4>1. all[1].row = row /\ all[2].row = row /\ all[3].row = Nothing
          BY <3>1 DEF Newline
        <4>2. i = 1 \/ i = 2 \/ i = 3
          BY <3>2
        <4>3. QED
          BY <4>1, <4>2
      <3>4. Nothing.type # "capture-session-start"
        BY DEF Nothing
      <3> HIDE DEF row, all, tail
      <3>5. QED
        BY <1>6, <3>2, <3>3, <3>4
    <2> HIDE DEF tail, row
    <2>3. file' = file \o tail
      BY <1>7 DEF tail
    <2>4. QED
      BY <1>1, <2>1, <2>2, <2>3, GluedStays
  <1> DEFINE expectedNext == IF Glued' THEN Tail(Evidence') ELSE Evidence'
  <1>8. ASSUME Glued' <=> Glued
        PROVE  /\ expectedNext = Append(expected, o) /\ IsSequence(expected)
               /\ IsPrefix(expected, Append(expected, o))
               /\ IsPrefix(Append(expected, o), Append(expected, o))
               /\ \A s : IsPrefix(s, expected) => IsPrefix(s, Append(expected, o))
    <2> HIDE DEF o
    <2>1. /\ Tail(Append(lived, o)) = Append(Tail(lived), o)
          /\ IsSequence(lived) /\ IsSequence(Tail(lived))
      BY <1>4, LongerSequence
    <2>2. expectedNext = Append(expected, o) /\ IsSequence(expected)
      BY <1>4, <1>5, <1>8, <2>1
    <2> HIDE DEF expected, expectedNext
    <2>3. IsSequence(Append(expected, o)) /\ IsPrefix(expected, Append(expected, o))
      BY <2>2, LongerSequence
    <2>4. IsPrefix(Append(expected, o), Append(expected, o))
      BY <2>3, LongerSequence
    <2>5. \A s : IsPrefix(s, expected) => IsPrefix(s, Append(expected, o))
      BY <2>2, PrefixOfAppended
    <2>6. QED
      BY <2>2, <2>3, <2>4, <2>5
  <1> HIDE DEF o, row
  <1>9. CASE recorder # "active"
    <2>1. /\ recorder' = recorder /\ warned' = warned /\ file' = file
      BY <1>9 DEF Record
    <2>2. RecorderInv'
      BY <1>1, <1>9, <2>1 DEF RecorderInv
    <2>3. Replayed' = Replayed /\ (Glued' <=> Glued)
      BY <1>1, <2>1 DEF Replayed, Glued
    <2>4. ASSUME engine' = "running", recorder' = "failed"
          PROVE  warned' /\ IsPrefix(Replayed', expectedNext)
      <3>1. warned /\ IsPrefix(Replayed, expected)
        BY <1>1, <1>2, <2>1, <2>4 DEF ReplayIsLive
      <3> HIDE DEF expected, expectedNext
      <3>2. QED
        BY <1>8, <2>1, <2>3, <3>1
    <2>5. recorder' # "active"
      BY <1>9, <2>1
    <2>6. QED
      BY <2>2, <2>4, <2>5 DEF ReplayIsLive
  <1>10. CASE recorder = "active"
    <2>1. PICK ok \in BOOLEAN :
            /\ Written(row, ok) /\ recorder' = (IF ok THEN "active" ELSE "failed")
            /\ warned' = (warned \/ ~ok)
      BY <1>10 DEF Record, row
    <2>2. DecodeLines(file).pending = <<>>
      BY <1>10 DEF RecorderInv
    <2>3. ASSUME engine = "running" PROVE Replayed = expected
      BY <1>2, <1>10, <2>3 DEF ReplayIsLive
    <2>4. PICK n \in 0..3 : /\ file' = file \o SubSeq(PiecesOf(row), 1, n)
                            /\ ok => n = 3
      <3>1. CASE ok
        <4>1. file' = file \o PiecesOf(row)
          BY <2>1, <3>1 DEF Written
        <4>2. SubSeq(PiecesOf(row), 1, 3) = PiecesOf(row)
          BY <1>2, <1>6, RowBehind DEF FileInv
        <4>3. file' = file \o SubSeq(PiecesOf(row), 1, 3)
          BY <4>1, <4>2, Zenon
        <4>4. 3 \in 0..3 /\ 3 = 3
          OBVIOUS
        <4>5. QED
          BY <4>3, <4>4, Zenon
      <3>2. CASE ~ok
        BY <2>1, <3>2 DEF Written
      <3>3. QED
        BY <3>1, <3>2
    <2>5. Glued' <=> Glued
      BY <1>7, <2>4
    <2>6. /\ OfRun(run, Replay(file')) \in {OfRun(run, Replay(file)),
                                            Append(OfRun(run, Replay(file)), o)}
          /\ n = 3 => DecodeLines(file').pending = <<>>
          /\ n = 3 => OfRun(run, Replay(file')) = Append(OfRun(run, Replay(file)), o)
      BY <1>2, <1>6, <2>2, <2>4, CleanRow
    <2>7. /\ Replayed' \in {Replayed, Append(Replayed, o)}
          /\ ok => DecodeLines(file').pending = <<>> /\ Replayed' = Append(Replayed, o)
      BY <1>1, <2>4, <2>6 DEF Replayed
    <2>8. /\ recorder' = "active" => ok
          /\ recorder' = "failed" => warned'
          /\ recorder' \in {"active", "failed"}
      BY <2>1
    <2>9. RecorderInv'
      BY <1>1, <1>2, <2>7, <2>8 DEF RecorderInv
    <2>10. ASSUME engine' = "running"
           PROVE  /\ recorder' = "active" => Replayed' = expectedNext
                  /\ recorder' = "failed" => warned' /\ IsPrefix(Replayed', expectedNext)
      <3>1. Replayed = expected
        BY <1>1, <2>3, <2>10
      <3> HIDE DEF expected, expectedNext
      <3>2. recorder' = "active" => Replayed' = expectedNext
        BY <1>8, <2>5, <2>7, <2>8, <3>1
      <3>3. IsPrefix(Replayed', expectedNext)
        BY <1>8, <2>5, <2>7, <3>1
      <3>4. QED
        BY <2>8, <3>2, <3>3
    <2>11. QED
      BY <2>9, <2>10 DEF ReplayIsLive
  <1>11. QED
    BY <1>9, <1>10

LEMMA LiveStep ==
  ASSUME IInv, Next, HandInv', StageInv'
  PROVE  ReplayIsLive' /\ RecorderInv'
  <1> USE DEF IInv
  <1>1. CASE Open
    BY <1>1, LiveOpen
  <1>2. CASE Record
    BY <1>2, LiveRecord
  <1>3. EvidenceShape /\ EvidenceShape'
    BY EvidenceIs, EvidenceNext
  <1>4. {"down", "opened", "attached"} \cap Loaded = {} /\ {"seeding", "serving"} \subseteq Loaded
    BY DEF Loaded
  <1>5. CASE StartupFails \/ Unload \/ Dies
    BY <1>5 DEF StartupFails, Unload, Dies, Down, ReplayIsLive, RecorderInv
  <1>6. CASE EngineStops
    <2>1. engine' = "stopped"
      BY <1>6 DEF EngineStops
    <2>2. RecorderInv'
      BY <1>6 DEF EngineStops, RecorderInv
    <2>3. QED
      BY <2>1, <2>2 DEF ReplayIsLive
  <1>7. ASSUME file' = file, run' = run, recorder' = recorder, warned' = warned,
               Evidence' = Evidence, engine' = engine, stage # "down", stage' # "down"
        PROVE  ReplayIsLive' /\ RecorderInv'
    <2>1. ReplayIsLive'
      BY <1>7, SameEvidence
    <2>2. RecorderInv'
      BY <1>7 DEF RecorderInv
    <2>3. QED
      BY <2>1, <2>2
  <1>8. CASE StartSession
    <2>1. Started' = Started
      BY <1>8 DEF StartSession, Started
    <2>2. stage = "opened" /\ stage' = "attached"
      BY <1>8 DEF StartSession
    <2>3. Evidence' = Evidence
      BY <1>3, <2>1, <2>2 DEF EvidenceShape
    <2>4. QED
      BY <1>7, <1>8, <2>2, <2>3 DEF StartSession
  <1>9. CASE LoadScript
    <2>1. /\ stage = "attached" /\ stage' = "seeding" /\ hand' = hand /\ hand = Nothing
          /\ lived' = lived /\ lived = <<Started>>
      BY <1>4, <1>9 DEF LoadScript, StageInv
    <2>2. Evidence = <<Started>> /\ Evidence' = lived'
      BY <1>3, <1>4, <2>1 DEF EvidenceShape
    <2>3. QED
      BY <1>7, <1>9, <2>1, <2>2 DEF LoadScript
  <1>10. CASE Seed \/ InventoryUnknown
    <2>1. /\ stage \in Loaded /\ stage' \in Loaded /\ hand' = hand /\ lived' = lived
          /\ run' = run
      BY <1>4, <1>10 DEF Seed, InventoryUnknown
    <2>2. stage # "opened" /\ stage' # "opened"
      BY <1>4, <2>1
    <2>3. InHand' = InHand
      BY <2>1 DEF InHand, Outcome, Fact, Entry, Rejected, Promoted
    <2>4. Evidence' = Evidence
      BY <2>1, <2>2, <2>3 DEF Evidence
    <2>5. stage # "down"
      BY <1>4, <2>1
    <2>6. QED
      BY <1>7, <1>10, <2>4, <2>5 DEF Seed, InventoryUnknown
  <1>11. CASE \E m \in Messages : Arrive(m)
    <2>1. /\ stage \in Loaded /\ hand = Nothing /\ hand'.phase = "arrived" /\ stage' = stage
          /\ lived' = lived
      BY <1>11 DEF Arrive, runVars
    <2>2. Evidence = lived /\ Evidence' = lived'
      BY <1>3, <2>1 DEF EvidenceShape, Loaded
    <2>3. QED
      BY <1>4, <1>7, <1>11, <2>1, <2>2 DEF Arrive, runVars
  <1>12. CASE RejectUnframed
    <2>1. /\ hand # Nothing /\ hand.phase = "arrived" /\ hand' = Nothing /\ stage' = stage
          /\ lived' = lived
      BY <1>12 DEF RejectUnframed, runVars
    <2>2. stage \in Loaded
      BY <2>1 DEF StageInv
    <2>3. Evidence = lived /\ Evidence' = lived'
      BY <1>3, <2>1, <2>2 DEF EvidenceShape, Loaded
    <2>4. QED
      BY <1>4, <1>7, <1>12, <2>1, <2>2, <2>3 DEF RejectUnframed, runVars
  <1>13. CASE Promote
    <2>1. /\ hand # Nothing /\ hand.phase = "recorded" /\ hand' = Nothing /\ stage' = stage
          /\ engine' = engine
      BY <1>13 DEF Promote, runVars
    <2>2. stage \in Loaded
      BY <2>1 DEF StageInv
    <2>3. RecorderInv'
      BY <1>13 DEF Promote, runVars, RecorderInv
    <2>4. CASE engine = "running"
      <3>1. lived' = Append(lived, Outcome(hand.message, hand.at))
        BY <1>13, <2>4 DEF Promote
      <3>2. Evidence = Append(lived, Outcome(hand.message, hand.at))
        BY <1>3, <2>1, <2>2 DEF EvidenceShape
      <3>3. Evidence' = lived'
        BY <1>3, <2>1, <2>2 DEF EvidenceShape, Loaded
      <3>4. QED
        BY <1>4, <1>7, <1>13, <2>1, <2>2, <3>1, <3>2, <3>3 DEF Promote, runVars
    <2>5. CASE engine # "running"
      BY <2>1, <2>3, <2>5 DEF ReplayIsLive
    <2>6. QED
      BY <2>4, <2>5
  <1>14. CASE Follow
    <2>1. /\ UNCHANGED <<run, stage, attempt, engine, recorder, warned, hand, sent, lived, file>>
      BY <1>14 DEF Follow, FollowFrom, Read, Ready, runVars
    <2>2. InHand' = InHand
      BY <2>1 DEF InHand, Outcome, Fact, Entry, Rejected, Promoted
    <2>3. Evidence' = Evidence
      BY <2>1, <2>2 DEF Evidence, Started
    <2>4. CASE stage = "down"
      BY <2>1, <2>4 DEF ReplayIsLive, RecorderInv
    <2>5. CASE stage # "down"
      BY <1>7, <2>1, <2>3, <2>5
    <2>6. QED
      BY <2>4, <2>5
  <1>15. QED
    BY <1>1, <1>2, <1>5, <1>6, <1>8, <1>9, <1>10, <1>11, <1>12, <1>13, <1>14
       DEF Next, Startup, Handler
-----------------------------------------------------------------------------
LEMMA Initially ==
  ASSUME Init
  PROVE  IInv
  <1>1. FileInv
    BY EarlierFile DEF Init, FileInv
  <1>2. FollowerInv
    <2>1. follower = [at |-> 0, from |-> 0, pending |-> <<>>, seen |-> <<>>, phase |-> "closed"]
      BY DEF Init
    <2>2. Len(file) \in Nat /\ SubSeq(file, 0 + 1, 0) = <<>>
      BY <1>1 DEF FileInv
    <2>3. DecodeLines(SubSeq(file, 0 + 1, 0)) = [records |-> <<>>, pending |-> <<>>]
      BY <2>2, DecodeNone DEF Empty
    <2>4. QED
      BY <2>1, <2>2, <2>3 DEF FollowerInv
  <1>3. HandInv
    BY DEF Init, HandInv
  <1>4. StageInv
    <2>1. IsSequence(<<>>)
      <3>1. <<>> \in Seq({})
        OBVIOUS
      <3>2. QED
        BY <3>1 DEF IsSequence
    <2>2. "down" \notin Loaded
      BY DEF Loaded
    <2>3. QED
      BY <2>1, <2>2 DEF Init, StageInv
  <1>5. RecorderInv /\ ReplayIsLive
    BY DEF Init, RecorderInv, ReplayIsLive
  <1>6. QED
    BY <1>1, <1>2, <1>3, <1>4, <1>5 DEF IInv

LEMMA InvStep ==
  ASSUME IInv, [Next]_vars
  PROVE  IInv'
  <1>1. CASE Next
    <2>1. HandInv'
      BY <1>1, HandStep DEF IInv
    <2>2. StageInv'
      BY <1>1, StageStep DEF IInv
    <2>3. FileInv' /\ FollowerInv'
      BY FollowerStep DEF IInv, HandInv
    <2>4. QED
      BY <1>1, <2>1, <2>2, <2>3, LiveStep DEF IInv
  <1>2. CASE UNCHANGED vars
    <2>1. /\ UNCHANGED <<run, stage, attempt, engine, recorder, warned, hand, sent, lived, file,
                         follower>>
      BY <1>2 DEF vars, runVars
    <2>2. FileInv' /\ FollowerInv' /\ HandInv' /\ RecorderInv'
      BY <2>1 DEF IInv, FileInv, FollowerInv, HandInv, RecorderInv
    <2>3. StageInv'
      BY <2>1 DEF IInv, StageInv, Started
    <2>4. InHand' = InHand
      BY <2>1 DEF InHand, Outcome, Fact, Entry, Rejected, Promoted
    <2>5. Evidence' = Evidence
      BY <2>1, <2>4 DEF Evidence, Started
    <2>6. ReplayIsLive'
      BY <2>1, <2>5, SameEvidence DEF IInv
    <2>7. QED
      BY <2>2, <2>3, <2>6 DEF IInv
  <1>3. QED
    BY <1>1, <1>2

THEOREM AcquisitionInvariant == Spec => []IInv
  <1>1. Init => IInv
    BY Initially
  <1>2. IInv /\ [Next]_vars => IInv'
    BY InvStep
  <1>3. QED
    BY <1>1, <1>2, PTL DEF Spec

(* FollowerIsReplay: live follows a file while it grows and its reads cut   *)
(* the rows anywhere.                                                       *)
THEOREM FollowingIsReplaying == Spec => []FollowerIsReplay
  <1>1. IInv => FollowerIsReplay
    BY FollowerInvIsReplay DEF IInv
  <1>2. QED
    BY <1>1, AcquisitionInvariant, PTL

(* ReplayIsLive: recording precedes promotion, and a replay of the file     *)
(* sees what the engine of the run saw.                                     *)
THEOREM ReplayingIsLiving == Spec => []ReplayIsLive
  <1>1. IInv => ReplayIsLive
    BY DEF IInv
  <1>2. QED
    BY <1>1, AcquisitionInvariant, PTL
=============================================================================
