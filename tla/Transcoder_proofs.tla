-------------------------- MODULE Transcoder_proofs --------------------------
(* The transcoding servers keep their types and implement, for each output,   *)
(* the lossy ordered stream; without failures they deliver every frame, and    *)
(* with them the timestamps still never go back, no thread waits for one that  *)
(* has returned and no server runs for ever: every one of the twelve programs, *)
(* for any number of packets and outputs.  The steps of a program are among    *)
(* the shared ones, so each lemma is about those.                              *)
EXTENDS Transcoder, SequenceTheorems, TLAPS

-----------------------------------------------------------------------------
(* What a pipe made of concatenated stages does when a member moves from one   *)
(* stage to the next, or is lost in the middle.                                *)

\* What Without returns.
LEMMA WithoutProperties ==
    ASSUME NEW S, NEW s \in Seq(S), NEW i \in 1..Len(s)
    PROVE  /\ Without(s, i) \in Seq(S)
           /\ Len(Without(s, i)) = Len(s) - 1
           /\ \A j \in 1..(Len(s) - 1) :
                Without(s, i)[j] = IF j < i THEN s[j] ELSE s[j + 1]
<1> DEFINE a == SubSeq(s, 1, i - 1)
           b == SubSeq(s, i + 1, Len(s))
<1>1. a \in Seq(S) /\ Len(a) = i - 1 /\ \A j \in 1..(i - 1) : a[j] = s[j]
  OBVIOUS
<1>2. b \in Seq(S) /\ Len(b) = Len(s) - i /\ \A j \in 1..(Len(s) - i) : b[j] = s[i + j]
  OBVIOUS
<1> HIDE DEF a, b
<1>0. Len(s) \in Nat /\ i \in Nat /\ 1 <= i /\ i <= Len(s)
  BY LenProperties
<1>3. a \o b \in Seq(S) /\ Len(a \o b) = Len(s) - 1
  <2>1. a \o b \in Seq(S) /\ Len(a \o b) = Len(a) + Len(b)
    BY <1>1, <1>2, ConcatProperties
  <2> QED
    BY <2>1, <1>0, <1>1, <1>2
<1>4. ASSUME NEW j \in 1..(Len(s) - 1) PROVE (a \o b)[j] = IF j < i THEN s[j] ELSE s[j + 1]
  <2>1. (a \o b)[j] = IF j <= Len(a) THEN a[j] ELSE b[j - Len(a)]
    BY <1>1, <1>2, ConcatProperties
  <2>2. CASE j < i
    BY <2>1, <2>2, <1>1
  <2>3. CASE j >= i
    <3>1. j - (i - 1) \in 1..(Len(s) - i) /\ i + (j - (i - 1)) = j + 1
      BY <2>3
    <3>2. (a \o b)[j] = b[j - (i - 1)]
      BY <2>1, <2>3, <1>0, <1>1
    <3>3. b[j - (i - 1)] = s[i + (j - (i - 1))]
      BY <3>1, <1>2
    <3> QED
      BY <2>3, <3>1, <3>2, <3>3, <1>0
  <2>4. j < i \/ j >= i
    BY <1>0
  <2> QED
    BY <2>2, <2>3, <2>4, Zenon
<1>5. Without(s, i) = a \o b
  BY DEF Without, a, b
<1> QED
  BY <1>3, <1>4, <1>5

\* Losing a member of a stage is losing a member of the whole pipe, behind it ...
LEMMA WithoutConcat ==
    ASSUME NEW S, NEW s \in Seq(S), NEW t \in Seq(S), NEW i \in 1..Len(s)
    PROVE  i \in 1..Len(s \o t) /\ Without(s, i) \o t = Without(s \o t, i)
<1> DEFINE w == Without(s, i)
           u == s \o t
<1>1. u \in Seq(S) /\ Len(u) = Len(s) + Len(t)
      /\ \A j \in 1..(Len(s) + Len(t)) : u[j] = IF j <= Len(s) THEN s[j] ELSE t[j - Len(s)]
  BY ConcatProperties
<1>2. i \in 1..Len(u)
  BY <1>1
<1>3. w \in Seq(S) /\ Len(w) = Len(s) - 1
      /\ \A j \in 1..(Len(s) - 1) : w[j] = IF j < i THEN s[j] ELSE s[j + 1]
  BY WithoutProperties
<1> HIDE DEF w
<1>4. w \o t \in Seq(S) /\ Len(w \o t) = Len(s) - 1 + Len(t)
      /\ \A j \in 1..(Len(s) - 1 + Len(t)) :
           (w \o t)[j] = IF j <= Len(s) - 1 THEN w[j] ELSE t[j - (Len(s) - 1)]
  <2>1. w \o t \in Seq(S) /\ Len(w \o t) = Len(w) + Len(t)
        /\ \A j \in 1..(Len(w) + Len(t)) :
             (w \o t)[j] = IF j <= Len(w) THEN w[j] ELSE t[j - Len(w)]
    BY <1>3, ConcatProperties
  <2> QED
    BY <2>1, <1>3
<1>5. Without(u, i) \in Seq(S) /\ Len(Without(u, i)) = Len(u) - 1
      /\ \A j \in 1..(Len(u) - 1) : Without(u, i)[j] = IF j < i THEN u[j] ELSE u[j + 1]
  BY <1>1, <1>2, WithoutProperties
<1>6. ASSUME NEW j \in 1..Len(w \o t) PROVE (w \o t)[j] = Without(u, i)[j]
  <2>1. CASE j < i
    BY <2>1, <1>1, <1>3, <1>4, <1>5
  <2>2. CASE j >= i /\ j <= Len(s) - 1
    BY <2>2, <1>1, <1>3, <1>4, <1>5
  <2>3. CASE j > Len(s) - 1
    <3>1. (w \o t)[j] = t[j - (Len(s) - 1)]
      BY <2>3, <1>4
    <3>2. Without(u, i)[j] = u[j + 1] /\ u[j + 1] = t[j + 1 - Len(s)]
      BY <2>3, <1>1, <1>4, <1>5
    <3> QED
      BY <3>1, <3>2
  <2> QED
    BY <2>1, <2>2, <2>3, <1>4
<1>7. Len(w \o t) = Len(Without(u, i))
  BY <1>1, <1>4, <1>5
<1>8. w \o t = Without(u, i)
  BY <1>4, <1>5, <1>6, <1>7, SeqEqual
<1> QED
  BY <1>2, <1>8 DEF w

\* ... or in front of it.
LEMMA ConcatWithout ==
    ASSUME NEW S, NEW s \in Seq(S), NEW t \in Seq(S), NEW i \in 1..Len(t)
    PROVE  /\ Len(s) + i \in 1..Len(s \o t)
           /\ s \o Without(t, i) = Without(s \o t, Len(s) + i)
<1> DEFINE w == Without(t, i)
           u == s \o t
           k == Len(s) + i
<1>0. Len(s) \in Nat /\ Len(t) \in Nat /\ i \in Nat /\ 1 <= i /\ i <= Len(t)
  BY LenProperties
<1>1. u \in Seq(S) /\ Len(u) = Len(s) + Len(t)
      /\ \A j \in 1..(Len(s) + Len(t)) : u[j] = IF j <= Len(s) THEN s[j] ELSE t[j - Len(s)]
  BY ConcatProperties
<1>2. k \in 1..Len(u)
  BY <1>0, <1>1
<1>3. w \in Seq(S) /\ Len(w) = Len(t) - 1
      /\ \A j \in 1..(Len(t) - 1) : w[j] = IF j < i THEN t[j] ELSE t[j + 1]
  BY WithoutProperties
<1> HIDE DEF w
<1>4. s \o w \in Seq(S) /\ Len(s \o w) = Len(s) + (Len(t) - 1)
      /\ \A j \in 1..(Len(s) + (Len(t) - 1)) :
           (s \o w)[j] = IF j <= Len(s) THEN s[j] ELSE w[j - Len(s)]
  <2>1. s \o w \in Seq(S) /\ Len(s \o w) = Len(s) + Len(w)
        /\ \A j \in 1..(Len(s) + Len(w)) :
             (s \o w)[j] = IF j <= Len(s) THEN s[j] ELSE w[j - Len(s)]
    BY <1>3, ConcatProperties
  <2> QED
    BY <2>1, <1>3
<1>5. Without(u, k) \in Seq(S) /\ Len(Without(u, k)) = Len(u) - 1
      /\ \A j \in 1..(Len(u) - 1) : Without(u, k)[j] = IF j < k THEN u[j] ELSE u[j + 1]
  BY <1>1, <1>2, WithoutProperties
<1>6. ASSUME NEW j \in 1..Len(s \o w) PROVE (s \o w)[j] = Without(u, k)[j]
  <2>0. j \in Nat /\ 1 <= j /\ j <= Len(s) + Len(t) - 1
    BY <1>0, <1>4
  <2>1. CASE j <= Len(s)
    BY <2>0, <2>1, <1>0, <1>1, <1>4, <1>5
  <2>2. CASE j > Len(s) /\ j < k
    <3>1. (s \o w)[j] = w[j - Len(s)] /\ w[j - Len(s)] = t[j - Len(s)]
      BY <2>0, <2>2, <1>0, <1>3, <1>4
    <3>2. Without(u, k)[j] = u[j] /\ u[j] = t[j - Len(s)]
      BY <2>0, <2>2, <1>0, <1>1, <1>5
    <3> QED
      BY <3>1, <3>2
  <2>3. CASE j >= k
    <3>0. j - Len(s) \in 1..(Len(t) - 1) /\ ~(j - Len(s) < i) /\ ~(j <= Len(s))
      BY <2>0, <2>3, <1>0
    <3>1. (s \o w)[j] = w[j - Len(s)] /\ w[j - Len(s)] = t[j - Len(s) + 1]
      BY <3>0, <2>0, <1>0, <1>3, <1>4
    <3>2. Without(u, k)[j] = u[j + 1] /\ u[j + 1] = t[j + 1 - Len(s)]
      BY <2>0, <2>3, <1>0, <1>1, <1>5
    <3> QED
      BY <3>1, <3>2, <2>0, <1>0
  <2> QED
    BY <2>0, <2>1, <2>2, <2>3, <1>0
<1>7. Len(s \o w) = Len(Without(u, k))
  BY <1>0, <1>1, <1>4, <1>5
<1>8. s \o w = Without(u, k)
  BY <1>4, <1>5, <1>6, <1>7, SeqEqual
<1> QED
  BY <1>2, <1>8 DEF w

\* The head of the stage u is the member after s.
LEMMA ConcatTail ==
    ASSUME NEW S, NEW s \in Seq(S), NEW u \in Seq(S), u # <<>>
    PROVE  /\ Len(s) + 1 \in 1..Len(s \o u)
           /\ s \o Tail(u) = Without(s \o u, Len(s) + 1)
<1>1. 1 \in 1..Len(u) /\ Tail(u) \in Seq(S) /\ Len(Tail(u)) = Len(u) - 1
      /\ \A j \in 1..(Len(u) - 1) : Tail(u)[j] = u[j + 1]
  OBVIOUS
<1>2. Without(u, 1) \in Seq(S) /\ Len(Without(u, 1)) = Len(u) - 1
      /\ \A j \in 1..(Len(u) - 1) : Without(u, 1)[j] = u[j + 1]
  <2>1. Without(u, 1) \in Seq(S) /\ Len(Without(u, 1)) = Len(u) - 1
        /\ \A j \in 1..(Len(u) - 1) : Without(u, 1)[j] = IF j < 1 THEN u[j] ELSE u[j + 1]
    BY <1>1, WithoutProperties
  <2>2. \A j \in 1..(Len(u) - 1) : ~(j < 1)
    OBVIOUS
  <2> QED
    BY <2>1, <2>2
<1>3. Tail(u) = Without(u, 1)
  BY <1>1, <1>2, SeqEqual
<1> QED
  BY <1>1, <1>3, ConcatWithout

\* A member that moves from the head of a stage to the end of the one in front
\* of it does not move in the pipe.
LEMMA MoveForward ==
    ASSUME NEW S, NEW s \in Seq(S), NEW t \in Seq(S), NEW u \in Seq(S), u # <<>>
    PROVE  (s \o Append(t, Head(u))) \o Tail(u) = (s \o t) \o u
<1>1. Head(u) \in S /\ Tail(u) \in Seq(S) /\ u = <<Head(u)>> \o Tail(u)
  BY HeadTailProperties, HeadTailAppend, ConcatProperties, SeqEqual
<1>2. Append(t, Head(u)) = t \o <<Head(u)>>
  BY <1>1, AppendIsConcat
<1>3. s \o (t \o <<Head(u)>>) = (s \o t) \o <<Head(u)>>
  BY <1>1, ConcatAssociative
<1>4. ((s \o t) \o <<Head(u)>>) \o Tail(u) = (s \o t) \o (<<Head(u)>> \o Tail(u))
  BY <1>1, ConcatAssociative, ConcatProperties
<1> QED
  BY <1>1, <1>2, <1>3, <1>4

\* A member appended to the last stage is appended to the pipe.
LEMMA AppendConcat ==
    ASSUME NEW S, NEW s \in Seq(S), NEW t \in Seq(S), NEW x \in S
    PROVE  s \o Append(t, x) = Append(s \o t, x)
  BY AppendIsConcat, ConcatAssociative, ConcatProperties

\* The oldest member of the first stage is the oldest member of the pipe.
LEMMA TailConcat ==
    ASSUME NEW S, NEW s \in Seq(S), NEW t \in Seq(S), s # <<>>
    PROVE  /\ s \o t # <<>>
           /\ Head(s \o t) = Head(s)
           /\ Tail(s \o t) = Tail(s) \o t
<1>1. Head(s) \in S /\ Tail(s) \in Seq(S) /\ s = <<Head(s)>> \o Tail(s)
  BY HeadTailProperties, ConcatProperties, SeqEqual
<1>2. s \o t = <<Head(s)>> \o (Tail(s) \o t)
  BY <1>1, ConcatAssociative
<1>3. Tail(s) \o t \in Seq(S)
  BY <1>1, ConcatProperties
<1> QED
  BY <1>1, <1>2, <1>3

\* Losing a member keeps the rest in order and below any bound.
LEMMA WithoutIncreasing ==
    ASSUME NEW s \in Seq(Nat), NEW i \in 1..Len(s), NEW n \in Nat, OrderedBelow(s, n)
    PROVE  OrderedBelow(Without(s, i), n)
<1>0. Len(s) \in Nat /\ i \in Nat /\ 1 <= i /\ i <= Len(s)
  BY LenProperties
<1>1. Len(Without(s, i)) = Len(s) - 1
      /\ \A j \in 1..(Len(s) - 1) : Without(s, i)[j] = IF j < i THEN s[j] ELSE s[j + 1]
  BY WithoutProperties
<1>2. ASSUME NEW j \in 1..(Len(s) - 1)
      PROVE  \E k \in 1..Len(s) : Without(s, i)[j] = s[k] /\ k = IF j < i THEN j ELSE j + 1
  <2>1. j \in Nat /\ 1 <= j /\ j <= Len(s) - 1 /\ j \in 1..Len(s) /\ j + 1 \in 1..Len(s)
    BY <1>0
  <2>2. CASE j < i
    BY <2>1, <2>2, <1>1
  <2>3. CASE ~(j < i)
    BY <2>1, <2>3, <1>1
  <2> QED
    BY <2>2, <2>3
<1>3. ASSUME NEW j \in 1..(Len(s) - 1), NEW l \in 1..(Len(s) - 1), j < l
      PROVE  Without(s, i)[j] < Without(s, i)[l]
  <2>1. PICK a \in 1..Len(s) : Without(s, i)[j] = s[a] /\ a = IF j < i THEN j ELSE j + 1
    BY <1>2
  <2>2. PICK b \in 1..Len(s) : Without(s, i)[l] = s[b] /\ b = IF l < i THEN l ELSE l + 1
    BY <1>2
  <2>3. a < b
    BY <2>1, <2>2, <1>0, <1>3
  <2> QED
    BY <2>1, <2>2, <2>3 DEF OrderedBelow, Increasing
<1>4. ASSUME NEW j \in 1..(Len(s) - 1) PROVE Without(s, i)[j] < n
  BY <1>2, <1>4 DEF OrderedBelow
<1> QED
  BY <1>1, <1>3, <1>4 DEF OrderedBelow, Increasing

\* A new greatest member keeps the order.
LEMMA AppendIncreasing ==
    ASSUME NEW s \in Seq(Nat), NEW n \in Nat, OrderedBelow(s, n)
    PROVE  OrderedBelow(Append(s, n), n + 1)
  BY AppendProperties, ElementOfSeq DEF OrderedBelow, Increasing

-----------------------------------------------------------------------------
(* A stream of which n requests were reported, whose pipe holds p, that wrote *)
(* o and numbered a responses, and the three things that can happen to it.    *)

\* Each frame of p may still take a response number: there are enough of them.
StreamOK(n, p, o, a) ==
    /\ n \in Nat /\ p \in Seq(Nat) /\ o \in Seq(Nat) /\ a \in Nat
    /\ OrderedBelow(o \o p, n)
    /\ NumberedFrom(p, a)
    /\ a + Len(p) <= n

LEMMA StreamStarts == StreamOK(0, <<>>, <<>>, 0)
  BY EmptySeq DEF StreamOK, OrderedBelow, Increasing, NumberedFrom

\* A request is reported and its frame, if it has one, enters the pipe.
LEMMA StreamAccepts ==
    ASSUME NEW n, NEW p, NEW o, NEW a, NEW q, StreamOK(n, p, o, a), q \in {p, Append(p, n)}
    PROVE  StreamOK(n + 1, q, o, a)
<1> USE DEF StreamOK
<1>1. CASE q = p
  <2>1. o \o p \in Seq(Nat)
    BY ConcatProperties
  <2>2. OrderedBelow(o \o p, n + 1)
    BY <2>1, ElementOfSeq DEF OrderedBelow
  <2> QED
    BY <1>1, <2>2
<1>2. CASE q = Append(p, n)
  <2>1. o \o p \in Seq(Nat) /\ o \o q = Append(o \o p, n)
    BY <1>2, AppendConcat, ConcatProperties
  <2>2. OrderedBelow(o \o q, n + 1)
    BY <2>1, AppendIncreasing
  <2>3. q \in Seq(Nat) /\ Len(q) = Len(p) + 1 /\ q[Len(p) + 1] = n
        /\ \A i \in 1..Len(p) : q[i] = p[i]
    BY <1>2, AppendProperties
  <2>4. ASSUME NEW i \in 1..Len(q) PROVE a + (i - 1) <= q[i]
    <3>1. Len(p) \in Nat /\ i \in Int
      BY <2>3, LenProperties
    <3>2. CASE i \in 1..Len(p)
      BY <2>3, <3>2 DEF NumberedFrom
    <3>3. CASE i = Len(p) + 1
      BY <2>3, <3>1, <3>3
    <3> QED
      BY <2>3, <3>1, <3>2, <3>3
  <2> QED
    BY <2>2, <2>3, <2>4 DEF NumberedFrom
<1> QED
  BY <1>1, <1>2

\* A frame is lost from the pipe.
LEMMA StreamLoses ==
    ASSUME NEW n, NEW p, NEW o, NEW a, NEW i \in 1..Len(p), StreamOK(n, p, o, a)
    PROVE  StreamOK(n, Without(p, i), o, a)
<1> DEFINE q == Without(p, i)
<1> USE DEF StreamOK
<1>1. q \in Seq(Nat) /\ Len(q) = Len(p) - 1
      /\ \A j \in 1..(Len(p) - 1) : q[j] = IF j < i THEN p[j] ELSE p[j + 1]
  BY WithoutProperties
<1>2. o \o p \in Seq(Nat) /\ Len(o) + i \in 1..Len(o \o p) /\ o \o q = Without(o \o p, Len(o) + i)
  BY ConcatWithout, ConcatProperties
<1>3. OrderedBelow(o \o q, n)
  BY <1>2, WithoutIncreasing
<1> HIDE DEF q
<1>4. ASSUME NEW j \in 1..Len(q) PROVE a + (j - 1) <= q[j]
  <2>1. j \in Nat /\ i \in Nat /\ j \in 1..Len(p) /\ j + 1 \in 1..Len(p)
    BY <1>1
  <2>2. a + (j - 1) <= p[j] /\ a + j <= p[j + 1]
    BY <2>1 DEF NumberedFrom
  <2>3. p[j] \in Nat /\ p[j + 1] \in Nat
    BY <2>1, ElementOfSeq
  <2>4. q[j] = IF j < i THEN p[j] ELSE p[j + 1]
    BY <1>1
  <2>5. CASE j < i
    BY <2>2, <2>4, <2>5
  <2>6. CASE ~(j < i)
    BY <2>1, <2>2, <2>3, <2>4, <2>6
  <2> QED
    BY <2>5, <2>6
<1>5. StreamOK(n, q, o, a)
  BY <1>1, <1>3, <1>4 DEF NumberedFrom
<1> QED
  BY <1>5 DEF q

\* The oldest frame leaves, written or lost, with or without a response number.
LEMMA StreamLeaves ==
    ASSUME NEW n, NEW p, NEW o, NEW a, NEW w, NEW b, StreamOK(n, p, o, a),
           p # <<>>, w \in {o, Append(o, Head(p))}, b \in {a, a + 1}
    PROVE  StreamOK(n, Tail(p), w, b)
<1> USE DEF StreamOK
<1> DEFINE q == Tail(p)
<1>1. q \in Seq(Nat) /\ Len(q) = Len(p) - 1 /\ Len(p) \in Nat /\ Head(p) \in Nat
      /\ \A j \in 1..(Len(p) - 1) : q[j] = p[j + 1]
  OBVIOUS
<1>2. Append(o, Head(p)) \in Seq(Nat)
  BY <1>1, AppendProperties
<1>3. w \in Seq(Nat)
  BY <1>2
<1>4. OrderedBelow(w \o q, n)
  <2>1. CASE w = Append(o, Head(p))
    <3>1. (<<>> \o Append(o, Head(p))) \o Tail(p) = (<<>> \o o) \o p
      BY SMTT(30), MoveForward, EmptySeq
    <3>2. <<>> \o Append(o, Head(p)) = Append(o, Head(p)) /\ <<>> \o o = o
      BY <1>2, ConcatEmptySeq
    <3>3. w \o q = o \o p
      BY <2>1, <3>1, <3>2
    <3> QED
      BY <3>3
  <2>2. CASE w = o
    <3>1. o \o p \in Seq(Nat) /\ Len(o) + 1 \in 1..Len(o \o p)
          /\ o \o q = Without(o \o p, Len(o) + 1)
      BY ConcatTail, ConcatProperties
    <3> QED
      BY <2>2, <3>1, WithoutIncreasing
  <2> QED
    BY <2>1, <2>2
<1> HIDE DEF q
<1>5. ASSUME NEW j \in 1..Len(q) PROVE b + (j - 1) <= q[j]
  <2>0. j \in 1..(Len(p) - 1)
    BY <1>1
  <2>1. j \in Nat /\ j + 1 \in 1..Len(p) /\ q[j] = p[j + 1]
    BY <2>0, <1>1
  <2>2. a + j <= p[j + 1] /\ p[j + 1] \in Nat
    BY <2>1, ElementOfSeq DEF NumberedFrom
  <2> QED
    BY <2>1, <2>2
<1>6. StreamOK(n, q, w, b)
  BY <1>1, <1>3, <1>4, <1>5 DEF NumberedFrom
<1> QED
  BY <1>6 DEF q

-----------------------------------------------------------------------------
(* The steps of all programs *)

\* The outputs main waits for: simple-transcode has one.
Outputs == IF program = "simple" THEN {1} ELSE Encoders

MainStep == InitializeDecoder \/ StartThreads \/ DecoderInitializes \/ JoinAndReport(Outputs)

DecoderStep ==
    \/ DecoderStart \/ PopPacket \/ PacketsEnd \/ ReceiveFrame \/ ReceiveEnds
    \/ DeliverFrame \/ FinishQueue

SimpleStep ==
    \/ SimpleStart \/ SimpleReadVideo \/ SimpleReadOther \/ SimpleReadEnds
    \/ SimpleReceive \/ SimpleFinish

EncoderStep(e) ==
    \/ EncoderSetup(e) \/ OpenOutput(e) \/ FinishSetup(e) \/ PopFrame(e) \/ FramesEnd(e)
    \/ ConvertFails(e) \/ FrameRefused(e) \/ FlushEnds(e)
    \/ program \notin Filtering /\ SendFrameFails(e)
    \/ \E pts \in Int : SendFrame(e, pts)
    \/ \E numbered \in BOOLEAN, step \in Nat : WritePacket(e, numbered, step)
    \/ \E step \in Nat : PacketsDry(e, step)
    \/ \E stamp \in Int : FlushPacket(e, stamp)

\* The programs that stamp a frame with a count.  The others keep the time at which
\* it is shown, in a time base of 1 / FrameRate; one of them shifts it first.
Counting  == {"tcp-udp", "udp-modified", "rtsp", "udp", "rtp"}
FrameRate == IF program = "simple" THEN 30 ELSE IntRate
Time(f)   == IF program = "simple" THEN SimplePts(f) ELSE f
Shown(f)  == Rescaled(Time(f), FrameRate)

FrameStamp(e) == IF program \in Counting THEN Counted(e) ELSE Shown(Head(taken[e]))
FlushStamp(e) == IF program \in Counting THEN frameCount[e] ELSE CodecStamp(e)

\* The steps of an encoder with the timestamps its program takes.
StampedStep(e) ==
    \/ EncoderSetup(e) \/ OpenOutput(e) \/ FinishSetup(e) \/ PopFrame(e) \/ FramesEnd(e)
    \/ ConvertFails(e) \/ FrameRefused(e) \/ FlushEnds(e)
    \/ program \notin Filtering /\ SendFrameFails(e)
    \/ SendFrame(e, FrameStamp(e))
    \/ \E numbered \in BOOLEAN, step \in Nat : WritePacket(e, numbered, step)
    \/ \E step \in Nat : PacketsDry(e, step)
    \/ FlushPacket(e, FlushStamp(e))

-----------------------------------------------------------------------------
(* Type correctness *)

LEMMA InitType == Init => TypeOK
<1> SUFFICES ASSUME Init PROVE TypeOK
  OBVIOUS
<1> USE TranscoderAssumption
<1>0. <<>> \in Seq(Frames)
  BY EmptySeq
<1>1. ReaderType
  <2>1. requestCount \in 0..MaxPackets
    BY DEF Init
  <2> QED
    BY <1>0, <2>1 DEF Init, ReaderType
<1>2. DecoderType
  <2>1. nextEnc \in Encoders /\ nextEnc \in 1..(NumOutputs + 1)
    BY DEF Init, Encoders
  <2>2. frameQ \in [Encoders -> Seq(Frames)] /\ finished \in [Encoders -> BOOLEAN]
    BY <1>0 DEF Init
  <2>3. firstPts \in 0..MaxPackets /\ fromFlush \in 0..MaxPackets
    BY DEF Init
  <2> QED
    BY <1>0, <2>1, <2>2, <2>3 DEF Init, DecoderType
<1>3. EncoderType
  <2>1. <<>> \in Seq(Frames) /\ <<>> \in Seq(Int) /\ Len(<<>>) = 0
    BY EmptySeq
  <2> QED
    BY <2>1 DEF Init, EncoderType
<1> QED
  BY <1>1, <1>2, <1>3 DEF Init, TypeOK

LEMMA ReaderKeepsType == TypeOK /\ program # "simple" /\ Reader => TypeOK'
<1> SUFFICES ASSUME TypeOK, program # "simple", Reader PROVE TypeOK'
  OBVIOUS
<1> USE TranscoderAssumption
<1>1. UNCHANGED <<decoderVars, frameQ, finished, encoderVars, mainVars>>
  BY DEF Reader, ReaderStart, ReadVideoPacket, ReadOtherPacket, ReadEnds, ReaderFinishes
<1>2. (DecoderType /\ EncoderType)'
  BY <1>1 DEF TypeOK, DecoderType, EncoderType, decoderVars, originVars, encoderVars
<1>3. ReaderType'
  <2> USE DEF TypeOK, ReaderType
  <2>0. program' # "simple"
    BY <1>1 DEF mainVars
  <2>1. CASE ReaderStart \/ ReadEnds \/ ReaderFinishes
    BY <2>0, <2>1 DEF ReaderStart, ReadEnds, ReaderFinishes
  <2>2. CASE ReadVideoPacket
    <3>1. requestCount \in Frames /\ requestCount + 1 \in 0..MaxPackets
      BY <2>2 DEF ReadVideoPacket, Frames
    <3>2. Append(video, requestCount) \in Seq(Frames) /\ Append(packetQ, requestCount) \in Seq(Frames)
      BY <3>1, AppendProperties
    <3> QED
      BY <2>0, <2>2, <3>1, <3>2 DEF ReadVideoPacket
  <2>3. CASE ReadOtherPacket
    BY <2>0, <2>3 DEF ReadOtherPacket
  <2> QED
    BY <2>1, <2>2, <2>3 DEF Reader
<1> QED
  BY <1>1, <1>2, <1>3 DEF TypeOK, mainVars

LEMMA DecoderKeepsType == TypeOK /\ DecoderStep => TypeOK'
<1> SUFFICES ASSUME TypeOK, DecoderStep PROVE TypeOK'
  OBVIOUS
<1> USE TranscoderAssumption
<1>1. UNCHANGED <<readerVars, packetsDone, firstPts, fromFlush, encoderVars, mainVars>>
  BY DEF DecoderStep, DecoderStart, PopPacket, PacketsEnd, ReceiveFrame, ReceiveEnds, DeliverFrame,
         FinishQueue, originVars
<1>2. EncoderType'
  BY <1>1 DEF TypeOK, EncoderType, encoderVars
<1>3. packetQ' \in Seq(Frames) /\ (packetQ = <<>> => packetQ' = <<>>)
  BY DEF TypeOK, ReaderType, DecoderStep, DecoderStart, PopPacket, PacketsEnd, ReceiveFrame,
         ReceiveEnds, DeliverFrame, FinishQueue
<1>4. ReaderType'
  BY <1>1, <1>3 DEF TypeOK, ReaderType, readerVars, mainVars
<1>5. DecoderType'
  <2> USE DEF TypeOK, DecoderType
  <2>1. CASE DecoderStart
    BY <1>1, <2>1 DEF DecoderStart
  <2>2. CASE PopPacket
    <3>1. Head(packetQ) \in Frames
      BY <2>2 DEF PopPacket, ReaderType
    <3>2. Append(decoding, Head(packetQ)) \in Seq(Frames)
      BY <3>1, AppendProperties
    <3> QED
      BY <1>1, <2>2, <3>2 DEF PopPacket
  <2>3. CASE PacketsEnd
    BY <1>1, <2>3 DEF PacketsEnd
  <2>4. CASE ReceiveFrame
    <3>1. Head(decoding) \in Frames /\ Tail(decoding) \in Seq(Frames)
      BY <2>4 DEF ReceiveFrame
    <3> QED
      BY <1>1, <2>4, <3>1 DEF ReceiveFrame, Encoders
  <2>5. CASE ReceiveEnds
    <3>1. decoding' \in Seq(Frames)
      <4>1. decoding' = decoding \/ (decoding # <<>> /\ decoding' = Tail(decoding))
        BY <2>5 DEF ReceiveEnds
      <4>2. decoding # <<>> => Tail(decoding) \in Seq(Frames)
        OBVIOUS
      <4> QED
        BY <4>1, <4>2
    <3> QED
      BY <1>1, <2>5, <3>1 DEF ReceiveEnds, Encoders
  <2>6. CASE DeliverFrame
    <3>1. nextEnc \in Encoders /\ cur \in Frames
      BY <2>6 DEF DeliverFrame
    <3>2. Append(frameQ[nextEnc], cur) \in Seq(Frames)
      BY <3>1, AppendProperties
    <3>3. frameQ' \in [Encoders -> Seq(Frames)]
      BY <2>6, <3>2 DEF DeliverFrame
    <3> QED
      BY <1>1, <2>6, <3>1, <3>3 DEF DeliverFrame, Encoders
  <2>7. CASE FinishQueue
    BY <1>1, <2>7 DEF FinishQueue, Encoders
  <2> QED
    BY <2>1, <2>2, <2>3, <2>4, <2>5, <2>6, <2>7 DEF DecoderStep
<1> QED
  BY <1>1, <1>2, <1>4, <1>5 DEF TypeOK, mainVars

LEMMA FramesConcat ==
    ASSUME NEW s \in Seq(Frames), NEW t \in Seq(Frames)
    PROVE  s \o t \in Seq(Frames) /\ Len(s \o t) = Len(s) + Len(t)
  BY ConcatProperties

LEMMA EncoderKeepsType ==
    ASSUME NEW e \in Encoders, TypeOK, EncoderStep(e)
    PROVE  TypeOK'
<1> USE TranscoderAssumption
<1>1. UNCHANGED <<readerVars, packetQ, packetsDone, decoderVars, finished, mainVars>>
  BY DEF EncoderStep, EncoderSetup, OpenOutput, FinishSetup, FrameRefused, PopFrame, FramesEnd, ConvertFails, SendFrame, SendFrameFails,
         WritePacket, PacketsDry, FlushPacket, FlushEnds
<1>2. ReaderType'
  BY <1>1 DEF TypeOK, ReaderType, readerVars, mainVars
<1>3. frameQ' \in [Encoders -> Seq(Frames)]
  <2>1. CASE PopFrame(e)
    <3>1. Tail(frameQ[e]) \in Seq(Frames)
      BY <2>1 DEF TypeOK, DecoderType, PopFrame
    <3> QED
      BY <2>1, <3>1 DEF TypeOK, DecoderType, PopFrame
  <2>2. CASE ~PopFrame(e)
    BY <2>2 DEF TypeOK, DecoderType, EncoderStep, EncoderSetup, OpenOutput, FinishSetup, FrameRefused, FramesEnd, ConvertFails, SendFrame,
                SendFrameFails, WritePacket, PacketsDry, FlushPacket, FlushEnds
  <2> QED
    BY <2>1, <2>2
<1>4. DecoderType'
  BY <1>1, <1>3 DEF TypeOK, DecoderType, decoderVars, originVars
<1>5. EncoderType'
  <2> USE DEF TypeOK, EncoderType
  <2>0. <<>> \in Seq(Frames) /\ Len(<<>>) = 0
    BY EmptySeq
  <2>9. refused' \in [Encoders -> BOOLEAN]
    BY DEF EncoderStep, EncoderSetup, OpenOutput, FinishSetup, FrameRefused, PopFrame, FramesEnd,
       ConvertFails, SendFrame, SendFrameFails, WritePacket, PacketsDry, FlushPacket, FlushEnds
  <2>1. CASE EncoderSetup(e) \/ OpenOutput(e) \/ FinishSetup(e) \/ FramesEnd(e) \/ FlushEnds(e)
    BY <2>1, <2>9 DEF EncoderSetup, OpenOutput, FinishSetup, FramesEnd, FlushEnds
  <2>6. ASSUME NEW step \in Nat, PacketsDry(e, step) PROVE EncoderType'
    <3>1. frameCount[e] + step \in Nat
      OBVIOUS
    <3>2. frameCount' \in [Encoders -> Nat]
      BY <3>1, <2>6 DEF PacketsDry
    <3>3. epc' = [epc EXCEPT ![e] = "pop"] /\ epc[e] = "receive"
          /\ UNCHANGED <<taken, coding, codingPts, responseId, output, stamps>>
      BY <2>6 DEF PacketsDry
    <3> QED
      BY <2>9, <3>2, <3>3
  <2>7. CASE FrameRefused(e)
    <3>1. frameCount[e] + 1 \in Nat
      OBVIOUS
    <3>2. frameCount' \in [Encoders -> Nat]
      BY <3>1, <2>7 DEF FrameRefused
    <3>3. epc' = [epc EXCEPT ![e] = "pop"] /\ epc[e] = "encode"
          /\ taken' = [taken EXCEPT ![e] = <<>>]
          /\ UNCHANGED <<coding, codingPts, responseId, output, stamps>>
      BY <2>7 DEF FrameRefused
    <3>4. /\ taken' \in [Encoders -> Seq(Frames)]
          /\ \A d \in Encoders : Len(taken'[d]) = IF epc'[d] = "encode" THEN 1 ELSE 0
      <4>1. taken' \in [Encoders -> Seq(Frames)]
        BY <2>0, <3>3
      <4>2. \A d \in Encoders : d # e => taken'[d] = taken[d] /\ epc'[d] = epc[d]
        BY <3>3
      <4>3. taken'[e] = <<>> /\ epc'[e] = "pop"
        BY <3>3
      <4> QED
        BY <2>0, <4>1, <4>2, <4>3
    <3>5. epc' \in [Encoders -> {"setup", "open", "pop", "encode", "receive", "flush", "done", "failed"}]
      BY <3>3
    <3> QED
      BY <2>9, <3>2, <3>3, <3>4, <3>5
  <2>2. CASE PopFrame(e)
    <3>1. <<Head(frameQ[e])>> \in Seq(Frames) /\ Len(<<Head(frameQ[e])>>) = 1
      BY <2>2 DEF PopFrame, DecoderType
    <3> QED
      BY <2>2, <2>9, <3>1 DEF PopFrame
  <2>3. CASE ConvertFails(e) \/ SendFrameFails(e)
    BY <2>0, <2>3, <2>9 DEF ConvertFails, SendFrameFails
  <2>4. ASSUME NEW pts \in Int, SendFrame(e, pts) PROVE EncoderType'
    <3>1. coding[e] \o taken[e] \in Seq(Frames) /\ Len(coding[e] \o taken[e]) = Len(coding[e]) + 1
      <4>1. coding[e] \in Seq(Frames) /\ taken[e] \in Seq(Frames) /\ Len(taken[e]) = 1
        BY <2>4 DEF SendFrame
      <4>2. coding[e] \o taken[e] \in Seq(Frames)
            /\ Len(coding[e] \o taken[e]) = Len(coding[e]) + Len(taken[e])
        BY <4>1, FramesConcat
      <4> QED
        BY <4>1, <4>2
    <3>2. Append(codingPts[e], pts) \in Seq(Int)
          /\ Len(Append(codingPts[e], pts)) = Len(codingPts[e]) + 1
      BY AppendProperties
    <3> QED
      BY <2>0, <2>4, <2>9, <3>1, <3>2 DEF SendFrame
  <2>5. ASSUME NEW n \in BOOLEAN, NEW step \in Nat, NEW k \in Int,
               WritePacket(e, n, step) \/ FlushPacket(e, k)
        PROVE  EncoderType'
    <3>1. /\ coding[e] # <<>>
          /\ coding' = [coding EXCEPT ![e] = Tail(@)]
          /\ codingPts' = [codingPts EXCEPT ![e] = Tail(@)]
          /\ UNCHANGED taken
      BY <2>5 DEF WritePacket, FlushPacket
    <3>2. Head(coding[e]) \in Frames /\ Tail(coding[e]) \in Seq(Frames)
          /\ Len(Tail(coding[e])) = Len(coding[e]) - 1
      BY <3>1
    <3>3. codingPts[e] # <<>> /\ Head(codingPts[e]) \in Int /\ Tail(codingPts[e]) \in Seq(Int)
          /\ Len(Tail(codingPts[e])) = Len(codingPts[e]) - 1
      BY <3>1
    <3>4. coding' \in [Encoders -> Seq(Frames)] /\ codingPts' \in [Encoders -> Seq(Int)]
          /\ \A d \in Encoders : Len(codingPts'[d]) = Len(coding'[d])
      BY <3>1, <3>2, <3>3
    <3>5. /\ Append(output[e], Head(coding[e])) \in Seq(Frames)
          /\ Append(stamps[e], Head(codingPts[e])) \in Seq(Int)
          /\ Append(stamps[e], k) \in Seq(Int)
      BY <3>2, <3>3, AppendProperties
    <3>6. output' \in [Encoders -> Seq(Frames)] /\ stamps' \in [Encoders -> Seq(Int)]
      <4>1. CASE WritePacket(e, n, step)
        BY ZenonT(40), <4>1, <3>5 DEF WritePacket
      <4>2. CASE FlushPacket(e, k)
        BY ZenonT(40), <4>2, <3>5 DEF FlushPacket
      <4> QED
        BY <2>5, <4>1, <4>2
    <3>7. frameCount' \in [Encoders -> Nat] /\ responseId' \in [Encoders -> Nat]
      <4>1. frameCount[e] + step \in Nat /\ responseId[e] + 1 \in Nat
        OBVIOUS
      <4>2. CASE WritePacket(e, n, step)
        BY <4>1, <4>2 DEF WritePacket
      <4>3. CASE FlushPacket(e, k)
        BY <4>3 DEF FlushPacket
      <4> QED
        BY <2>5, <4>2, <4>3
    <3>8. epc' \in [Encoders -> {"setup", "open", "pop", "encode", "receive", "flush", "done", "failed"}]
          /\ \A d \in Encoders : (epc'[d] = "encode") <=> (epc[d] = "encode")
      BY <2>5 DEF WritePacket, FlushPacket
    <3> QED
      BY <2>9, <3>1, <3>4, <3>6, <3>7, <3>8
  <2>8. 0 \in Nat /\ 0 \in Int /\ TRUE \in BOOLEAN
    OBVIOUS
  <2> QED
    BY <2>1, <2>2, <2>3, <2>4, <2>5, <2>6, <2>7, <2>8 DEF EncoderStep
<1> QED
  BY <1>1, <1>2, <1>4, <1>5 DEF TypeOK, mainVars

LEMMA MainKeepsType == TypeOK /\ MainStep => TypeOK'
<1> SUFFICES ASSUME TypeOK, MainStep PROVE TypeOK'
  OBVIOUS
<1>1. UNCHANGED <<program, requestCount, video, packetQ, packetsDone, flushing, decoding, cur, nextEnc,
                  firstPts, fromFlush, frameQ, encoderVars>>
  BY DEF MainStep, InitializeDecoder, StartThreads, DecoderInitializes, JoinAndReport, readerVars,
         decoderVars, originVars
<1>2. /\ rpc' \in {rpc, "done"} /\ dpc' \in {dpc, "done"}
      /\ finished' \in {finished, [e \in Encoders |-> TRUE]}
      /\ mpc' \in {"join", "success", "errors", "exit"} /\ initialized' \in {initialized, TRUE}
  BY DEF MainStep, InitializeDecoder, StartThreads, DecoderInitializes, JoinAndReport, readerVars,
         decoderVars
<1>3. finished' \in [Encoders -> BOOLEAN]
  BY <1>2 DEF TypeOK, DecoderType
<1>4. ReaderType' /\ EncoderType'
  BY <1>1, <1>2 DEF TypeOK, ReaderType, EncoderType, encoderVars
<1>5. DecoderType'
  BY <1>1, <1>2, <1>3 DEF TypeOK, DecoderType
<1> QED
  BY <1>1, <1>2, <1>4, <1>5 DEF TypeOK

LEMMA SimpleKeepsType == TypeOK /\ SimpleStep => TypeOK'
<1> SUFFICES ASSUME TypeOK, SimpleStep PROVE TypeOK'
  OBVIOUS
<1> USE TranscoderAssumption
<1>1. UNCHANGED <<packetQ, packetsDone, cur, nextEnc, encoderVars, mainVars>> /\ program' = program
  BY DEF mainVars, SimpleStep, SimpleStart, SimpleReadVideo, SimpleReadOther, SimpleReadEnds, SimpleReceive,
         SimpleFinish, readerVars, decoderVars
<1>2. EncoderType'
  BY <1>1 DEF TypeOK, EncoderType, encoderVars
<1>3. ReaderType' /\ DecoderType'
  <2> USE DEF TypeOK, ReaderType, DecoderType
  <2>0. 1 \in Encoders
    BY DEF Encoders
  <2>9. firstPts' \in 0..MaxPackets /\ fromFlush' \in 0..MaxPackets
    <3>1. decoding # <<>> => Head(decoding) \in 0..MaxPackets
      BY DEF Frames
    <3> QED
      BY <3>1 DEF SimpleStep, SimpleStart, SimpleReadVideo, SimpleReadOther, SimpleReadEnds,
         SimpleReceive, SimpleFinish, decoderVars, originVars
  <2>1. CASE SimpleStart \/ SimpleReadEnds
    BY <1>1, <2>1, <2>9 DEF SimpleStart, SimpleReadEnds, readerVars
  <2>2. CASE SimpleReadVideo
    <3>1. requestCount \in Frames /\ requestCount + 1 \in 0..MaxPackets
      BY <2>2 DEF SimpleReadVideo, Frames
    <3>2. Append(video, requestCount) \in Seq(Frames) /\ Append(decoding, requestCount) \in Seq(Frames)
      BY <3>1, AppendProperties
    <3>3. video' \in Seq(Frames) /\ decoding' \in Seq(Frames) /\ flushing' \in BOOLEAN
      BY <2>2, <3>2 DEF SimpleReadVideo
    <3> QED
      BY <1>1, <2>2, <2>9, <3>1, <3>3 DEF SimpleReadVideo
  <2>3. CASE SimpleReadOther
    BY <1>1, <2>3, <2>9 DEF SimpleReadOther, decoderVars
  <2>4. CASE SimpleReceive
    <3>1. Head(decoding) \in Frames /\ Tail(decoding) \in Seq(Frames)
      BY <2>4 DEF SimpleReceive
    <3>2. Append(frameQ[1], Head(decoding)) \in Seq(Frames)
      BY <2>0, <3>1, AppendProperties
    <3>3. frameQ' \in [Encoders -> Seq(Frames)]
      BY <2>0, <2>4, <3>2 DEF SimpleReceive
    <3> QED
      BY <1>1, <2>4, <2>9, <3>1, <3>3 DEF SimpleReceive, readerVars
  <2>5. CASE SimpleFinish
    BY <1>1, <2>5, <2>9 DEF SimpleFinish, readerVars
  <2> QED
    BY <2>1, <2>2, <2>3, <2>4, <2>5 DEF SimpleStep
<1> QED
  BY <1>1, <1>2, <1>3 DEF TypeOK, mainVars

\* Timestamps are numbers, before the start of the input too.
LEMMA IntRateType == IntRate \in Nat
<1>1. \A m \in Nat, n \in Nat \ {0} : m \div n \in Nat
  OBVIOUS
<1> QED
  BY <1>1, TranscoderAssumption DEF IntRate

LEMMA RescaledType == ASSUME NEW f \in Int, NEW fps \in Nat PROVE Rescaled(f, fps) \in Int
<1>1. 2 * f * RateDen * fps + RateNum \in Int
  BY TranscoderAssumption
<1>2. 2 * RateNum \in Nat \ {0}
  BY TranscoderAssumption
<1>3. \A m \in Int, n \in Nat \ {0} : m \div n \in Int
  OBVIOUS
<1> QED
  BY <1>1, <1>2, <1>3 DEF Rescaled

LEMMA ShownType == ASSUME TypeOK, NEW f \in Nat PROVE Time(f) \in Int /\ Shown(f) \in Int
<1>1. firstPts \in Nat
  BY TranscoderAssumption DEF TypeOK, DecoderType
<1>2. Time(f) \in Int
  BY <1>1 DEF Time, SimplePts
<1>3. FrameRate \in Nat
  BY IntRateType DEF FrameRate
<1> QED
  BY <1>2, <1>3, RescaledType DEF Shown

LEMMA StampTypes ==
    ASSUME TypeOK, NEW e \in Encoders
    PROVE  /\ frameCount[e] \in Nat
           /\ coding[e] # <<>> => CodecStamp(e) \in Int
           /\ epc[e] = "encode" => Head(taken[e]) \in Nat
<1>1. frameCount[e] \in Nat
  BY DEF TypeOK, EncoderType
<1>2. ASSUME coding[e] # <<>> PROVE CodecStamp(e) \in Int
  <2>1. codingPts[e] \in Seq(Int) /\ coding[e] \in Seq(Frames) /\ Len(codingPts[e]) = Len(coding[e])
    BY DEF TypeOK, EncoderType
  <2>2. codingPts[e] # <<>>
    BY <1>2, <2>1
  <2> QED
    BY <2>1, <2>2 DEF CodecStamp
<1>3. ASSUME epc[e] = "encode" PROVE Head(taken[e]) \in Nat
  <2>1. taken[e] \in Seq(Frames) /\ Len(taken[e]) = 1
    BY <1>3 DEF TypeOK, EncoderType
  <2>2. taken[e] # <<>>
    BY <2>1, EmptySeq
  <2>3. Head(taken[e]) \in Frames
    BY <2>1, <2>2
  <2> QED
    BY <2>3, TranscoderAssumption DEF Frames
<1> QED
  BY <1>1, <1>2, <1>3

\* What main may do in each program.
LEMMA MainStarts ==
    Main => \/ InitializeDecoder
            \/ program \in LateInit /\ StartThreads
            \/ JoinAndReport(Outputs)
  BY DEF Main, Outputs, LateInit, TcpUdpMain, TcpModMain, UdpModMain, RtspMain, TcpMain, UdpMain, RtpMain,
         MultiTcpMain, MultiSrtMain, GpuTcpMain, GpuSrtMain, SimpleMain, TcpUdpInitializes,
         TcpModInitializes, UdpModInitializes, RtspInitializes, MultiTcpInitializes,
         MultiSrtInitializes, GpuTcpInitializes, GpuSrtInitializes, SimpleInitializes

\* The decoder is made in its thread only where main leaves it to it.
LEMMA SourceStarts ==
    Source => \/ program \in LateInit /\ DecoderInitializes
              \/ program # "simple" /\ (Reader \/ DecoderStep)
              \/ program = "simple" /\ (SimpleStep \/ ReceiveEnds)
<1>1. program \in LateInit /\ (TcpInitializes \/ UdpInitializes \/ RtpInitializes)
        => program \in LateInit /\ DecoderInitializes
  BY DEF TcpInitializes, UdpInitializes, RtpInitializes
<1>2. TcpUdpReader \/ TcpModReader \/ UdpModReader \/ RtspReader \/ TcpReader \/ UdpReader \/ RtpReader
      \/ MultiTcpReader \/ MultiSrtReader \/ GpuTcpReader \/ GpuSrtReader => Reader
  BY DEF TcpUdpReader, TcpModReader, UdpModReader, RtspReader, TcpReader, UdpReader, RtpReader,
         MultiTcpReader, MultiSrtReader, GpuTcpReader, GpuSrtReader
<1>3. TcpUdpDecoder \/ TcpModDecoder \/ UdpModDecoder \/ RtspDecoder \/ TcpDecoder \/ UdpDecoder
      \/ RtpDecoder => DecoderStep
  BY DEF TcpUdpDecoder, TcpModDecoder, UdpModDecoder, RtspDecoder, TcpDecoder, UdpDecoder, RtpDecoder,
         TcpUdpPackets, TcpModPackets, UdpModPackets, RtspPackets, TcpPackets, UdpPackets, RtpPackets,
         DecodeTurn, DecoderStep
<1>4. MultiTcpDecoder \/ MultiSrtDecoder \/ GpuTcpDecoder \/ GpuSrtDecoder => DecoderStep
  BY DEF MultiTcpDecoder, MultiSrtDecoder, GpuTcpDecoder, GpuSrtDecoder, MultiTcpPackets,
         MultiSrtPackets, GpuTcpPackets, GpuSrtPackets, DecodeTurn, DecoderStep
<1>5. SimpleDecoder => SimpleStep \/ ReceiveEnds
  BY DEF SimpleDecoder, SimpleStep
<1> QED
  BY <1>1, <1>2, <1>3, <1>4, <1>5 DEF Source, LateInit

\* Whatever program runs, its steps are among the shared ones.
LEMMA MainIsShared == Main => MainStep
  BY MainStarts DEF MainStep

LEMMA SourceIsShared ==
    Source => \/ MainStep \/ DecoderStep
              \/ program # "simple" /\ Reader
              \/ program = "simple" /\ SimpleStep
  BY SourceStarts DEF MainStep, DecoderStep

LEMMA TurnIsStamped ==
    ASSUME NEW e \in Encoders, NEW n \in BOOLEAN, NEW step \in Nat
    PROVE  /\ program \in Counting /\ EncodeTurn(e, Counted(e), n, step) => StampedStep(e)
           /\ program \notin Counting \cup Filtering
                /\ EncodeTurn(e, Shown(Head(taken[e])), n, step) => StampedStep(e)
           /\ program \notin Counting /\ SendFrame(e, Shown(Head(taken[e]))) => StampedStep(e)
           /\ PopFrame(e) \/ FramesEnd(e) \/ EncoderSetup(e) \/ OpenOutput(e) \/ FinishSetup(e)
                => StampedStep(e)
           /\ program \in Counting /\ FlushPacket(e, frameCount[e]) => StampedStep(e)
           /\ program \notin Counting /\ FlushPacket(e, CodecStamp(e)) => StampedStep(e)
           /\ FlushEnds(e) => StampedStep(e)
<1>1. program \in Counting /\ SendFrame(e, Counted(e)) => StampedStep(e)
  BY DEF FrameStamp, StampedStep
<1>2. program \notin Counting /\ SendFrame(e, Shown(Head(taken[e]))) => StampedStep(e)
  BY DEF FrameStamp, StampedStep
<1>3. \/ WritePacket(e, n, step) \/ PacketsDry(e, step) \/ ConvertFails(e)
      \/ program \notin Filtering /\ SendFrameFails(e)
      => StampedStep(e)
  BY DEF StampedStep
<1>4. \/ program \in Counting /\ FlushPacket(e, frameCount[e])
      \/ program \notin Counting /\ FlushPacket(e, CodecStamp(e))
      => StampedStep(e)
  BY DEF FlushStamp, StampedStep
<1>5. PopFrame(e) \/ FramesEnd(e) \/ EncoderSetup(e) \/ OpenOutput(e) \/ FinishSetup(e) \/ FlushEnds(e)
      => StampedStep(e)
  BY DEF StampedStep
<1>6. program \in Counting => program \notin Filtering
  BY DEF Counting, Filtering
<1> QED
  BY <1>1, <1>2, <1>3, <1>4, <1>5, <1>6 DEF EncodeTurn

\* Each program counts or rescales as the list of the counting ones says.
LEMMA EncoderIsStamped ==
    ASSUME NEW e \in Encoders, Encoder(e)
    PROVE  StampedStep(e)
<1>0. 1 \in Nat /\ 2 \in Nat /\ TRUE \in BOOLEAN /\ FALSE \in BOOLEAN
  OBVIOUS
<1>1. ASSUME program \in Counting, TcpUdpEncoder(e) \/ UdpModEncoder(e) \/ RtspEncoder(e)
      PROVE  StampedStep(e)
  BY <1>0, <1>1, TurnIsStamped DEF TcpUdpEncoder, TcpUdpSetup, TcpUdpEncodes, TcpUdpFrames, TcpUdpFlushes,
     UdpModEncoder, UdpModSetup, UdpModEncodes, UdpModFrames, UdpModFlushes,
     RtspEncoder, RtspSetup, RtspEncodes, RtspFrames, RtspFlushes
<1>2. ASSUME program \in Counting, UdpEncoder(e) \/ RtpEncoder(e) PROVE StampedStep(e)
  BY <1>0, <1>2, TurnIsStamped DEF UdpEncoder, UdpOpens, UdpSetup, UdpEncodes, UdpFrames, UdpFlushes,
     RtpEncoder, RtpOpens, RtpSetup, RtpEncodes, RtpFrames, RtpFlushes
<1>3. ASSUME program \notin Counting \cup Filtering,
             Shown(Head(taken[e])) = Rescaled(Head(taken[e]), IntRate),
             TcpModEncoder(e) \/ MultiTcpEncoder(e) \/ MultiSrtEncoder(e)
      PROVE  StampedStep(e)
  BY <1>0, <1>3, TurnIsStamped DEF TcpModEncoder, TcpModSetup, TcpModEncodes, TcpModFrames, TcpModFlushes,
     MultiTcpEncoder, MultiTcpSetup, MultiTcpEncodes, MultiTcpFrames, MultiTcpFlushes,
     MultiSrtEncoder, MultiSrtSetup, MultiSrtEncodes, MultiSrtFrames, MultiSrtFlushes
<1>4. ASSUME program \notin Counting \cup Filtering,
             Shown(Head(taken[e])) = Rescaled(Head(taken[e]), IntRate), TcpEncoder(e)
      PROVE  StampedStep(e)
  BY <1>0, <1>4, TurnIsStamped DEF TcpEncoder, TcpOpens, TcpSetup, TcpEncodes, TcpFrames, TcpFlushes
<1>5. ASSUME program \notin Counting, Shown(Head(taken[e])) = Rescaled(Head(taken[e]), IntRate),
             GpuTcpEncoder(e) \/ GpuSrtEncoder(e)
      PROVE  StampedStep(e)
  <2>1. FrameRefused(e) \/ ConvertFails(e) \/ WritePacket(e, FALSE, 1) \/ PacketsDry(e, 1)
        => StampedStep(e)
    BY <1>0 DEF StampedStep
  <2> QED
    BY <1>0, <1>5, <2>1, TurnIsStamped DEF GpuTcpEncoder, GpuTcpOpens, GpuTcpFilter, GpuTcpEncodes,
       GpuTcpFrames, GpuTcpFlushes, GpuSrtEncoder, GpuSrtOpens, GpuSrtFilter, GpuSrtEncodes, GpuSrtFrames,
       GpuSrtFlushes
<1>6. ASSUME program \notin Counting \cup Filtering, e = 1, SimpleEncoder,
             Shown(Head(taken[1])) = Rescaled(SimplePts(Head(taken[1])), 30)
      PROVE  StampedStep(e)
  BY <1>0, <1>6, TurnIsStamped DEF SimpleEncoder, SimpleSetup, SimpleEncodes, SimpleFrames, SimpleFlushes
<1>7. /\ program # "simple" => \A f : Shown(f) = Rescaled(f, IntRate)
      /\ program = "simple" => \A f : Shown(f) = Rescaled(SimplePts(f), 30)
  BY DEF Shown, Time, FrameRate
<1> QED
  BY <1>1, <1>2, <1>3, <1>4, <1>5, <1>6, <1>7 DEF Encoder, Filtering, Counting

LEMMA StampedIsShared ==
    ASSUME TypeOK, NEW e \in Encoders, StampedStep(e)
    PROVE  EncoderStep(e)
<1>1. ASSUME SendFrame(e, FrameStamp(e)) PROVE EncoderStep(e)
  <2>1. epc[e] = "encode"
    BY <1>1 DEF SendFrame
  <2>2. FrameStamp(e) \in Int
    BY <2>1, StampTypes, ShownType DEF FrameStamp, Counted
  <2> QED
    BY <1>1, <2>2 DEF EncoderStep
<1>2. ASSUME FlushPacket(e, FlushStamp(e)) PROVE EncoderStep(e)
  <2>1. coding[e] # <<>>
    BY <1>2 DEF FlushPacket
  <2>2. FlushStamp(e) \in Int
    BY <2>1, StampTypes DEF FlushStamp
  <2> QED
    BY <1>2, <2>2 DEF EncoderStep
<1>3. ASSUME ~SendFrame(e, FrameStamp(e)), ~FlushPacket(e, FlushStamp(e)) PROVE EncoderStep(e)
  BY <1>3 DEF StampedStep, EncoderStep
<1> QED
  BY <1>1, <1>2, <1>3

\* A step of the specification is a shared step or leaves everything as it is.
LEMMA StepIsShared ==
    ASSUME TypeOK, [Next]_vars
    PROVE  \/ MainStep \/ DecoderStep
           \/ program # "simple" /\ Reader
           \/ program = "simple" /\ SimpleStep
           \/ \E e \in Encoders : EncoderStep(e) /\ StampedStep(e)
           \/ UNCHANGED vars
  BY MainIsShared, SourceIsShared, EncoderIsStamped, StampedIsShared DEF Next, Terminated

\* The program that runs is chosen once.
LEMMA ProgramStays == ASSUME TypeOK, [Next]_vars PROVE program' = program
  BY StepIsShared DEF MainStep, InitializeDecoder, StartThreads, DecoderInitializes, JoinAndReport,
     Reader, ReaderStart, ReadVideoPacket, ReadOtherPacket, ReadEnds, ReaderFinishes, vars,
     DecoderStep, DecoderStart, PopPacket, PacketsEnd, ReceiveFrame, ReceiveEnds, DeliverFrame,
     FinishQueue, SimpleStep, SimpleStart, SimpleReadVideo, SimpleReadOther, SimpleReadEnds,
     SimpleReceive, SimpleFinish, EncoderStep, EncoderSetup, OpenOutput, FinishSetup, FrameRefused,
     PopFrame, FramesEnd, ConvertFails, SendFrame, SendFrameFails, WritePacket, PacketsDry,
     FlushPacket, FlushEnds, mainVars

LEMMA StepType == TypeOK /\ [Next]_vars => TypeOK'
<1>1. TypeOK /\ UNCHANGED vars => TypeOK'
  BY DEF TypeOK, ReaderType, DecoderType, EncoderType, vars, readerVars, decoderVars, originVars,
         encoderVars, mainVars
<1> QED
  BY <1>1, StepIsShared, ReaderKeepsType, DecoderKeepsType, SimpleKeepsType, EncoderKeepsType,
     MainKeepsType

\* Every variable keeps its type, a popped frame is held exactly while it waits
\* to be encoded, and the loops over the outputs stay inside the outputs.
THEOREM TranscoderType == Spec => []TypeOK
  BY InitType, StepType, PTL DEF Spec

-----------------------------------------------------------------------------
(* Each output is a lossy stream *)

\* What each stage of the pipe holds.
LEMMA StageTypes ==
    ASSUME TypeOK, NEW e \in Encoders
    PROVE  /\ coding[e] \in Seq(Frames) /\ taken[e] \in Seq(Frames) /\ frameQ[e] \in Seq(Frames)
           /\ Undelivered(e) \in Seq(Frames) /\ decoding \in Seq(Frames) /\ packetQ \in Seq(Frames)
           /\ output[e] \in Seq(Frames)
<1>1. Undelivered(e) \in Seq(Frames)
  BY DEF TypeOK, DecoderType, Undelivered
<1> QED
  BY <1>1 DEF TypeOK, ReaderType, DecoderType, EncoderType

\* The pipe with its front stages put together.
Front2(e) == coding[e] \o taken[e]
Front3(e) == Front2(e) \o frameQ[e]
Front4(e) == Front3(e) \o Undelivered(e)
Front5(e) == Front4(e) \o decoding

LEMMA FrontTypes ==
    ASSUME TypeOK, NEW e \in Encoders
    PROVE  /\ Front2(e) \in Seq(Frames) /\ Front3(e) \in Seq(Frames) /\ Front4(e) \in Seq(Frames)
           /\ Front5(e) \in Seq(Frames) /\ Pipe(e) \in Seq(Frames)
           /\ Pipe(e) = Front5(e) \o packetQ
<1>1. Front2(e) \in Seq(Frames)
  BY StageTypes, ConcatProperties DEF Front2
<1>2. Front3(e) \in Seq(Frames)
  BY <1>1, StageTypes, ConcatProperties DEF Front3
<1>3. Front4(e) \in Seq(Frames)
  BY <1>2, StageTypes, ConcatProperties DEF Front4
<1>4. Front5(e) \in Seq(Frames)
  BY <1>3, StageTypes, ConcatProperties DEF Front5
<1>5. Pipe(e) = Front5(e) \o packetQ
  BY DEF Pipe, Front2, Front3, Front4, Front5
<1> QED
  BY <1>1, <1>2, <1>3, <1>4, <1>5, StageTypes, ConcatProperties

\* A frame lost from one of the front stages is lost from the pipe.
Loses(new, old) == \E i \in 1..Len(old) : new = Without(old, i)

LEMMA LosesBehind ==
    ASSUME NEW s \in Seq(Frames), NEW t \in Seq(Frames), NEW n, Loses(n, s)
    PROVE  Loses(n \o t, s \o t)
<1>1. PICK i \in 1..Len(s) : n = Without(s, i)
  BY DEF Loses
<1>2. i \in 1..Len(s \o t) /\ Without(s, i) \o t = Without(s \o t, i)
  BY WithoutConcat
<1> QED
  BY <1>1, <1>2 DEF Loses

LEMMA LosesHead ==
    ASSUME NEW s \in Seq(Frames), NEW t \in Seq(Frames), t # <<>>
    PROVE  Loses(s \o Tail(t), s \o t)
  BY ConcatTail DEF Loses

\* A frame that goes from the head of stage u to the end of stage t stays where
\* it is in the pipe.
Moves(s, t, u) == (s \o Append(t, Head(u))) \o Tail(u) = (s \o t) \o u

LEMMA FrameMoves ==
    ASSUME NEW s \in Seq(Frames), NEW t \in Seq(Frames), NEW u \in Seq(Frames), u # <<>>
    PROVE  Moves(s, t, u)
  BY MoveForward DEF Moves

\* The frame that leaves the first stage leaves the pipe.
LeavesFirst(s, t) == s \o t # <<>> /\ Head(s \o t) = Head(s) /\ Tail(s \o t) = Tail(s) \o t

LEMMA FrameLeaves ==
    ASSUME NEW s \in Seq(Frames), NEW t \in Seq(Frames), s # <<>>
    PROVE  LeavesFirst(s, t)
  BY TailConcat DEF LeavesFirst

\* A frame on its way to output e may get lost.
MayLose(e) == Faults # {} \/ e \notin Outputs

\* What a step may do to the pipe of output e: nothing, take a packet in, lose a
\* frame, or let the oldest one leave.
Stays(e) == UNCHANGED <<requestCount, video, Pipe(e), output[e], responseId[e]>>

Accepts(e) ==
    /\ requestCount' = requestCount + 1
    /\ \/ Pipe(e)' = Append(Pipe(e), requestCount) /\ video' = Append(video, requestCount)
       \/ Pipe(e)' = Pipe(e) /\ (video' = video \/ MayLose(e))
    /\ UNCHANGED <<output[e], responseId[e]>>

LosesOne(e) ==
    /\ MayLose(e)
    /\ Loses(Pipe(e)', Pipe(e))
    /\ UNCHANGED <<requestCount, output[e], responseId[e]>>

Leaves(e) ==
    /\ Pipe(e) # <<>>
    /\ Pipe(e)' = Tail(Pipe(e))
    /\ \/ /\ output'[e] = Append(output[e], Head(Pipe(e)))
          /\ responseId'[e] \in {responseId[e], responseId[e] + 1}
          /\ UNCHANGED video
       \/ MayLose(e) /\ output'[e] = output[e] /\ responseId'[e] = responseId[e] + 1
    /\ UNCHANGED requestCount

Flows(e) == Stays(e) \/ Accepts(e) \/ LosesOne(e) \/ Leaves(e)

\* Each of these is a step of the output's stream.
LEMMA FlowIsStep ==
    ASSUME NEW e \in Encoders, Flows(e)
    PROVE  [Stream(e)!Next]_(Stream(e)!vars)
<1>1. CASE Stays(e)
  BY <1>1 DEF Stays, Stream!vars
<1>2. CASE Accepts(e)
  BY <1>2 DEF Accepts, Stream!Next, Stream!Accept
<1>3. CASE LosesOne(e)
  <2>1. PICK i \in 1..Len(Pipe(e)) : Pipe(e)' = Stream(e)!Without(Pipe(e), i)
    BY <1>3 DEF LosesOne, Loses, Stream!Without, Without
  <2>2. Stream(e)!Lose
    BY <1>3, <2>1 DEF LosesOne, Stream!Lose
  <2> QED
    BY <2>2 DEF Stream!Next
<1>4. CASE Leaves(e)
  BY <1>4 DEF Leaves, Stream!Next, Stream!Leave
<1> QED
  BY <1>1, <1>2, <1>3, <1>4 DEF Flows

LEMMA ReaderFlows ==
    ASSUME TypeOK, Reader, NEW e \in Encoders
    PROVE  Flows(e)
<1>1. UNCHANGED <<coding, taken, frameQ, decoding, output, responseId>> /\ Undelivered(e)' = Undelivered(e)
  BY DEF Reader, ReaderStart, ReadVideoPacket, ReadOtherPacket, ReadEnds, ReaderFinishes,
         decoderVars, encoderVars, Undelivered
<1>2. Front5(e)' = Front5(e)
  BY <1>1 DEF Front2, Front3, Front4, Front5
<1>3. CASE ReaderStart \/ ReadEnds \/ ReaderFinishes
  <2>1. UNCHANGED <<packetQ, requestCount, video>>
    BY <1>3 DEF ReaderStart, ReadEnds, ReaderFinishes
  <2> QED
    BY <2>1, <1>1 DEF Flows, Stays, Pipe
<1>4. CASE ReadVideoPacket \/ ReadOtherPacket
  <2>1. requestCount' = requestCount + 1
    BY <1>4 DEF ReadVideoPacket, ReadOtherPacket
  <2>2. \/ Pipe(e)' = Append(Pipe(e), requestCount) /\ video' = Append(video, requestCount)
        \/ Pipe(e)' = Pipe(e) /\ video' = video
    <3>1. CASE ReadVideoPacket
      <4>1. requestCount \in Frames
        BY <3>1, TranscoderAssumption DEF ReadVideoPacket, TypeOK, ReaderType, Frames
      <4>2. Front5(e) \o Append(packetQ, requestCount) = Append(Front5(e) \o packetQ, requestCount)
        BY <4>1, FrontTypes, StageTypes, AppendConcat
      <4>3. Pipe(e)' = Front5(e)' \o packetQ'
        BY DEF Pipe, Front2, Front3, Front4, Front5
      <4> QED
        BY <3>1, <4>2, <4>3, <1>2, FrontTypes DEF ReadVideoPacket
    <3>2. CASE ReadOtherPacket
      BY <3>2, <1>1 DEF ReadOtherPacket, Pipe
    <3> QED
      BY <1>4, <3>1, <3>2
  <2> QED
    BY <2>1, <2>2, <1>1 DEF Flows, Accepts
<1> QED
  BY <1>3, <1>4 DEF Reader

LEMMA DecoderFlows ==
    ASSUME TypeOK, DecoderStep, NEW e \in Encoders
    PROVE  Flows(e)
<1> USE TranscoderAssumption
<1>1. UNCHANGED <<requestCount, video, coding, taken, output, responseId>>
  BY DEF DecoderStep, DecoderStart, PopPacket, PacketsEnd, ReceiveFrame, ReceiveEnds, DeliverFrame,
         FinishQueue, readerVars, encoderVars
<1>2. Front2(e)' = Front2(e)
  BY <1>1 DEF Front2
<1>3. Pipe(e)' = ((((Front2(e)' \o frameQ'[e]) \o Undelivered(e)') \o decoding') \o packetQ')
  BY DEF Pipe, Front2
<1> SUFFICES \/ Pipe(e)' = Pipe(e)
             \/ Faults # {} /\ Loses(Pipe(e)', Pipe(e))
  BY <1>1 DEF Flows, Stays, LosesOne, MayLose
<1>4. CASE DecoderStart \/ PacketsEnd \/ FinishQueue
  <2>1. UNCHANGED <<packetQ, decoding, frameQ>> /\ Undelivered(e)' = <<>> /\ Undelivered(e) = <<>>
    BY <1>4 DEF DecoderStart, PacketsEnd, FinishQueue, Undelivered
  <2> QED
    BY <2>1, <1>1 DEF Pipe
<1>5. CASE PopPacket
  <2>1. packetQ # <<>> /\ packetQ' = Tail(packetQ) /\ frameQ' = frameQ
        /\ Undelivered(e)' = <<>> /\ Undelivered(e) = <<>>
    BY <1>5 DEF PopPacket, Undelivered
  <2>2. CASE decoding' = Append(decoding, Head(packetQ))
    <3>0. Front4(e) \in Seq(Frames) /\ decoding \in Seq(Frames) /\ packetQ \in Seq(Frames)
      BY FrontTypes, StageTypes
    <3>1. Moves(Front4(e), decoding, packetQ)
      BY <3>0, <2>1, FrameMoves
    <3>2. Front4(e)' = Front4(e)
      BY <1>2, <2>1 DEF Front4, Front3
    <3> QED
      BY <3>1, <3>2, <2>1, <2>2 DEF Moves, Pipe, Front4, Front3, Front2
  <2>3. CASE decoding' = decoding /\ "codec" \in Faults
    <3>1. Pipe(e)' = Front5(e) \o Tail(packetQ)
      BY <1>2, <1>3, <2>1, <2>3 DEF Front5, Front4, Front3
    <3> QED
      BY <3>1, <2>1, <2>3, FrontTypes, StageTypes, LosesHead
  <2> QED
    BY <1>5, <2>2, <2>3 DEF PopPacket
<1>6. CASE ReceiveFrame
  <2>1. decoding # <<>> /\ decoding' = Tail(decoding) /\ UNCHANGED <<packetQ, frameQ>>
        /\ Undelivered(e) = <<>> /\ Undelivered(e)' = <<Head(decoding)>>
    BY <1>6 DEF ReceiveFrame, Undelivered, Encoders
  <2>2. Head(decoding) \in Frames /\ Undelivered(e)' = Append(Undelivered(e), Head(decoding))
    BY <2>1, StageTypes
  <2>0. Front3(e) \in Seq(Frames) /\ Undelivered(e) \in Seq(Frames) /\ decoding \in Seq(Frames)
    BY FrontTypes, StageTypes
  <2>3. Moves(Front3(e), Undelivered(e), decoding)
    BY <2>0, <2>1, FrameMoves
  <2>4. Front3(e)' = Front3(e)
    BY <1>2, <2>1 DEF Front3
  <2> QED
    BY <2>1, <2>2, <2>3, <2>4 DEF Moves, Pipe, Front3, Front2
<1>7. CASE ReceiveEnds
  <2>1. UNCHANGED <<packetQ, frameQ>> /\ Undelivered(e) = <<>> /\ Undelivered(e)' = <<>>
        /\ (decoding' = decoding \/ ("codec" \in Faults /\ decoding # <<>> /\ decoding' = Tail(decoding)))
    BY <1>7 DEF ReceiveEnds, Undelivered
  <2>2. Front4(e)' = Front4(e)
    BY <1>2, <2>1 DEF Front4, Front3
  <2>3. CASE "codec" \in Faults /\ decoding # <<>> /\ decoding' = Tail(decoding)
    <3>1. Loses(Front4(e) \o Tail(decoding), Front4(e) \o decoding)
      BY <2>3, FrontTypes, StageTypes, LosesHead
    <3>2. Loses((Front4(e) \o Tail(decoding)) \o packetQ, (Front4(e) \o decoding) \o packetQ)
      BY <3>1, FrontTypes, StageTypes, LosesBehind DEF Front5
    <3> QED
      BY <3>2, <2>1, <2>2, <2>3 DEF Pipe, Front4, Front3, Front2
  <2>4. CASE decoding' = decoding
    BY <2>1, <2>2, <2>4 DEF Pipe, Front4, Front3, Front2
  <2> QED
    BY <2>1, <2>3, <2>4
<1>8. CASE DeliverFrame
  <2>1. UNCHANGED <<packetQ, decoding>> /\ nextEnc \in Encoders /\ cur \in Frames
    BY <1>8 DEF DeliverFrame, TypeOK, DecoderType
  <2>2. CASE e # nextEnc
    <3>1. frameQ'[e] = frameQ[e]
      BY <1>8, <2>2 DEF DeliverFrame, TypeOK, DecoderType
    <3>2. Undelivered(e)' = Undelivered(e)
      BY <1>8, <2>1, <2>2 DEF DeliverFrame, Undelivered, Encoders
    <3> QED
      BY <3>1, <3>2, <2>1, <1>1 DEF Pipe
  <2>3. CASE e = nextEnc
    <3>1. Undelivered(e) = <<cur>> /\ Undelivered(e)' = <<>>
      BY <1>8, <2>1, <2>3 DEF DeliverFrame, Undelivered, Encoders
    <3>2. CASE frameQ'[e] = Append(frameQ[e], cur)
      <4>1. <<cur>> \in Seq(Frames) /\ <<cur>> # <<>> /\ Head(<<cur>>) = cur /\ Tail(<<cur>>) = <<>>
        BY <2>1
      <4>2. Moves(Front2(e), frameQ[e], <<cur>>)
        <5>1. Front2(e) \in Seq(Frames) /\ frameQ[e] \in Seq(Frames)
          BY FrontTypes, StageTypes
        <5> QED
          BY <5>1, <4>1, FrameMoves
      <4>3. Front4(e)' = Front4(e)
        <5>1. (Front2(e) \o Append(frameQ[e], cur)) \o <<>> = (Front2(e) \o frameQ[e]) \o <<cur>>
          BY <4>1, <4>2 DEF Moves
        <5> QED
          BY <5>1, <3>1, <3>2, <1>2 DEF Front4, Front3
      <4> QED
        BY <4>3, <2>1 DEF Pipe, Front4, Front3, Front2
    <3>3. CASE frameQ'[e] = frameQ[e] /\ "alloc" \in Faults
      <4>1. <<cur>> \in Seq(Frames) /\ <<cur>> # <<>> /\ Tail(<<cur>>) = <<>>
        BY <2>1
      <4>2. Loses(Front3(e) \o <<>>, Front3(e) \o <<cur>>)
        BY <4>1, FrontTypes, LosesHead
      <4>3. Loses((Front3(e) \o <<>>) \o decoding, (Front3(e) \o <<cur>>) \o decoding)
        BY <4>2, <3>1, FrontTypes, StageTypes, LosesBehind DEF Front4
      <4>4. Loses(((Front3(e) \o <<>>) \o decoding) \o packetQ,
                  ((Front3(e) \o <<cur>>) \o decoding) \o packetQ)
        BY <4>3, <3>1, FrontTypes, StageTypes, LosesBehind DEF Front4, Front5
      <4>5. Front3(e)' = Front3(e)
        BY <3>3, <1>2 DEF Front3
      <4> QED
        BY <4>4, <4>5, <3>1, <3>3, <2>1 DEF Pipe, Front3, Front2
    <3> QED
      BY <1>8, <2>3, <3>2, <3>3 DEF DeliverFrame, TypeOK, DecoderType
  <2> QED
    BY <2>2, <2>3
<1> QED
  BY <1>4, <1>5, <1>6, <1>7, <1>8 DEF DecoderStep

LEMMA EncoderFlows ==
    ASSUME TypeOK, NEW d \in Encoders, EncoderStep(d), NEW e \in Encoders
    PROVE  Flows(e)
<1> USE TranscoderAssumption
<1>1. UNCHANGED <<requestCount, video, decoding, packetQ>> /\ Undelivered(e)' = Undelivered(e)
  BY DEF EncoderStep, EncoderSetup, OpenOutput, FinishSetup, FrameRefused, PopFrame, FramesEnd, ConvertFails, SendFrame, SendFrameFails,
         WritePacket, PacketsDry, FlushPacket, FlushEnds, readerVars, decoderVars, Undelivered
<1>2. CASE d # e
  <2>1. UNCHANGED <<coding[e], taken[e], frameQ[e], output[e], responseId[e]>>
    BY ZenonT(40), <1>2 DEF TypeOK, DecoderType, EncoderType, EncoderStep, EncoderSetup, OpenOutput, FinishSetup, FrameRefused, PopFrame, FramesEnd,
                ConvertFails, SendFrame, SendFrameFails, WritePacket, PacketsDry, FlushPacket, FlushEnds
  <2> QED
    BY <2>1, <1>1 DEF Flows, Stays, Pipe
<1>3. CASE d = e
  <2>1. CASE \/ EncoderSetup(e) \/ OpenOutput(e) \/ FinishSetup(e) \/ FramesEnd(e) \/ FlushEnds(e)
             \/ \E step \in Nat : PacketsDry(e, step)
    <3>1. UNCHANGED <<coding, taken, frameQ, output, responseId>>
      BY <2>1 DEF EncoderSetup, OpenOutput, FinishSetup, FramesEnd, PacketsDry, FlushEnds
    <3> QED
      BY <3>1, <1>1 DEF Flows, Stays, Pipe
  <2>2. CASE PopFrame(e)
    <3>1. /\ taken[e] = <<>> /\ frameQ[e] # <<>>
          /\ taken'[e] = <<Head(frameQ[e])>> /\ frameQ'[e] = Tail(frameQ[e])
          /\ UNCHANGED <<coding, output, responseId>>
      BY <2>2 DEF PopFrame, TypeOK, DecoderType, EncoderType
    <3>2. taken'[e] = Append(taken[e], Head(frameQ[e]))
      BY <3>1
    <3>3. coding[e] \in Seq(Frames) /\ taken[e] \in Seq(Frames) /\ frameQ[e] \in Seq(Frames)
      BY StageTypes
    <3>4. Moves(coding[e], taken[e], frameQ[e])
      BY <3>1, <3>3, FrameMoves
    <3>5. Pipe(e)' = Pipe(e)
      BY <3>1, <3>2, <3>4, <1>1 DEF Moves, Pipe
    <3> QED
      BY <3>1, <3>5, <1>1 DEF Flows, Stays
  <2>3. CASE ConvertFails(e) \/ SendFrameFails(e) \/ FrameRefused(e)
    <3>1. taken[e] # <<>> /\ Tail(taken[e]) = <<>> /\ taken'[e] = <<>>
          /\ Faults # {} /\ UNCHANGED <<coding, frameQ, output, responseId>>
      <4>1. epc[e] = "encode" /\ taken' = [taken EXCEPT ![e] = <<>>]
            /\ Faults # {} /\ UNCHANGED <<coding, frameQ, output, responseId>>
        BY <2>3 DEF ConvertFails, SendFrameFails, FrameRefused
      <4>2. taken \in [Encoders -> Seq(Frames)] /\ Len(taken[e]) = 1
        BY <4>1 DEF TypeOK, EncoderType
      <4>3. taken[e] \in Seq(Frames) /\ taken[e] # <<>>
        <5>1. taken[e] \in Seq(Frames)
          BY <4>2
        <5>2. ASSUME taken[e] = <<>> PROVE FALSE
          <6>1. Len(taken[e]) = 0
            BY <5>2, EmptySeq, Zenon
          <6> QED
            BY <4>2, <6>1
        <5> QED
          BY <5>1, <5>2
      <4>4. Tail(taken[e]) \in Seq(Frames) /\ Len(Tail(taken[e])) = 0
        BY <4>2, <4>3
      <4>5. Tail(taken[e]) = <<>>
        BY <4>4, EmptySeq
      <4> QED
        BY <4>1, <4>2, <4>3, <4>5
    <3>2. Loses(coding[e] \o <<>>, Front2(e))
      BY <3>1, StageTypes, LosesHead DEF Front2
    <3>3. Loses((coding[e] \o <<>>) \o frameQ[e], Front3(e))
      BY <3>2, FrontTypes, StageTypes, LosesBehind DEF Front3
    <3>4. Loses(((coding[e] \o <<>>) \o frameQ[e]) \o Undelivered(e), Front4(e))
      BY <3>3, FrontTypes, StageTypes, LosesBehind DEF Front4
    <3>5. Loses((((coding[e] \o <<>>) \o frameQ[e]) \o Undelivered(e)) \o decoding, Front5(e))
      BY <3>4, FrontTypes, StageTypes, LosesBehind DEF Front5
    <3>6. Loses(((((coding[e] \o <<>>) \o frameQ[e]) \o Undelivered(e)) \o decoding) \o packetQ,
                Front5(e) \o packetQ)
      BY <3>5, FrontTypes, StageTypes, LosesBehind
    <3>7. Pipe(e)' = ((((coding[e] \o <<>>) \o frameQ[e]) \o Undelivered(e)) \o decoding) \o packetQ
      BY <3>1, <1>1 DEF Pipe
    <3> QED
      BY <3>1, <3>6, <3>7, <1>1, FrontTypes DEF Flows, LosesOne, MayLose
  <2>4. CASE \E pts \in Int : SendFrame(e, pts)
    <3>1. coding'[e] = coding[e] \o taken[e] /\ taken'[e] = <<>>
          /\ UNCHANGED <<frameQ, output, responseId>>
      BY <2>4 DEF SendFrame, TypeOK, EncoderType
    <3>2. (coding[e] \o taken[e]) \o <<>> = coding[e] \o taken[e]
      BY StageTypes, ConcatProperties, ConcatEmptySeq
    <3>3. Pipe(e)' = Pipe(e)
      BY <3>1, <3>2, <1>1 DEF Pipe
    <3> QED
      BY <3>1, <3>3, <1>1 DEF Flows, Stays
  <2>5. CASE \/ \E numbered \in BOOLEAN, step \in Nat : WritePacket(e, numbered, step)
             \/ \E stamp \in Int : FlushPacket(e, stamp)
    <3>1. /\ coding[e] # <<>> /\ coding'[e] = Tail(coding[e])
          /\ UNCHANGED <<taken, frameQ>>
      BY <2>5 DEF WritePacket, FlushPacket, TypeOK, EncoderType
    <3>2. /\ Pipe(e) # <<>>
          /\ Head(Pipe(e)) = Head(coding[e])
          /\ Pipe(e)' = Tail(Pipe(e))
      <4>1. LeavesFirst(coding[e], taken[e])
        BY <3>1, StageTypes, FrameLeaves
      <4>2. LeavesFirst(Front2(e), frameQ[e])
        BY <4>1, FrontTypes, StageTypes, FrameLeaves DEF LeavesFirst, Front2
      <4>3. LeavesFirst(Front3(e), Undelivered(e))
        BY <4>2, FrontTypes, StageTypes, FrameLeaves DEF LeavesFirst, Front3
      <4>4. LeavesFirst(Front4(e), decoding)
        BY <4>3, FrontTypes, StageTypes, FrameLeaves DEF LeavesFirst, Front4
      <4>5. LeavesFirst(Front5(e), packetQ)
        BY <4>4, FrontTypes, StageTypes, FrameLeaves DEF LeavesFirst, Front5
      <4>6. Pipe(e)' = ((((Tail(coding[e]) \o taken[e]) \o frameQ[e]) \o Undelivered(e)) \o decoding) \o packetQ
        BY <3>1, <1>1 DEF Pipe
      <4> QED
        BY <4>1, <4>2, <4>3, <4>4, <4>5, <4>6, FrontTypes
           DEF LeavesFirst, Front2, Front3, Front4, Front5
    <3>3. \/ output'[e] = Append(output[e], Head(coding[e])) /\ responseId'[e] \in {responseId[e], responseId[e] + 1}
          \/ Faults # {} /\ output'[e] = output[e] /\ responseId'[e] = responseId[e] + 1
          \/ Faults # {} /\ output'[e] = output[e] /\ responseId'[e] = responseId[e]
      BY <2>5 DEF WritePacket, FlushPacket, TypeOK, EncoderType
    <3>4. CASE Faults # {} /\ output'[e] = output[e] /\ responseId'[e] = responseId[e]
      <4>1. Loses(Pipe(e)', Pipe(e))
        <5>1. Loses(<<>> \o Tail(Pipe(e)), <<>> \o Pipe(e))
          BY <3>2, FrontTypes, LosesHead, EmptySeq
        <5>2. <<>> \o Tail(Pipe(e)) = Tail(Pipe(e)) /\ <<>> \o Pipe(e) = Pipe(e)
          BY <3>2, FrontTypes, ConcatEmptySeq
        <5> QED
          BY <5>1, <5>2, <3>2
      <4> QED
        BY <4>1, <3>4, <1>1 DEF Flows, LosesOne, MayLose
    <3>5. CASE ~(Faults # {} /\ output'[e] = output[e] /\ responseId'[e] = responseId[e])
      <4>1. Leaves(e)
        BY <3>2, <3>3, <3>5, <1>1 DEF Leaves, MayLose
      <4> QED
        BY <4>1 DEF Flows
    <3> QED
      BY <3>4, <3>5
  <2> QED
    BY <1>3, <2>1, <2>2, <2>3, <2>4, <2>5 DEF EncoderStep
<1> QED
  BY <1>2, <1>3

LEMMA SimpleFlows ==
    ASSUME TypeOK, program = "simple", SimpleStep, NEW e \in Encoders
    PROVE  Flows(e)
<1> USE TranscoderAssumption
<1>1. UNCHANGED <<coding, taken, packetQ, output, responseId>>
  BY DEF SimpleStep, SimpleStart, SimpleReadVideo, SimpleReadOther, SimpleReadEnds, SimpleReceive,
         SimpleFinish, readerVars, decoderVars, encoderVars
<1>2. Undelivered(e) = <<>> /\ Undelivered(e)' = <<>>
  BY DEF SimpleStep, SimpleStart, SimpleReadVideo, SimpleReadOther, SimpleReadEnds, SimpleReceive,
         SimpleFinish, Undelivered, decoderVars
<1>0. packetQ = <<>> /\ packetQ' = <<>>
  BY <1>1 DEF TypeOK, ReaderType
<1>3. CASE SimpleStart \/ SimpleReadEnds \/ SimpleFinish
  <2>1. UNCHANGED <<requestCount, video, decoding, frameQ>>
    BY <1>3 DEF SimpleStart, SimpleReadEnds, SimpleFinish, readerVars
  <2> QED
    BY <2>1, <1>1, <1>2 DEF Flows, Stays, Pipe
<1>4. CASE SimpleReadVideo \/ SimpleReadOther
  <2>1. requestCount' = requestCount + 1 /\ requestCount \in Frames /\ frameQ' = frameQ
    BY <1>4 DEF SimpleReadVideo, SimpleReadOther, TypeOK, ReaderType, Frames, decoderVars
  <2>2. CASE decoding' = decoding /\ (video' = video \/ Faults # {})
    BY <2>1, <2>2, <1>1, <1>2 DEF Pipe, Flows, Accepts, MayLose
  <2>3. CASE decoding' = Append(decoding, requestCount) /\ video' = Append(video, requestCount)
    <3>1. Front4(e)' = Front4(e)
      BY <2>1, <1>1, <1>2 DEF Front4, Front3, Front2
    <3>2. Front4(e) \o Append(decoding, requestCount) = Append(Front5(e), requestCount)
      BY <2>1, FrontTypes, StageTypes, AppendConcat DEF Front5
    <3>3. Front5(e)' = Append(Front5(e), requestCount)
      BY <3>1, <3>2, <2>3 DEF Front5
    <3>4. Pipe(e)' = Append(Front5(e), requestCount)
      <4>1. Append(Front5(e), requestCount) \in Seq(Frames)
        BY <2>1, FrontTypes, AppendProperties
      <4>2. Pipe(e)' = Front5(e)' \o packetQ'
        BY DEF Pipe, Front5, Front4, Front3, Front2
      <4> QED
        BY <4>1, <4>2, <3>3, <1>0, ConcatEmptySeq
    <3>5. Pipe(e) = Front5(e)
      BY <1>0, FrontTypes, ConcatEmptySeq
    <3> QED
      BY <2>3, <3>4, <3>5, <2>1, <1>1 DEF Flows, Accepts
  <2> QED
    BY <1>4, <2>2, <2>3 DEF SimpleReadVideo, SimpleReadOther, decoderVars
<1>5. CASE SimpleReceive
  <2>1. decoding # <<>> /\ decoding' = Tail(decoding) /\ UNCHANGED <<requestCount, video>>
    BY <1>5 DEF SimpleReceive, readerVars
  <2>2. Front2(e)' = Front2(e) /\ Pipe(e)' = ((Front3(e)' \o <<>>) \o Tail(decoding)) \o packetQ
    BY <2>1, <1>1, <1>2 DEF Pipe, Front3, Front2
  <2>3. Front3(e) \o <<>> = Front3(e) /\ Front4(e) = Front3(e)
    BY <1>2, FrontTypes, ConcatEmptySeq DEF Front4
  <2>4. CASE frameQ'[e] = frameQ[e] /\ ("alloc" \in Faults \/ e # 1)
    <3>1. Front3(e)' = Front3(e)
      BY <2>2, <2>4 DEF Front3
    <3>2. Loses(Front4(e) \o Tail(decoding), Front5(e))
      BY <2>1, FrontTypes, StageTypes, LosesHead DEF Front5
    <3>3. Loses((Front4(e) \o Tail(decoding)) \o packetQ, Front5(e) \o packetQ)
      BY <3>2, FrontTypes, StageTypes, LosesBehind
    <3>4. Loses(Pipe(e)', Pipe(e))
      BY <3>1, <3>3, <2>2, <2>3, FrontTypes
    <3> QED
      BY <3>4, <2>1, <2>4, <1>1 DEF Flows, LosesOne, MayLose, Outputs
  <2>5. CASE e = 1 /\ frameQ'[e] = Append(frameQ[e], Head(decoding))
    <3>1. Moves(Front2(e), frameQ[e], decoding)
      <4>1. Front2(e) \in Seq(Frames) /\ frameQ[e] \in Seq(Frames) /\ decoding \in Seq(Frames)
        BY FrontTypes, StageTypes
      <4> QED
        BY <4>1, <2>1, FrameMoves
    <3>2. Front3(e)' \o Tail(decoding) = Front3(e) \o decoding
      BY <3>1, <2>2, <2>5 DEF Moves, Front3
    <3>3. Front3(e)' \in Seq(Frames)
      <4>1. Head(decoding) \in Frames
        BY <2>1, StageTypes
      <4>2. Append(frameQ[e], Head(decoding)) \in Seq(Frames)
        BY <4>1, StageTypes, AppendProperties
      <4> QED
        BY <4>2, <2>2, <2>5, FrontTypes, ConcatProperties DEF Front3
    <3>4. Front3(e)' \o <<>> = Front3(e)'
      BY <3>3, ConcatEmptySeq
    <3>5. Pipe(e)' = Pipe(e)
      BY <3>2, <3>4, <2>2, <2>3, FrontTypes DEF Front5
    <3> QED
      BY <3>5, <2>1, <1>1 DEF Flows, Stays
  <2> QED
    <3>1. \/ "alloc" \in Faults /\ frameQ' = frameQ
          \/ frameQ' = [frameQ EXCEPT ![1] = Append(@, Head(decoding))]
      BY <1>5 DEF SimpleReceive
    <3>2. \/ frameQ'[e] = frameQ[e] /\ ("alloc" \in Faults \/ e # 1)
          \/ e = 1 /\ frameQ'[e] = Append(frameQ[e], Head(decoding))
      BY <3>1 DEF TypeOK, DecoderType
    <3> QED
      BY <3>2, <2>4, <2>5
<1> QED
  BY <1>3, <1>4, <1>5 DEF SimpleStep

LEMMA StepFlows ==
    ASSUME TypeOK, [Next]_vars, NEW e \in Encoders
    PROVE  Flows(e)
<1>1. CASE MainStep \/ UNCHANGED vars
  <2>1. UNCHANGED <<requestCount, video, packetQ, decoding, coding, taken, frameQ, output, responseId>>
        /\ Undelivered(e)' = Undelivered(e)
    BY <1>1 DEF MainStep, InitializeDecoder, StartThreads, DecoderInitializes, JoinAndReport, vars,
                readerVars, decoderVars, encoderVars, Undelivered
  <2> QED
    BY <2>1 DEF Flows, Stays, Pipe
<1> QED
  BY <1>1, StepIsShared, ReaderFlows, DecoderFlows, SimpleFlows, EncoderFlows

LEMMA StepImplements ==
    ASSUME TypeOK, [Next]_vars, NEW e \in Encoders
    PROVE  [Stream(e)!Next]_(Stream(e)!vars)
  BY StepFlows, FlowIsStep

LEMMA InitImplements == Init => \A e \in Encoders : Stream(e)!Init
<1> SUFFICES ASSUME Init, NEW e \in Encoders PROVE Stream(e)!Init
  OBVIOUS
<1>1. Undelivered(e) = <<>>
  BY DEF Init, Undelivered
<1>2. Pipe(e) = <<>>
  BY <1>1, ConcatEmptySeq, EmptySeq DEF Init, Pipe
<1> QED
  BY <1>2 DEF Init, Stream!Init

\* For every output the reader, the decoder and the encoder together implement
\* the lossy stream: frames may be lost at any stage, and are never reordered,
\* repeated or invented, whichever calls fail and however the threads interleave.
THEOREM TranscoderStreams == Spec => Streams
<1>1. Init => \A e \in Encoders : Stream(e)!Init
  BY InitImplements
<1>2. TypeOK /\ [Next]_vars => [\A e \in Encoders : [Stream(e)!Next]_(Stream(e)!vars)]_vars
  BY StepImplements
<1> QED
  BY <1>1, <1>2, TranscoderType, PTL DEF Spec, Streams

-----------------------------------------------------------------------------
(* What the stream promises, the server keeps *)

StreamKept(e) == StreamOK(requestCount, Pipe(e), output[e], responseId[e])

StreamInv == \A e \in Encoders : StreamKept(e)

LEMMA StreamInit == ASSUME NEW e \in Encoders, Stream(e)!Init PROVE StreamKept(e)
  BY StreamStarts DEF Stream!Init, StreamKept

LEMMA StreamStep ==
    ASSUME NEW e \in Encoders, StreamKept(e), [Stream(e)!Next]_(Stream(e)!vars)
    PROVE  StreamKept(e)'
<1>1. StreamOK(requestCount, Pipe(e), output[e], responseId[e])
  BY DEF StreamKept
<1> SUFFICES StreamOK(requestCount', Pipe(e)', output'[e], responseId'[e])
  BY DEF StreamKept
<1>2. CASE Stream(e)!Accept
  BY <1>1, <1>2, StreamAccepts DEF Stream!Accept
<1>3. CASE Stream(e)!Lose
  <2>1. PICK i \in 1..Len(Pipe(e)) : Pipe(e)' = Stream(e)!Without(Pipe(e), i)
    BY <1>3 DEF Stream!Lose
  <2>2. Pipe(e)' = Without(Pipe(e), i)
    BY <2>1 DEF Stream!Without, Without
  <2> QED
    BY <1>1, <1>3, <2>2, StreamLoses DEF Stream!Lose
<1>4. CASE Stream(e)!Leave
  <2>1. /\ Pipe(e) # <<>> /\ Pipe(e)' = Tail(Pipe(e)) /\ requestCount' = requestCount
        /\ output'[e] \in {output[e], Append(output[e], Head(Pipe(e)))}
        /\ responseId'[e] \in {responseId[e], responseId[e] + 1}
    BY <1>4 DEF Stream!Leave
  <2>2. StreamOK(requestCount, Tail(Pipe(e)), output'[e], responseId'[e])
    BY <1>1, <2>1, StreamLeaves
  <2> QED
    BY <2>1, <2>2
<1>5. CASE UNCHANGED (Stream(e)!vars)
  BY <1>1, <1>5 DEF Stream!vars
<1> QED
  BY <1>2, <1>3, <1>4, <1>5 DEF Stream!Next

LEMMA StreamInOrder == ASSUME NEW e \in Encoders, StreamKept(e) PROVE Stream(e)!InOrder
  BY DEF StreamKept, StreamOK, Stream!InOrder, Stream!OrderedBelow, Stream!Increasing,
         OrderedBelow, Increasing

LEMMA StreamResponds == ASSUME NEW e \in Encoders, StreamKept(e) PROVE Stream(e)!ResponsesFollowRequests
  BY DEF StreamKept, StreamOK, Stream!ResponsesFollowRequests, Stream!NumberedFrom, NumberedFrom

\* A stream that may lose frames keeps the others in order, and its responses never
\* overtake the requests: what the abstract specification promises of any output.
THEOREM StreamPromises ==
    ASSUME NEW e \in Encoders
    PROVE  Stream(e)!Spec => [](Stream(e)!InOrder /\ Stream(e)!ResponsesFollowRequests)
<1>1. Stream(e)!Init => StreamKept(e)
  BY StreamInit
<1>2. StreamKept(e) /\ [Stream(e)!Next]_(Stream(e)!vars) => StreamKept(e)'
  BY StreamStep
<1>3. StreamKept(e) => Stream(e)!InOrder /\ Stream(e)!ResponsesFollowRequests
  BY StreamInOrder, StreamResponds
<1> QED
  BY <1>1, <1>2, <1>3, PTL DEF Stream!Spec

LEMMA InitStreamInv == Init => StreamInv
<1> SUFFICES ASSUME Init, NEW e \in Encoders PROVE StreamKept(e)
  BY DEF StreamInv
<1> QED
  BY StreamInit, InitImplements

LEMMA StepStreamInv == TypeOK /\ StreamInv /\ [Next]_vars => StreamInv'
<1> SUFFICES ASSUME TypeOK, StreamInv, [Next]_vars, NEW e \in Encoders PROVE StreamKept(e)'
  BY DEF StreamInv
<1>1. StreamKept(e) /\ [Stream(e)!Next]_(Stream(e)!vars)
  BY StepImplements DEF StreamInv
<1> QED
  BY <1>1, StreamStep

\* Every output is written in the order of the requests, no frame twice, and no
\* frame in the server lacks a reported request.
THEOREM TranscoderInOrder == Spec => []OutputsInOrder
<1>1. StreamInv => OutputsInOrder
  BY StreamInOrder DEF StreamInv, OutputsInOrder
<1> QED
  BY <1>1, TranscoderType, InitStreamInv, StepStreamInv, PTL DEF Spec

\* No response claims a later request than the one its frame came in.
THEOREM TranscoderResponses == Spec => []ResponsesFollowRequests
<1>1. StreamInv => ResponsesFollowRequests
  BY StreamResponds DEF StreamInv, ResponsesFollowRequests
<1> QED
  BY <1>1, TranscoderType, InitStreamInv, StepStreamInv, PTL DEF Spec

-----------------------------------------------------------------------------
(* The end of a queue *)

\* Only a decoder that is closing has finished queues.
FinishedLast == \A e \in Encoders : finished[e] => dpc \in {"close", "done"}

\* An encoder that left its loop, other than by a refused frame, left nothing; and
\* only a failing codec refuses one.
Drained ==
    /\ \A e \in Encoders :
          epc[e] \in {"flush", "done"} /\ ~refused[e] =>
              finished[e] /\ frameQ[e] = <<>> /\ taken[e] = <<>>
    /\ "codec" \notin Faults => \A e \in Encoders : ~refused[e]

LEMMA StepFinishedLast ==
    ASSUME TypeOK, FinishedLast, [Next]_vars
    PROVE  FinishedLast'
<1>1. CASE MainStep
  BY <1>1 DEF FinishedLast, MainStep, InitializeDecoder, StartThreads, DecoderInitializes,
              JoinAndReport, decoderVars
<1>2. CASE Reader \/ UNCHANGED vars \/ \E e \in Encoders : EncoderStep(e)
  <2>1. UNCHANGED <<dpc, finished>>
    BY <1>2 DEF Reader, ReaderStart, ReadVideoPacket, ReadOtherPacket, ReadEnds, ReaderFinishes,
       EncoderStep, EncoderSetup, OpenOutput, FinishSetup, FrameRefused, PopFrame, FramesEnd,
       ConvertFails, SendFrame, SendFrameFails, WritePacket, PacketsDry, FlushPacket, FlushEnds,
       vars, decoderVars
  <2> QED
    BY <2>1 DEF FinishedLast
<1>3. CASE DecoderStep
  BY <1>3 DEF FinishedLast, DecoderStep, DecoderStart, PopPacket, PacketsEnd, ReceiveFrame,
              ReceiveEnds, DeliverFrame, FinishQueue
<1>4. CASE SimpleStep
  BY <1>4 DEF FinishedLast, SimpleStep, SimpleStart, SimpleReadVideo, SimpleReadOther,
              SimpleReadEnds, SimpleReceive, SimpleFinish, decoderVars
<1> QED
  BY <1>1, <1>2, <1>3, <1>4, StepIsShared

\* A step leaves the queue of e as it is, takes its head, or finds it unfinished.
LEMMA QueueSteps ==
    ASSUME TypeOK, FinishedLast, [Next]_vars, NEW e \in Encoders, finished[e]
    PROVE  /\ frameQ'[e] = frameQ[e] \/ (frameQ[e] # <<>> /\ frameQ'[e] = Tail(frameQ[e]))
           /\ finished'[e]
<1>1. CASE MainStep \/ Reader \/ UNCHANGED vars
  BY <1>1 DEF MainStep, InitializeDecoder, StartThreads, DecoderInitializes, JoinAndReport, Reader,
     ReaderStart, ReadVideoPacket, ReadOtherPacket, ReadEnds, ReaderFinishes, vars
<1>2. CASE DecoderStep
  BY <1>2 DEF FinishedLast, DecoderStep, DecoderStart, PopPacket, PacketsEnd, ReceiveFrame,
              ReceiveEnds, DeliverFrame, FinishQueue, TypeOK, DecoderType
<1>3. CASE SimpleStep
  BY <1>3 DEF FinishedLast, SimpleStep, SimpleStart, SimpleReadVideo, SimpleReadOther,
              SimpleReadEnds, SimpleReceive, SimpleFinish, TypeOK, DecoderType
<1>4. ASSUME NEW d \in Encoders, EncoderStep(d)
      PROVE  /\ frameQ'[e] = frameQ[e] \/ (frameQ[e] # <<>> /\ frameQ'[e] = Tail(frameQ[e]))
             /\ finished'[e]
  <2>1. finished' = finished
    BY <1>4 DEF EncoderStep, EncoderSetup, OpenOutput, FinishSetup, FrameRefused, PopFrame, FramesEnd,
       ConvertFails, SendFrame, SendFrameFails, WritePacket, PacketsDry, FlushPacket, FlushEnds
  <2>2. CASE PopFrame(d)
    BY <2>1, <2>2 DEF PopFrame, TypeOK, DecoderType
  <2>3. CASE ~PopFrame(d)
    <3>1. frameQ' = frameQ
      BY <1>4, <2>3 DEF EncoderStep, EncoderSetup, OpenOutput, FinishSetup, FrameRefused, FramesEnd,
         ConvertFails, SendFrame, SendFrameFails, WritePacket, PacketsDry, FlushPacket, FlushEnds
    <3> QED
      BY <2>1, <3>1
  <2> QED
    BY <2>2, <2>3
<1> QED
  BY <1>1, <1>2, <1>3, <1>4, StepIsShared

\* Nothing is pushed to a queue that is finished: the flush of the decoder is over
\* before the first set_finished.
THEOREM TranscoderNoPushAfterFinished == Spec => NoPushAfterFinished
<1>1. Init => FinishedLast
  BY DEF Init, FinishedLast
<1>2. TypeOK /\ FinishedLast /\ [Next]_vars
        => [\A e \in Encoders : finished[e] => Len(frameQ'[e]) <= Len(frameQ[e])]_vars
  <2> SUFFICES ASSUME TypeOK, FinishedLast, [Next]_vars, NEW e \in Encoders, finished[e]
               PROVE  Len(frameQ'[e]) <= Len(frameQ[e])
    OBVIOUS
  <2>1. frameQ[e] \in Seq(Frames)
    BY DEF TypeOK, DecoderType
  <2>2. frameQ'[e] = frameQ[e] \/ (frameQ[e] # <<>> /\ frameQ'[e] = Tail(frameQ[e]))
    BY QueueSteps
  <2>3. \A q \in Seq(Frames) : q # <<>> => Len(Tail(q)) <= Len(q)
    OBVIOUS
  <2>4. Len(frameQ[e]) <= Len(frameQ[e])
    BY <2>1
  <2>5. CASE frameQ'[e] = frameQ[e]
    BY <2>4, <2>5, Zenon
  <2>6. CASE frameQ[e] # <<>> /\ frameQ'[e] = Tail(frameQ[e])
    <3>1. Len(Tail(frameQ[e])) <= Len(frameQ[e])
      BY <2>1, <2>3, <2>6
    <3> QED
      BY <2>6, <3>1, Zenon
  <2> QED
    BY <2>2, <2>5, <2>6
<1> QED
  BY <1>1, <1>2, StepFinishedLast, TranscoderType, PTL DEF Spec, NoPushAfterFinished

LEMMA StepDrained ==
    ASSUME TypeOK, FinishedLast, Drained, [Next]_vars
    PROVE  Drained'
<1>1. ASSUME NEW e \in Encoders, UNCHANGED <<epc[e], taken[e], refused[e]>>,
             epc'[e] \in {"flush", "done"}, ~refused'[e]
      PROVE  finished'[e] /\ frameQ'[e] = <<>> /\ taken'[e] = <<>>
  <2>1. finished[e] /\ frameQ[e] = <<>> /\ taken[e] = <<>>
    BY <1>1 DEF Drained
  <2> QED
    BY <1>1, <2>1, QueueSteps
<1>2. CASE MainStep \/ Reader \/ DecoderStep \/ SimpleStep \/ UNCHANGED vars
  <2>1. UNCHANGED <<epc, taken, refused>>
    BY <1>2 DEF MainStep, InitializeDecoder, StartThreads, DecoderInitializes, JoinAndReport,
     Reader, ReaderStart, ReadVideoPacket, ReadOtherPacket, ReadEnds, ReaderFinishes, vars,
     DecoderStep, DecoderStart, PopPacket, PacketsEnd, ReceiveFrame, ReceiveEnds, DeliverFrame,
     FinishQueue, SimpleStep, SimpleStart, SimpleReadVideo, SimpleReadOther, SimpleReadEnds,
     SimpleReceive, SimpleFinish, encoderVars
  <2> QED
    BY <2>1, <1>1 DEF Drained
<1>3. ASSUME NEW d \in Encoders, EncoderStep(d)
      PROVE  Drained'
  <2>1. ASSUME NEW e \in Encoders, epc'[e] \in {"flush", "done"}, ~refused'[e]
        PROVE  finished'[e] /\ frameQ'[e] = <<>> /\ taken'[e] = <<>>
    <3>1. CASE d # e
      <4>1. UNCHANGED <<epc[e], taken[e], refused[e]>>
        BY <1>3, <3>1 DEF TypeOK, EncoderType, EncoderStep, EncoderSetup, OpenOutput, FinishSetup,
           FrameRefused, PopFrame, FramesEnd, ConvertFails, SendFrame, SendFrameFails, WritePacket,
           PacketsDry, FlushPacket, FlushEnds
      <4> QED
        BY <1>1, <2>1, <4>1
    <3>2. CASE d = e /\ FramesEnd(e)
      <4>1. epc[e] = "pop" /\ frameQ[e] = <<>> /\ finished[e] /\ UNCHANGED <<frameQ, finished, taken>>
        BY <3>2 DEF FramesEnd
      <4>2. taken[e] \in Seq(Frames) /\ Len(taken[e]) = 0
        BY <4>1 DEF TypeOK, EncoderType
      <4>3. taken[e] = <<>>
        BY <4>2, EmptySeq
      <4> QED
        BY <4>1, <4>3
    <3>3. CASE d = e /\ ~FramesEnd(e)
      <4>1. ~SendFrameFails(e)
        BY <2>1 DEF TypeOK, EncoderType, SendFrameFails
      <4>2. UNCHANGED <<epc[e], taken[e], refused[e]>> \/ (epc[e] = "flush" /\ UNCHANGED <<taken, refused>>)
        BY <1>3, <2>1, <3>3, <4>1 DEF TypeOK, EncoderType, EncoderStep, EncoderSetup, OpenOutput,
           FinishSetup, FrameRefused, PopFrame, ConvertFails, SendFrame, WritePacket, PacketsDry,
           FlushPacket, FlushEnds
      <4>3. finished[e] /\ frameQ[e] = <<>> /\ taken[e] = <<>> /\ taken'[e] = taken[e]
        BY <2>1, <4>2 DEF Drained
      <4> QED
        BY <4>3, QueueSteps
    <3> QED
      BY <3>1, <3>2, <3>3
  <2>2. ASSUME "codec" \notin Faults, NEW e \in Encoders PROVE ~refused'[e]
    <3>1. ~refused[e]
      BY <2>2 DEF Drained
    <3>2. refused' = refused
      BY <1>3, <2>2 DEF EncoderStep, EncoderSetup, OpenOutput, FinishSetup,
         FrameRefused, PopFrame, FramesEnd, ConvertFails, SendFrame, SendFrameFails, WritePacket,
         PacketsDry, FlushPacket, FlushEnds
    <3> QED
      BY <3>1, <3>2
  <2> QED
    BY <2>1, <2>2 DEF Drained
<1> QED
  BY <1>2, <1>3, StepIsShared

\* An output whose encoder refused no frame counts as finished only when its queue is,
\* and is empty: in every program, whatever else failed.
THEOREM TranscoderReturnsAfterDrained == Spec => []ReturnsAfterDrained
<1>1. Init => FinishedLast /\ Drained
  BY DEF Init, FinishedLast, Drained
<1>2. Drained => ReturnsAfterDrained
  BY DEF Drained, ReturnsAfterDrained
<1> QED
  BY <1>1, <1>2, StepFinishedLast, StepDrained, TranscoderType, PTL DEF Spec

-----------------------------------------------------------------------------
(* A run without failures *)

\* What was written and what is still inside is the video stream so far.
Complete == Faults = {} => \A e \in Outputs : output[e] \o Pipe(e) = video

LEMMA FlowCompletes ==
    ASSUME TypeOK, TypeOK', NEW e \in Encoders, Flows(e), ~MayLose(e), output[e] \o Pipe(e) = video
    PROVE  output'[e] \o Pipe(e)' = video'
<1>1. output[e] \in Seq(Frames) /\ Pipe(e) \in Seq(Frames)
  BY StageTypes, FrontTypes
<1>2. CASE Stays(e)
  BY <1>2 DEF Stays
<1>3. CASE Accepts(e)
  <2>1. CASE Pipe(e)' = Append(Pipe(e), requestCount)
    <3>1. Pipe(e) \in Seq(Nat) /\ output[e] \in Seq(Nat) /\ requestCount \in Nat
      BY <1>1, TranscoderAssumption DEF Frames, TypeOK, ReaderType
    <3>2. output[e] \o Append(Pipe(e), requestCount) = Append(output[e] \o Pipe(e), requestCount)
      <4>1. \A s, t \in Seq(Nat), x \in Nat : s \o Append(t, x) = Append(s \o t, x)
        BY AppendConcat
      <4> QED
        BY <3>1, <4>1
    <3>3. CASE video' = Append(video, requestCount)
      BY <1>3, <2>1, <3>2, <3>3 DEF Accepts
    <3>4. CASE Pipe(e)' = Pipe(e)
      BY <1>3, <3>4 DEF Accepts
    <3> QED
      BY <1>3, <3>3, <3>4 DEF Accepts
  <2>2. CASE Pipe(e)' = Pipe(e) /\ video' = video
    BY <1>3, <2>2 DEF Accepts
  <2> QED
    BY <1>3, <2>1, <2>2 DEF Accepts
<1>4. CASE Leaves(e)
  <2>1. Pipe(e) # <<>> /\ Pipe(e)' = Tail(Pipe(e)) /\ output'[e] = Append(output[e], Head(Pipe(e)))
        /\ video' = video
    BY <1>4 DEF Leaves
  <2>2. (<<>> \o Append(output[e], Head(Pipe(e)))) \o Tail(Pipe(e)) = (<<>> \o output[e]) \o Pipe(e)
    BY SMTT(30), <1>1, <2>1, MoveForward, EmptySeq
  <2>3. <<>> \o output[e] = output[e]
        /\ <<>> \o Append(output[e], Head(Pipe(e))) = Append(output[e], Head(Pipe(e)))
    <3>1. Append(output[e], Head(Pipe(e))) \in Seq(Frames)
      BY <1>1, <2>1, AppendProperties
    <3> QED
      BY <1>1, <3>1, ConcatEmptySeq
  <2> QED
    BY <2>1, <2>2, <2>3
<1> QED
  BY <1>2, <1>3, <1>4 DEF Flows, LosesOne

LEMMA OutputsAreEncoders == Outputs \subseteq Encoders
  BY TranscoderAssumption DEF Outputs, Encoders

LEMMA StepComplete ==
    ASSUME TypeOK, TypeOK', Complete, [Next]_vars
    PROVE  Complete'
<1> SUFFICES ASSUME Faults = {}, NEW e \in Outputs PROVE output'[e] \o Pipe(e)' = video'
  BY ProgramStays DEF Complete, Outputs
<1>1. e \in Encoders
  BY OutputsAreEncoders
<1>2. Flows(e) /\ ~MayLose(e) /\ output[e] \o Pipe(e) = video
  BY <1>1, StepFlows DEF MayLose, Complete
<1> QED
  BY <1>1, <1>2, FlowCompletes

\* Each thread ends only when what feeds it has: the reader, then the packet queue,
\* the decoder, and the encoders main waits for.
EndsInTurn ==
    Faults = {} =>
        /\ packetsDone => rpc = "done"
        /\ flushing => /\ program = "simple" \/ rpc = "done"
                       /\ packetQ = <<>>
                       /\ dpc \in {"receive", "deliver", "close", "done"}
        /\ dpc \in {"close", "done"} => flushing /\ decoding = <<>>
        /\ \A e \in Encoders : epc[e] = "done" => coding[e] = <<>>
        /\ mpc = "success" => dpc = "done" /\ \A e \in Outputs : epc[e] = "done"

LEMMA InitEndsInTurn == Init => Complete /\ EndsInTurn
<1> SUFFICES ASSUME Init PROVE Complete /\ EndsInTurn
  OBVIOUS
<1>1. ASSUME NEW e \in Outputs PROVE output[e] \o Pipe(e) = video
  <2>1. e \in Encoders
    BY OutputsAreEncoders
  <2>2. Undelivered(e) = <<>>
    BY DEF Init, Undelivered
  <2> QED
    BY <2>1, <2>2, ConcatEmptySeq, EmptySeq DEF Init, Pipe
<1> QED
  BY <1>1 DEF Init, Complete, EndsInTurn

LEMMA StepEndsInTurn ==
    ASSUME TypeOK, EndsInTurn, [Next]_vars
    PROVE  EndsInTurn'
<1> SUFFICES ASSUME Faults = {} PROVE EndsInTurn'
  BY DEF EndsInTurn
<1>0. program' = program
  BY ProgramStays
<1>1. CASE MainStep
  BY <1>0, <1>1 DEF EndsInTurn, MainStep, InitializeDecoder, StartThreads, DecoderInitializes,
     JoinAndReport, Outputs, readerVars, decoderVars, encoderVars
<1>2. CASE program # "simple" /\ Reader
  BY <1>0, <1>2 DEF EndsInTurn, Reader, ReaderStart, ReadVideoPacket, ReadOtherPacket, ReadEnds,
     ReaderFinishes, Outputs, decoderVars, encoderVars, mainVars
<1>3. CASE DecoderStep
  BY <1>0, <1>3 DEF EndsInTurn, DecoderStep, DecoderStart, PopPacket, PacketsEnd, ReceiveFrame,
     ReceiveEnds, DeliverFrame, FinishQueue, Outputs, readerVars, encoderVars, mainVars
<1>4. CASE program = "simple" /\ SimpleStep
  BY <1>0, <1>4 DEF EndsInTurn, SimpleStep, SimpleStart, SimpleReadVideo, SimpleReadOther,
     SimpleReadEnds, SimpleReceive, SimpleFinish, Outputs, readerVars, decoderVars, encoderVars,
     mainVars, TypeOK, ReaderType
<1>5. ASSUME NEW d \in Encoders, EncoderStep(d) PROVE EndsInTurn'
  <2>1. UNCHANGED <<rpc, packetsDone, packetQ, dpc, flushing, decoding, mpc>>
    BY <1>5 DEF EncoderStep, EncoderSetup, OpenOutput, FinishSetup, FrameRefused, PopFrame, FramesEnd,
       ConvertFails, SendFrame, SendFrameFails, WritePacket, PacketsDry, FlushPacket, FlushEnds,
       readerVars, decoderVars, mainVars
  <2>2. ASSUME NEW e \in Encoders, epc[e] = "done" PROVE epc'[e] = "done" /\ coding'[e] = coding[e]
    BY <1>5, <2>2 DEF TypeOK, EncoderType, EncoderStep, EncoderSetup, OpenOutput, FinishSetup,
       FrameRefused, PopFrame, FramesEnd, ConvertFails, SendFrame, SendFrameFails, WritePacket,
       PacketsDry, FlushPacket, FlushEnds
  <2>3. ASSUME NEW e \in Encoders, epc[e] # "done", epc'[e] = "done" PROVE coding'[e] = <<>>
    <3>1. d = e /\ FlushEnds(e)
      BY <1>5, <2>3 DEF TypeOK, EncoderType, EncoderStep, EncoderSetup, OpenOutput, FinishSetup,
         FrameRefused, PopFrame, FramesEnd, ConvertFails, SendFrame, SendFrameFails, WritePacket,
         PacketsDry, FlushPacket, FlushEnds
    <3> QED
      BY <3>1 DEF FlushEnds
  <2>4. Outputs' = Outputs /\ Outputs \subseteq Encoders
    BY <1>0, OutputsAreEncoders DEF Outputs
  <2> QED
    BY <1>0, <2>1, <2>2, <2>3, <2>4 DEF EndsInTurn
<1>6. CASE UNCHANGED vars
  BY <1>6 DEF EndsInTurn, Outputs, vars, readerVars, decoderVars, encoderVars, mainVars
<1> QED
  BY <1>1, <1>2, <1>3, <1>4, <1>5, <1>6, StepIsShared

\* Without failures every video frame reaches every output before main reports
\* success, in the order of the input.
THEOREM TranscoderCleanRun == Spec => []CleanRunComplete
<1>1. TypeOK /\ Drained /\ Complete /\ EndsInTurn => CleanRunComplete
  <2> SUFFICES ASSUME TypeOK, Drained, Complete, EndsInTurn, Faults = {}, mpc = "success",
                      NEW e \in Outputs
               PROVE  output[e] = video
    BY DEF CleanRunComplete, Outputs
  <2>1. e \in Encoders
    BY OutputsAreEncoders
  <2>2. dpc = "done" /\ epc[e] = "done" /\ decoding = <<>> /\ packetQ = <<>> /\ coding[e] = <<>>
    BY <2>1 DEF EndsInTurn
  <2>3. taken[e] = <<>> /\ frameQ[e] = <<>> /\ Undelivered(e) = <<>>
    BY <2>1, <2>2 DEF Drained, Undelivered
  <2>4. Pipe(e) = <<>>
    BY <2>2, <2>3, ConcatEmptySeq, EmptySeq DEF Pipe
  <2>5. output[e] \o Pipe(e) = video /\ output[e] \in Seq(Frames)
    BY <2>1, StageTypes DEF Complete
  <2> QED
    BY <2>4, <2>5, ConcatEmptySeq
<1>2. Init => FinishedLast /\ Drained
  BY DEF Init, FinishedLast, Drained
<1> QED
  BY <1>1, <1>2, InitEndsInTurn, StepComplete, StepEndsInTurn, StepFinishedLast, StepDrained,
     TranscoderType, PTL DEF Spec

-----------------------------------------------------------------------------
(* Timestamps *)

NonDecreasing(s) == \A i, j \in 1..Len(s) : i < j => s[i] <= s[j]

UpTo(s, n) == NonDecreasing(s) /\ \A i \in 1..Len(s) : s[i] <= n

LEMMA UpToGrows ==
    ASSUME NEW s \in Seq(Int), NEW n \in Int, NEW m \in Int, n <= m, UpTo(s, n)
    PROVE  UpTo(s, m)
<1> SUFFICES ASSUME NEW i \in 1..Len(s) PROVE s[i] <= m
  BY DEF UpTo
<1>1. s[i] \in Int /\ s[i] <= n
  BY ElementOfSeq DEF UpTo
<1> QED
  BY <1>1

LEMMA UpToAppend ==
    ASSUME NEW s \in Seq(Int), NEW n \in Int, UpTo(s, n)
    PROVE  UpTo(Append(s, n), n)
  BY AppendProperties, ElementOfSeq DEF UpTo, NonDecreasing

LEMMA UpToFirst ==
    ASSUME NEW s \in Seq(Int), NEW t \in Seq(Int), NEW n \in Int, UpTo(s \o t, n)
    PROVE  UpTo(s, n)
<1>1. /\ Len(s) \in Nat /\ Len(t) \in Nat /\ Len(s \o t) = Len(s) + Len(t)
      /\ \A i \in 1..(Len(s) + Len(t)) : (s \o t)[i] = IF i <= Len(s) THEN s[i] ELSE t[i - Len(s)]
  BY ConcatProperties, LenProperties
<1>2. ASSUME NEW i \in 1..Len(s) PROVE i \in 1..Len(s \o t) /\ (s \o t)[i] = s[i]
  BY <1>1
<1> QED
  BY <1>2 DEF UpTo, NonDecreasing

\* The first member of t is dropped, or moves to the end of s.
LEMMA UpToDrops ==
    ASSUME NEW s \in Seq(Int), NEW t \in Seq(Int), t # <<>>, NEW n \in Int, UpTo(s \o t, n)
    PROVE  UpTo(s \o Tail(t), n)
<1> DEFINE u == s \o t
           k == Len(s) + 1
<1>1. u \in Seq(Int) /\ k \in 1..Len(u) /\ s \o Tail(t) = Without(u, k)
  BY ConcatTail, ConcatProperties
<1>2. /\ Len(Without(u, k)) = Len(u) - 1
      /\ \A j \in 1..(Len(u) - 1) : Without(u, k)[j] = IF j < k THEN u[j] ELSE u[j + 1]
  BY <1>1, WithoutProperties
<1>3. Len(u) \in Nat /\ k \in Nat /\ UpTo(u, n)
  BY <1>1, LenProperties
<1> HIDE DEF u, k
<1> DEFINE w == Without(u, k)
           At(j) == IF j < k THEN j ELSE j + 1
<1>4. ASSUME NEW j \in 1..(Len(u) - 1) PROVE At(j) \in 1..Len(u) /\ w[j] = u[At(j)]
  BY <1>2, <1>3
<1>5. ASSUME NEW i \in 1..(Len(u) - 1), NEW j \in 1..(Len(u) - 1), i < j PROVE At(i) < At(j)
  BY <1>3, <1>5
<1>6. Len(w) = Len(u) - 1
  BY <1>2
<1> HIDE DEF At, w
<1>7. UpTo(w, n)
  BY <1>3, <1>4, <1>5, <1>6 DEF UpTo, NonDecreasing
<1> QED
  BY <1>1, <1>7 DEF w

LEMMA UpToMoves ==
    ASSUME NEW s \in Seq(Int), NEW t \in Seq(Int), t # <<>>, NEW n \in Int, UpTo(s \o t, n)
    PROVE  UpTo(Append(s, Head(t)) \o Tail(t), n)
<1>1. (<<>> \o Append(s, Head(t))) \o Tail(t) = (<<>> \o s) \o t
  BY MoveForward, EmptySeq
<1>2. Append(s, Head(t)) \in Seq(Int)
  BY AppendProperties
<1>3. <<>> \o s = s /\ <<>> \o Append(s, Head(t)) = Append(s, Head(t))
  BY <1>2, ConcatEmptySeq
<1> QED
  BY <1>1, <1>3

\* A later frame is not shown earlier.
LEMMA RescaledInOrder ==
    ASSUME NEW f \in Int, NEW g \in Int, f <= g, NEW R \in Nat
    PROVE  Rescaled(f, R) <= Rescaled(g, R)
<1>1. \A a, b \in Int, k \in Nat : a <= b => a * k <= b * k /\ a * k \in Int /\ b * k \in Int
  OBVIOUS
<1>2. \A a, b \in Int, k \in Nat \ {0} : a <= b => a \div k <= b \div k
  OBVIOUS
<1>4. 2 * f \in Int /\ 2 * g \in Int /\ 2 * f <= 2 * g
  OBVIOUS
<1>5. 2 * f * RateDen <= 2 * g * RateDen /\ 2 * f * RateDen \in Int /\ 2 * g * RateDen \in Int
  BY <1>1, <1>4, TranscoderAssumption
<1>6. 2 * f * RateDen * R <= 2 * g * RateDen * R
      /\ 2 * f * RateDen * R \in Int /\ 2 * g * RateDen * R \in Int
  BY <1>1, <1>5
<1>7. \A x, y, z \in Int : x <= y => x + z <= y + z /\ x + z \in Int /\ y + z \in Int
  OBVIOUS
<1>8. RateNum \in Int /\ 2 * RateNum \in Nat \ {0}
  BY TranscoderAssumption
<1>9. (2 * f * RateDen * R + RateNum) \div (2 * RateNum)
      <= (2 * g * RateDen * R + RateNum) \div (2 * RateNum)
  BY <1>2, <1>6, <1>7, <1>8
<1> QED
  BY <1>9 DEF Rescaled

LEMMA ShownInOrder ==
    ASSUME TypeOK, NEW f \in Nat, NEW g \in Nat, f <= g
    PROVE  Shown(f) <= Shown(g)
<1>1. firstPts \in Nat /\ fromFlush \in Nat
  BY TranscoderAssumption DEF TypeOK, DecoderType
<1>2. Time(f) <= Time(g)
  BY <1>1 DEF Time, SimplePts
<1>3. Time(f) \in Int /\ Time(g) \in Int
  BY ShownType
<1>4. FrameRate \in Nat
  BY IntRateType DEF FrameRate
<1> QED
  BY <1>2, <1>3, <1>4, RescaledInOrder DEF Shown

\* simple-transcode takes its origin from the first frame it gets, and notes the
\* first one of the flush, before there is a frame whose time they would change.
OriginInv ==
    program = "simple" =>
        /\ ~flushing => fromFlush = NoPts
        /\ firstPts = NoPts /\ fromFlush = NoPts =>
             \A e \in Encoders :
                 output[e] = <<>> /\ coding[e] = <<>> /\ taken[e] = <<>> /\ frameQ[e] = <<>>

LEMMA InitOrigin == Init => OriginInv
  BY DEF Init, OriginInv, NoPts

LEMMA EncoderOrigin ==
    ASSUME TypeOK, OriginInv, NEW d \in Encoders, EncoderStep(d), program = "simple"
    PROVE  OriginInv'
<1>1. UNCHANGED <<flushing, firstPts, fromFlush>>
  BY DEF EncoderStep, EncoderSetup, OpenOutput, FinishSetup, FrameRefused, PopFrame, FramesEnd,
     ConvertFails, SendFrame, SendFrameFails, WritePacket, PacketsDry, FlushPacket, FlushEnds,
     decoderVars, originVars
<1>2. ASSUME NEW e \in Encoders,
             output[e] = <<>>, coding[e] = <<>>, taken[e] = <<>>, frameQ[e] = <<>>
      PROVE  output'[e] = <<>> /\ coding'[e] = <<>> /\ taken'[e] = <<>> /\ frameQ'[e] = <<>>
  <2>1. CASE d # e
    BY ZenonT(40), <1>2, <2>1 DEF TypeOK, DecoderType, EncoderType, EncoderStep, EncoderSetup, OpenOutput,
       FinishSetup, FrameRefused, PopFrame, FramesEnd, ConvertFails, SendFrame, SendFrameFails,
       WritePacket, PacketsDry, FlushPacket, FlushEnds
  <2>2. CASE d = e
    <3>1. epc[d] # "encode"
      <4>1. taken[d] = <<>> /\ Len(<<>>) = 0
        BY <1>2, <2>2, EmptySeq
      <4>2. Len(taken[d]) = IF epc[d] = "encode" THEN 1 ELSE 0
        BY DEF TypeOK, EncoderType
      <4>3. ASSUME epc[d] = "encode" PROVE FALSE
        <5>1. Len(taken[d]) = 1 /\ Len(taken[d]) = 0
          BY Zenon, <4>1, <4>2, <4>3
        <5> QED
          BY <5>1
      <4> QED
        BY <4>3
    <3>2. frameQ[d] = <<>> /\ coding[d] = <<>>
      BY <1>2, <2>2
    <3>3. UNCHANGED <<output, coding, taken, frameQ>>
      BY <3>1, <3>2 DEF EncoderStep, EncoderSetup, OpenOutput, FinishSetup, FrameRefused, PopFrame, FramesEnd,
         ConvertFails, SendFrame, SendFrameFails, WritePacket, PacketsDry, FlushPacket, FlushEnds
    <3> QED
      BY <1>2, <3>3
  <2> QED
    BY <2>1, <2>2
<1> QED
  BY <1>1, <1>2 DEF OriginInv, NoPts

LEMMA StepOrigin ==
    ASSUME TypeOK, OriginInv, [Next]_vars
    PROVE  OriginInv'
<1>0. program' = program
  BY ProgramStays
<1> SUFFICES ASSUME program = "simple" PROVE OriginInv'
  BY <1>0 DEF OriginInv
<1>1. CASE MainStep \/ UNCHANGED vars
  <2>1. UNCHANGED <<flushing, firstPts, fromFlush, output, coding, taken, frameQ>>
    BY <1>1 DEF MainStep, InitializeDecoder, StartThreads, DecoderInitializes, JoinAndReport, vars,
       decoderVars, originVars, encoderVars
  <2> QED
    BY <2>1 DEF OriginInv, NoPts
<1>2. CASE ReceiveEnds
  <2>1. UNCHANGED <<flushing, firstPts, fromFlush, output, coding, taken, frameQ>>
    BY <1>2 DEF ReceiveEnds, originVars, encoderVars
  <2> QED
    BY <2>1 DEF OriginInv, NoPts
<1>3. CASE SimpleStep
  <2>1. UNCHANGED <<output, coding, taken>>
    BY <1>3 DEF SimpleStep, SimpleStart, SimpleReadVideo, SimpleReadOther, SimpleReadEnds,
       SimpleReceive, SimpleFinish, encoderVars
  <2>2. CASE SimpleReceive
    <3>1. Head(decoding) \in Frames /\ Head(decoding) # NoPts
      BY <2>2, TranscoderAssumption DEF SimpleReceive, TypeOK, DecoderType, Frames, NoPts
    <3>2. /\ firstPts' = IF ~flushing /\ firstPts = NoPts THEN Head(decoding) ELSE firstPts
          /\ fromFlush' = IF flushing /\ fromFlush = NoPts THEN Head(decoding) ELSE fromFlush
          /\ flushing' = flushing
      BY <2>2 DEF SimpleReceive
    <3> QED
      BY <3>1, <3>2 DEF OriginInv, NoPts
  <2>3. CASE ~SimpleReceive
    <3>1. UNCHANGED <<firstPts, fromFlush, frameQ>> /\ (flushing => flushing')
      BY <1>3, <2>3 DEF TypeOK, DecoderType, SimpleStep, SimpleStart, SimpleReadVideo, SimpleReadOther,
         SimpleReadEnds, SimpleFinish, decoderVars, originVars
    <3> QED
      BY <2>1, <3>1 DEF OriginInv, NoPts
  <2> QED
    BY <2>2, <2>3
<1>4. ASSUME NEW d \in Encoders, Encoder(d) PROVE OriginInv'
  BY <1>4, EncoderIsStamped, StampedIsShared, EncoderOrigin
<1> QED
  BY <1>1, <1>2, <1>3, <1>4, MainIsShared, SourceStarts DEF Next, Terminated, MainStep

\* Where the members of two stages are when the stages are put together.
LEMMA FirstMember ==
    ASSUME NEW s \in Seq(Frames), NEW t \in Seq(Frames), NEW i \in 1..Len(s)
    PROVE  i \in 1..Len(s \o t) /\ (s \o t)[i] = s[i]
  BY ConcatProperties, LenProperties

LEMMA NextMember ==
    ASSUME NEW s \in Seq(Frames), NEW t \in Seq(Frames), NEW i \in 1..Len(t)
    PROVE  Len(s) + i \in 1..Len(s \o t) /\ (s \o t)[Len(s) + i] = t[i]
<1>1. Len(s) \in Nat /\ Len(t) \in Nat /\ Len(s) + i \in 1..(Len(s) + Len(t))
      /\ ~(Len(s) + i <= Len(s)) /\ (Len(s) + i) - Len(s) = i
  BY LenProperties
<1> QED
  BY <1>1, ConcatProperties

\* What left the decoder is older than what is in it.
LEMMA OlderThanDecoding ==
    ASSUME TypeOK, NEW e \in Encoders, StreamKept(e), decoding # <<>>
    PROVE  /\ \A i \in 1..Len(output[e]) : output[e][i] < Head(decoding)
           /\ \A i \in 1..Len(coding[e]) : coding[e][i] < Head(decoding)
<1> DEFINE whole == output[e] \o Pipe(e)
<1>1. Increasing(whole) /\ Len(output[e]) \in Nat /\ Len(Front4(e)) \in Nat
  BY FrontTypes, StageTypes, LenProperties DEF StreamKept, StreamOK, OrderedBelow
<1>0. \A i, a, b \in Nat : (i <= a => i < a + (b + 1)) /\ (i <= b => a + i < a + (b + 1))
  OBVIOUS
<1>2. 1 \in 1..Len(decoding) /\ Head(decoding) = decoding[1]
  BY StageTypes
<1>3. /\ Len(Front4(e)) + 1 \in 1..Len(Front5(e))
      /\ Front5(e)[Len(Front4(e)) + 1] = Head(decoding)
  BY <1>2, FrontTypes, StageTypes, NextMember DEF Front5
<1>4. /\ Len(Front4(e)) + 1 \in 1..Len(Pipe(e))
      /\ Pipe(e)[Len(Front4(e)) + 1] = Head(decoding)
  BY <1>3, FrontTypes, StageTypes, FirstMember
<1>5. /\ Len(output[e]) + (Len(Front4(e)) + 1) \in 1..Len(whole)
      /\ whole[Len(output[e]) + (Len(Front4(e)) + 1)] = Head(decoding)
  BY <1>4, FrontTypes, StageTypes, NextMember
<1>6. ASSUME NEW i \in 1..Len(output[e]) PROVE output[e][i] < Head(decoding)
  <2>1. i \in 1..Len(whole) /\ whole[i] = output[e][i]
    BY FrontTypes, StageTypes, FirstMember
  <2>2. i < Len(output[e]) + (Len(Front4(e)) + 1)
    <3>1. i \in Nat /\ i <= Len(output[e]) /\ Len(output[e]) \in Nat /\ Len(Front4(e)) \in Nat
      BY StageTypes, FrontTypes, LenProperties
    <3> QED
      BY Zenon, <1>0, <3>1
  <2> QED
    BY <1>1, <1>5, <2>1, <2>2 DEF Increasing
<1>7. ASSUME NEW i \in 1..Len(coding[e]) PROVE coding[e][i] < Head(decoding)
  <2>1. i \in 1..Len(Front2(e)) /\ Front2(e)[i] = coding[e][i]
    BY StageTypes, FirstMember DEF Front2
  <2>2. i \in 1..Len(Front3(e)) /\ Front3(e)[i] = coding[e][i]
    BY <2>1, FrontTypes, StageTypes, FirstMember DEF Front3
  <2>3. i \in 1..Len(Front4(e)) /\ Front4(e)[i] = coding[e][i]
    BY <2>2, FrontTypes, StageTypes, FirstMember DEF Front4
  <2>4. i \in 1..Len(Front5(e)) /\ Front5(e)[i] = coding[e][i]
    BY <2>3, FrontTypes, StageTypes, FirstMember DEF Front5
  <2>5. i \in 1..Len(Pipe(e)) /\ Pipe(e)[i] = coding[e][i]
    BY <2>4, FrontTypes, StageTypes, FirstMember
  <2>6. Len(output[e]) + i \in 1..Len(whole) /\ whole[Len(output[e]) + i] = coding[e][i]
    BY <2>5, FrontTypes, StageTypes, NextMember
  <2>7. Len(output[e]) + i < Len(output[e]) + (Len(Front4(e)) + 1)
    <3>1. i \in Nat /\ i <= Len(Front4(e)) /\ Len(output[e]) \in Nat /\ Len(Front4(e)) \in Nat
      BY <2>3, StageTypes, FrontTypes, LenProperties
    <3> QED
      BY Zenon, <1>0, <3>1
  <2> QED
    BY <1>1, <1>5, <2>6, <2>7 DEF Increasing
<1> QED
  BY <1>6, <1>7

\* The time of a frame that left the decoder does not change any more.
Left(e, f) ==
    \/ \E i \in 1..Len(output[e]) : f = output[e][i]
    \/ \E i \in 1..Len(coding[e]) : f = coding[e][i]

LEMMA ShownStays ==
    ASSUME UNCHANGED <<program, firstPts, fromFlush>>
    PROVE  \A f : Shown(f)' = Shown(f)
  BY DEF Shown, Time, SimplePts, FrameRate, Rescaled, IntRate

LEMMA TimeStays ==
    ASSUME TypeOK, NEW e \in Encoders, StreamKept(e), OriginInv, [Next]_vars, NEW f, Left(e, f)
    PROVE  Shown(f)' = Shown(f)
<1>0. program' = program
  BY ProgramStays
<1>1. CASE UNCHANGED <<firstPts, fromFlush>>
  BY <1>0, <1>1, ShownStays
<1>2. CASE program = "simple" /\ SimpleReceive
  <2>1. /\ decoding # <<>> /\ flushing \in BOOLEAN
        /\ firstPts' = IF ~flushing /\ firstPts = NoPts THEN Head(decoding) ELSE firstPts
        /\ fromFlush' = IF flushing /\ fromFlush = NoPts THEN Head(decoding) ELSE fromFlush
    BY <1>2 DEF SimpleReceive, TypeOK, DecoderType
  <2>2. f \in Frames
    BY StageTypes, ElementOfSeq DEF Left
  <2>3. ~(firstPts = NoPts /\ fromFlush = NoPts)
    BY <1>2, EmptySeq DEF OriginInv, Left
  <2>4. f < Head(decoding)
    BY <2>1, OlderThanDecoding DEF Left
  <2>5. CASE ~flushing
    BY <1>1, <1>2, <2>1, <2>3, <2>5 DEF OriginInv
  <2>6. CASE flushing /\ fromFlush = NoPts
    <3>1. firstPts' = firstPts /\ f < fromFlush /\ f < fromFlush'
      BY <2>1, <2>2, <2>4, <2>6, TranscoderAssumption DEF NoPts, Frames
    <3>2. Time(f)' = Time(f)
      BY <1>0, <1>2, <3>1 DEF Time, SimplePts
    <3> QED
      BY <1>0, <3>2 DEF Shown, FrameRate, Rescaled, IntRate
  <2>7. CASE flushing /\ fromFlush # NoPts
    BY <1>1, <2>1, <2>7
  <2> QED
    BY <2>1, <2>5, <2>6, <2>7
<1>3. CASE MainStep \/ Reader \/ UNCHANGED vars \/ DecoderStep \/ (SimpleStep /\ ~SimpleReceive)
           \/ \E d \in Encoders : EncoderStep(d)
  <2>1. UNCHANGED <<firstPts, fromFlush>>
    BY <1>3 DEF MainStep, InitializeDecoder, StartThreads, DecoderInitializes, JoinAndReport, vars,
       Reader, ReaderStart, ReadVideoPacket, ReadOtherPacket, ReadEnds, ReaderFinishes, DecoderStep,
       DecoderStart, PopPacket, PacketsEnd, ReceiveFrame, ReceiveEnds, DeliverFrame, FinishQueue,
       SimpleStep, SimpleStart, SimpleReadVideo, SimpleReadOther, SimpleReadEnds, SimpleFinish,
       EncoderStep, EncoderSetup, OpenOutput, FinishSetup, FrameRefused, PopFrame, FramesEnd,
       ConvertFails, SendFrame, SendFrameFails, WritePacket, PacketsDry, FlushPacket, FlushEnds,
       decoderVars, originVars
  <2> QED
    BY <1>1, <2>1
<1> QED
  BY <1>2, <1>3, StepIsShared

\* In the programs that count: the count has passed every timestamp, and until the
\* flush, which stamps with the count itself, packets keep their frames' stamps.
CountsUp(e) ==
    program \in Counting =>
        /\ UpTo(stamps[e], frameCount[e])
        /\ epc[e] \notin {"flush", "done"} => UpTo(stamps[e] \o codingPts[e], frameCount[e])

\* In the others: every packet carries the time its own frame is shown at.
ShowsTime(e) ==
    program \notin Counting =>
        /\ Len(stamps[e]) = Len(output[e])
        /\ \A i \in 1..Len(output[e]) : stamps[e][i] = Shown(output[e][i])
        /\ \A i \in 1..Len(coding[e]) : codingPts[e][i] = Shown(coding[e][i])

StampsInv == \A e \in Encoders : CountsUp(e) /\ ShowsTime(e)

LEMMA InitStamps == Init => StampsInv
<1> SUFFICES ASSUME Init, NEW e \in Encoders PROVE CountsUp(e) /\ ShowsTime(e)
  BY DEF StampsInv
<1>1. stamps[e] = <<>> /\ codingPts[e] = <<>> /\ output[e] = <<>> /\ coding[e] = <<>>
  BY DEF Init
<1>2. <<>> \o <<>> = <<>> /\ Len(<<>>) = 0
  BY ConcatEmptySeq, EmptySeq
<1> QED
  BY <1>1, <1>2 DEF CountsUp, ShowsTime, UpTo, NonDecreasing

\* The variables the timestamps of an output depend on.
StampVars(e) == <<program, epc[e], coding[e], codingPts[e], frameCount[e], output[e], stamps[e]>>

LEMMA StampsKept ==
    ASSUME NEW e \in Encoders, CountsUp(e), ShowsTime(e), UNCHANGED StampVars(e),
           \A f : Left(e, f) => Shown(f)' = Shown(f)
    PROVE  (CountsUp(e) /\ ShowsTime(e))'
<1>1. UNCHANGED <<program, epc[e], coding[e], codingPts[e], frameCount[e], output[e], stamps[e]>>
  BY DEF StampVars
<1>2. CountsUp(e)'
  BY <1>1 DEF CountsUp
<1>3. ASSUME program \notin Counting PROVE ShowsTime(e)'
  <2>1. /\ Len(stamps[e]) = Len(output[e])
        /\ \A i \in 1..Len(output[e]) : stamps[e][i] = Shown(output[e][i])
        /\ \A i \in 1..Len(coding[e]) : codingPts[e][i] = Shown(coding[e][i])
    BY <1>3 DEF ShowsTime
  <2>2. ASSUME NEW i \in 1..Len(output'[e]) PROVE stamps'[e][i] = Shown(output[e][i])'
    <3>1. PICK f : f = output[e][i]
      OBVIOUS
    <3>2. Shown(f)' = Shown(f)
      BY <1>1, <3>1 DEF Left
    <3>3. Shown(output[e][i])' = Shown(f)'
      BY <1>1, <3>1 DEF Shown, Time, SimplePts, Rescaled
    <3> QED
      BY <1>1, <2>1, <3>1, <3>2, <3>3
  <2>3. ASSUME NEW i \in 1..Len(coding'[e]) PROVE codingPts'[e][i] = Shown(coding[e][i])'
    <3>1. PICK f : f = coding[e][i]
      OBVIOUS
    <3>2. Shown(f)' = Shown(f)
      BY <1>1, <3>1 DEF Left
    <3>3. Shown(coding[e][i])' = Shown(f)'
      BY <1>1, <3>1 DEF Shown, Time, SimplePts, Rescaled
    <3> QED
      BY <1>1, <2>1, <3>1, <3>2, <3>3
  <2> QED
    BY <1>1, <2>1, <2>2, <2>3 DEF ShowsTime
<1> QED
  BY <1>1, <1>2, <1>3 DEF ShowsTime

LEMMA OtherStamps ==
    ASSUME TypeOK, [Next]_vars, NEW e \in Encoders,
           ~ \E d \in Encoders : d = e /\ EncoderStep(d) /\ StampedStep(d)
    PROVE  UNCHANGED StampVars(e)
<1>0. program' = program
  BY ProgramStays
<1>1. CASE MainStep \/ Reader \/ DecoderStep \/ SimpleStep \/ UNCHANGED vars
  <2>1. UNCHANGED encoderVars
    BY <1>1 DEF MainStep, InitializeDecoder, StartThreads, DecoderInitializes, JoinAndReport,
     Reader, ReaderStart, ReadVideoPacket, ReadOtherPacket, ReadEnds, ReaderFinishes, vars,
     DecoderStep, DecoderStart, PopPacket, PacketsEnd, ReceiveFrame, ReceiveEnds, DeliverFrame,
     FinishQueue, SimpleStep, SimpleStart, SimpleReadVideo, SimpleReadOther, SimpleReadEnds,
     SimpleReceive, SimpleFinish
  <2> QED
    BY <1>0, <2>1 DEF encoderVars, StampVars
<1>2. ASSUME NEW d \in Encoders, d # e, EncoderStep(d) PROVE UNCHANGED StampVars(e)
  BY <1>0, <1>2 DEF StampVars, TypeOK, EncoderType, EncoderStep, EncoderSetup, OpenOutput, FinishSetup,
     FrameRefused, PopFrame, FramesEnd, ConvertFails, SendFrame, SendFrameFails, WritePacket,
     PacketsDry, FlushPacket, FlushEnds
<1> QED
  BY <1>1, <1>2, StepIsShared

LEMMA CountingSteps ==
    ASSUME TypeOK, NEW e \in Encoders, program \in Counting, program' = program,
           StampedStep(e), CountsUp(e)
    PROVE  CountsUp(e)'
<1> SUFFICES /\ UpTo(stamps'[e], frameCount'[e])
             /\ epc'[e] \notin {"flush", "done"} => UpTo(stamps'[e] \o codingPts'[e], frameCount'[e])
  BY DEF CountsUp
<1> USE DEF EncoderType
<1>0. /\ UpTo(stamps[e], frameCount[e])
      /\ epc[e] \notin {"flush", "done"} => UpTo(stamps[e] \o codingPts[e], frameCount[e])
      /\ stamps[e] \in Seq(Int) /\ codingPts[e] \in Seq(Int) /\ frameCount[e] \in Nat
      /\ stamps[e] \o codingPts[e] \in Seq(Int) /\ frameCount[e] \in Int
  BY ConcatProperties DEF CountsUp, TypeOK
<1>1. CASE \/ EncoderSetup(e) \/ OpenOutput(e) \/ FinishSetup(e) \/ PopFrame(e) \/ FramesEnd(e)
           \/ ConvertFails(e) \/ FlushEnds(e) \/ SendFrameFails(e)
  <2>1. UNCHANGED <<codingPts, frameCount, stamps>>
        /\ (epc[e] \in {"flush", "done"} => epc'[e] \in {"flush", "done"})
    BY <1>1 DEF TypeOK, EncoderSetup, OpenOutput, FinishSetup, PopFrame, FramesEnd, ConvertFails,
       FlushEnds, SendFrameFails
  <2> QED
    BY <2>1, <1>0
<1>2. CASE FrameRefused(e) \/ \E step \in Nat : PacketsDry(e, step)
  <2>1. /\ UNCHANGED <<codingPts, stamps>> /\ epc[e] \notin {"flush", "done"}
        /\ \E step \in Nat : frameCount'[e] = frameCount[e] + step
    BY <1>2 DEF TypeOK, FrameRefused, PacketsDry
  <2>2. frameCount'[e] \in Int /\ frameCount[e] <= frameCount'[e]
    BY <2>1, <1>0
  <2> QED
    BY <2>1, <2>2, <1>0, UpToGrows
<1>3. CASE SendFrame(e, FrameStamp(e))
  <2>1. /\ codingPts'[e] = Append(codingPts[e], frameCount[e])
        /\ UNCHANGED <<frameCount, stamps>> /\ epc[e] = "encode"
    BY <1>3 DEF TypeOK, SendFrame, FrameStamp, Counted
  <2>2. stamps[e] \o Append(codingPts[e], frameCount[e]) = Append(stamps[e] \o codingPts[e], frameCount[e])
    <3>1. \A s, t \in Seq(Int), x \in Int : s \o Append(t, x) = Append(s \o t, x)
      BY AppendConcat
    <3> QED
      BY <1>0, <3>1
  <2>3. UpTo(Append(stamps[e] \o codingPts[e], frameCount[e]), frameCount[e])
    BY <1>0, <2>1, UpToAppend
  <2> QED
    BY <2>1, <2>2, <2>3, <1>0
<1>4. CASE \E numbered \in BOOLEAN, step \in Nat : WritePacket(e, numbered, step)
  <2>1. /\ codingPts[e] # <<>> /\ codingPts'[e] = Tail(codingPts[e]) /\ epc[e] = "receive"
        /\ \/ stamps'[e] = Append(stamps[e], Head(codingPts[e])) /\ frameCount'[e] = frameCount[e]
           \/ stamps'[e] = stamps[e] /\ \E step \in Nat : frameCount'[e] = frameCount[e] + step
    <3>1. PICK numbered \in BOOLEAN, step \in Nat : WritePacket(e, numbered, step)
      BY <1>4
    <3>2. coding[e] # <<>> /\ codingPts' = [codingPts EXCEPT ![e] = Tail(@)] /\ epc[e] = "receive"
      BY <3>1 DEF WritePacket
    <3>3. codingPts[e] # <<>>
      BY <3>2 DEF TypeOK
    <3>4. \/ stamps'[e] = Append(stamps[e], Head(codingPts[e])) /\ frameCount'[e] = frameCount[e]
          \/ stamps'[e] = stamps[e] /\ frameCount'[e] = frameCount[e] + step
      BY <3>1 DEF TypeOK, WritePacket
    <3> QED
      BY <3>2, <3>3, <3>4 DEF TypeOK
  <2>2. CASE stamps'[e] = Append(stamps[e], Head(codingPts[e])) /\ frameCount'[e] = frameCount[e]
    <3>1. UpTo(Append(stamps[e], Head(codingPts[e])) \o Tail(codingPts[e]), frameCount[e])
      BY <1>0, <2>1, UpToMoves
    <3>2. Append(stamps[e], Head(codingPts[e])) \in Seq(Int) /\ Tail(codingPts[e]) \in Seq(Int)
      BY <1>0, <2>1, AppendProperties
    <3>3. UpTo(Append(stamps[e], Head(codingPts[e])), frameCount[e])
      BY <1>0, <3>1, <3>2, UpToFirst
    <3> QED
      BY <2>1, <2>2, <3>1, <3>3
  <2>3. CASE stamps'[e] = stamps[e] /\ \E step \in Nat : frameCount'[e] = frameCount[e] + step
    <3>1. frameCount'[e] \in Int /\ frameCount[e] <= frameCount'[e]
      BY <2>3, <1>0
    <3>2. UpTo(stamps[e] \o Tail(codingPts[e]), frameCount[e])
      BY <1>0, <2>1, UpToDrops
    <3>3. stamps[e] \o Tail(codingPts[e]) \in Seq(Int)
      <4>1. Tail(codingPts[e]) \in Seq(Int)
        BY <1>0, <2>1
      <4> QED
        BY <1>0, <4>1, ConcatProperties
    <3> QED
      BY <2>1, <2>3, <3>1, <3>2, <3>3, <1>0, UpToGrows
  <2> QED
    BY <2>1, <2>2, <2>3
<1>5. CASE FlushPacket(e, FlushStamp(e))
  <2>1. /\ frameCount' = frameCount /\ epc'[e] \in {"flush", "done"}
        /\ stamps'[e] \in {stamps[e], Append(stamps[e], frameCount[e])}
    BY <1>5 DEF TypeOK, FlushPacket, FlushStamp
  <2>2. UpTo(Append(stamps[e], frameCount[e]), frameCount[e])
    BY <1>0, UpToAppend
  <2> QED
    BY <2>1, <2>2, <1>0
<1> QED
  BY <1>1, <1>2, <1>3, <1>4, <1>5 DEF StampedStep

LEMMA ShowingSteps ==
    ASSUME TypeOK, NEW e \in Encoders, program \notin Counting, program' = program,
           StampedStep(e), ShowsTime(e)
    PROVE  ShowsTime(e)'
<1>s. \A f : Shown(f)' = Shown(f)
  <2>1. UNCHANGED <<firstPts, fromFlush>>
    BY DEF StampedStep, EncoderSetup, OpenOutput, FinishSetup, FrameRefused, PopFrame, FramesEnd,
       ConvertFails, SendFrame, SendFrameFails, WritePacket, PacketsDry, FlushPacket, FlushEnds,
       decoderVars, originVars
  <2> QED
    BY <2>1, ShownStays
<1> SUFFICES /\ Len(stamps'[e]) = Len(output'[e])
             /\ \A i \in 1..Len(output'[e]) : stamps'[e][i] = Shown(output'[e][i])
             /\ \A i \in 1..Len(coding'[e]) : codingPts'[e][i] = Shown(coding'[e][i])
  <2>1. /\ \A i : Shown(output[e][i])' = Shown(output'[e][i])
        /\ \A i : Shown(coding[e][i])' = Shown(coding'[e][i])
    BY <1>s DEF Shown, Time, SimplePts, Rescaled
  <2> QED
    BY <2>1 DEF ShowsTime
<1> USE DEF EncoderType
<1>0. /\ Len(stamps[e]) = Len(output[e]) /\ Len(codingPts[e]) = Len(coding[e])
      /\ \A i \in 1..Len(output[e]) : stamps[e][i] = Shown(output[e][i])
      /\ \A i \in 1..Len(coding[e]) : codingPts[e][i] = Shown(coding[e][i])
      /\ stamps[e] \in Seq(Int) /\ codingPts[e] \in Seq(Int)
      /\ output[e] \in Seq(Frames) /\ coding[e] \in Seq(Frames)
  BY DEF ShowsTime, TypeOK
<1>1. CASE UNCHANGED <<coding, codingPts, output, stamps>>
  BY <1>0, <1>1
<1>2. CASE SendFrame(e, FrameStamp(e))
  <2>1. /\ coding'[e] = coding[e] \o taken[e] /\ UNCHANGED <<output, stamps>>
        /\ codingPts'[e] = Append(codingPts[e], Shown(Head(taken[e])))
        /\ epc[e] = "encode"
    BY <1>2 DEF TypeOK, SendFrame, FrameStamp
  <2>2. taken[e] \in Seq(Frames) /\ Len(taken[e]) = 1
    BY <2>1 DEF TypeOK
  <2>3. Head(taken[e]) = taken[e][1]
    BY <2>2
  <2>4. /\ Len(coding[e] \o taken[e]) = Len(coding[e]) + 1
        /\ \A i \in 1..(Len(coding[e]) + 1) :
             (coding[e] \o taken[e])[i] = IF i <= Len(coding[e]) THEN coding[e][i]
                                          ELSE taken[e][i - Len(coding[e])]
    <3>1. \A s, t \in Seq(Frames) :
            /\ Len(s \o t) = Len(s) + Len(t)
            /\ \A i \in 1..(Len(s) + Len(t)) : (s \o t)[i] = IF i <= Len(s) THEN s[i] ELSE t[i - Len(s)]
      BY ConcatProperties
    <3> QED
      BY ZenonT(40), <1>0, <2>2, <3>1
  <2>5. Len(coding[e]) \in Nat
    BY <1>0, LenProperties
  <2>6. /\ codingPts'[e][Len(coding[e]) + 1] = Shown(Head(taken[e]))
        /\ \A i \in 1..Len(coding[e]) : codingPts'[e][i] = codingPts[e][i]
    <3>1. \A s \in Seq(Int) : \A x :
            Append(s, x)[Len(s) + 1] = x /\ \A i \in 1..Len(s) : Append(s, x)[i] = s[i]
      OBVIOUS
    <3> QED
      BY <1>0, <2>1, <3>1
  <2>7. ASSUME NEW i \in 1..(Len(coding[e]) + 1)
        PROVE  codingPts'[e][i] = Shown(coding'[e][i])
    <3>1. CASE i \in 1..Len(coding[e])
      <4>1. coding'[e][i] = coding[e][i]
        <5>1. i \in 1..(Len(coding[e]) + 1) /\ i <= Len(coding[e])
          BY <2>5, <3>1
        <5> QED
          BY <2>1, <2>4, <5>1
      <4> QED
        BY <1>0, <2>6, <3>1, <4>1
    <3>2. CASE i = Len(coding[e]) + 1
      <4>1. coding'[e][i] = Head(taken[e])
        <5>1. i \in 1..(Len(coding[e]) + 1) /\ ~(i <= Len(coding[e])) /\ i - Len(coding[e]) = 1
          BY <2>5, <3>2
        <5> QED
          BY <2>1, <2>3, <2>4, <5>1
      <4>2. codingPts'[e][i] = Shown(Head(taken[e]))
        BY <2>6, <3>2
      <4> QED
        BY <4>1, <4>2
    <3> QED
      BY <2>5, <3>1, <3>2
  <2> QED
    BY <1>0, <2>1, <2>4, <2>7
<1>3. CASE \/ \E numbered \in BOOLEAN, step \in Nat : WritePacket(e, numbered, step)
           \/ FlushPacket(e, FlushStamp(e))
  <2>1. /\ coding[e] # <<>> /\ coding'[e] = Tail(coding[e]) /\ codingPts'[e] = Tail(codingPts[e])
        /\ \/ /\ output'[e] = Append(output[e], Head(coding[e]))
              /\ stamps'[e] = Append(stamps[e], Head(codingPts[e]))
           \/ output'[e] = output[e] /\ stamps'[e] = stamps[e]
    BY <1>3 DEF TypeOK, WritePacket, FlushPacket, FlushStamp, CodecStamp
  <2>2. /\ Len(coding[e]) \in Nat /\ Len(coding[e]) >= 1 /\ codingPts[e] # <<>>
        /\ Head(coding[e]) = coding[e][1] /\ Head(codingPts[e]) = codingPts[e][1]
    BY <1>0, <2>1
  <2>3. Head(codingPts[e]) = Shown(Head(coding[e]))
    BY <1>0, <2>2
  <2>4. Len(Tail(coding[e])) = Len(coding[e]) - 1
        /\ \A i \in 1..(Len(coding[e]) - 1) :
             Tail(coding[e])[i] = coding[e][i + 1] /\ Tail(codingPts[e])[i] = codingPts[e][i + 1]
    BY <1>0, <2>1, <2>2
  <2>5. ASSUME NEW i \in 1..Len(coding'[e]) PROVE codingPts'[e][i] = Shown(coding'[e][i])
    <3>1. i \in 1..(Len(coding[e]) - 1) /\ i + 1 \in 1..Len(coding[e])
      BY <2>1, <2>2, <2>4
    <3>2. coding'[e][i] = coding[e][i + 1] /\ codingPts'[e][i] = codingPts[e][i + 1]
      BY <2>1, <2>4, <3>1
    <3>3. codingPts[e][i + 1] = Shown(coding[e][i + 1])
      BY <1>0, <3>1
    <3> QED
      BY <3>2, <3>3
  <2>6. CASE output'[e] = output[e] /\ stamps'[e] = stamps[e]
    BY <1>0, <2>5, <2>6
  <2>7. CASE /\ output'[e] = Append(output[e], Head(coding[e]))
             /\ stamps'[e] = Append(stamps[e], Head(codingPts[e]))
    <3>1. Len(output[e]) \in Nat /\ Len(output'[e]) = Len(output[e]) + 1 /\ Len(stamps'[e]) = Len(output[e]) + 1
          /\ output'[e][Len(output[e]) + 1] = Head(coding[e])
          /\ stamps'[e][Len(output[e]) + 1] = Head(codingPts[e])
          /\ \A i \in 1..Len(output[e]) : output'[e][i] = output[e][i] /\ stamps'[e][i] = stamps[e][i]
      BY <1>0, <2>7
    <3>2. ASSUME NEW i \in 1..Len(output'[e]) PROVE stamps'[e][i] = Shown(output'[e][i])
      BY <1>0, <2>3, <3>1
    <3> QED
      BY <2>5, <3>1, <3>2
  <2> QED
    BY <2>1, <2>6, <2>7
<1>4. CASE \/ EncoderSetup(e) \/ OpenOutput(e) \/ FinishSetup(e) \/ PopFrame(e) \/ FramesEnd(e)
           \/ ConvertFails(e) \/ FrameRefused(e) \/ FlushEnds(e) \/ SendFrameFails(e)
           \/ \E step \in Nat : PacketsDry(e, step)
  BY <1>1, <1>4 DEF EncoderSetup, OpenOutput, FinishSetup, PopFrame, FramesEnd, ConvertFails,
     FrameRefused, FlushEnds, SendFrameFails, PacketsDry
<1> QED
  BY <1>2, <1>3, <1>4 DEF StampedStep

LEMMA StepStamps ==
    ASSUME TypeOK, StreamInv, OriginInv, StampsInv, [Next]_vars
    PROVE  StampsInv'
<1> SUFFICES ASSUME NEW e \in Encoders PROVE (CountsUp(e) /\ ShowsTime(e))'
  BY DEF StampsInv
<1>0. CountsUp(e) /\ ShowsTime(e)
  BY DEF StampsInv
<1>1. program' = program
  BY ProgramStays
<1>2. CASE StampedStep(e)
  <2>1. CASE program \in Counting
    <3>1. ShowsTime(e)'
      BY <1>1, <2>1 DEF ShowsTime
    <3> QED
      BY <1>0, <1>1, <1>2, <2>1, <3>1, CountingSteps
  <2>2. CASE program \notin Counting
    <3>1. CountsUp(e)'
      BY <1>1, <2>2 DEF CountsUp
    <3> QED
      BY <1>0, <1>1, <1>2, <2>2, <3>1, ShowingSteps
  <2> QED
    BY <2>1, <2>2
<1>3. CASE ~StampedStep(e)
  <2>1. UNCHANGED StampVars(e)
    BY <1>3, OtherStamps
  <2>2. \A f : Left(e, f) => Shown(f)' = Shown(f)
    BY TimeStays DEF StreamInv
  <2> QED
    BY <1>0, <2>1, <2>2, StampsKept
<1> QED
  BY <1>2, <1>3

\* Timestamps never go backwards on the wire, whether they are counted or rescaled
\* from the frames, whatever is lost on the way and through the flush.
THEOREM TranscoderStamps == Spec => []StampsNeverDecrease
<1>1. TypeOK /\ StreamInv /\ StampsInv => StampsNeverDecrease
  <2> SUFFICES ASSUME TypeOK, StreamInv, StampsInv, NEW e \in Encoders,
                      NEW i \in DOMAIN stamps[e], NEW j \in DOMAIN stamps[e], i < j
               PROVE  stamps[e][i] <= stamps[e][j]
    BY DEF StampsNeverDecrease
  <2>1. CountsUp(e) /\ ShowsTime(e) /\ StreamKept(e)
    BY DEF StampsInv, StreamInv
  <2>2. stamps[e] \in Seq(Int) /\ i \in 1..Len(stamps[e]) /\ j \in 1..Len(stamps[e])
    BY DEF TypeOK, EncoderType
  <2>3. CASE program \in Counting
    BY <2>1, <2>2, <2>3 DEF CountsUp, UpTo, NonDecreasing
  <2>4. CASE program \notin Counting
    <3>1. Len(stamps[e]) = Len(output[e]) /\ stamps[e][i] = Shown(output[e][i])
          /\ stamps[e][j] = Shown(output[e][j])
      BY <2>1, <2>2, <2>4 DEF ShowsTime
    <3>2. output[e] \in Seq(Nat) /\ Pipe(e) \in Seq(Nat) /\ OrderedBelow(output[e] \o Pipe(e), requestCount)
      BY <2>1 DEF StreamKept, StreamOK
    <3>3. output[e][i] \in Nat /\ output[e][j] \in Nat
      BY <2>2, <3>1, <3>2, ElementOfSeq
    <3>4. output[e][i] < output[e][j]
      <4>1. /\ Len(output[e] \o Pipe(e)) = Len(output[e]) + Len(Pipe(e))
            /\ Len(output[e]) \in Nat /\ Len(Pipe(e)) \in Nat
            /\ \A k \in 1..(Len(output[e]) + Len(Pipe(e))) :
                 (output[e] \o Pipe(e))[k] = IF k <= Len(output[e]) THEN output[e][k]
                                             ELSE Pipe(e)[k - Len(output[e])]
        BY <3>2, ConcatProperties, LenProperties
      <4>2. \A k \in 1..Len(output[e]) :
               k \in 1..Len(output[e] \o Pipe(e)) /\ (output[e] \o Pipe(e))[k] = output[e][k]
        BY <4>1
      <4> QED
        BY <2>2, <3>1, <3>2, <4>2 DEF OrderedBelow, Increasing
    <3> QED
      BY <3>1, <3>3, <3>4, ShownInOrder
  <2> QED
    BY <2>3, <2>4
<1> QED
  BY <1>1, InitStamps, StepStamps, InitOrigin, StepOrigin, InitStreamInv, StepStreamInv, TranscoderType,
     PTL DEF Spec

-----------------------------------------------------------------------------
(* Nobody waits for a thread that has returned *)

\* Only a program that makes its decoder late has threads without a decoder; those
\* that read and decode start together or not at all.
StartedInv ==
    /\ mpc = "init" => rpc = "alloc" /\ dpc = "alloc" /\ \A e \in Encoders : epc[e] = "setup"
    /\ mpc = "exit" => rpc = "alloc" /\ dpc = "alloc" /\ \A e \in Encoders : epc[e] = "setup"
    /\ mpc \in {"join", "success", "errors"} => initialized \/ program \in LateInit
    /\ ~initialized => \/ rpc = "alloc" /\ dpc = "alloc"
                       \/ rpc = "done" /\ dpc = "done"
    /\ \A e \in Encoders \ Outputs : epc[e] = "setup"

\* A thread that returned told those it feeds: the reader its queue, the decoder the
\* queue of every output, one after the other.
ToldInv ==
    /\ program # "simple" /\ rpc = "done" => packetsDone \/ (~initialized /\ dpc = "done")
    /\ program = "simple" /\ dpc # "alloc" => rpc = "done"
    /\ dpc = "alloc" => nextEnc = 1
    /\ dpc = "close" => \A e \in Encoders : e < nextEnc => finished[e]
    /\ dpc = "done" /\ program # "simple" => \A e \in Encoders : finished[e]

\* Only the encoders of the program's outputs run.
LEMMA EncoderHasOutput == ASSUME NEW e \in Encoders, Encoder(e) PROVE e \in Outputs
  BY DEF Encoder, Outputs

LEMMA InitWaits == Init => StartedInv /\ ToldInv
  BY DEF Init, StartedInv, ToldInv, Outputs

LEMMA StepWaits ==
    ASSUME TypeOK, StartedInv, ToldInv, [Next]_vars
    PROVE  StartedInv' /\ ToldInv'
<1> USE TranscoderAssumption DEF StartedInv, ToldInv
<1>0. program' = program /\ Outputs' = Outputs
  BY ProgramStays DEF Outputs
<1>1. CASE InitializeDecoder \/ (program \in LateInit /\ StartThreads) \/ JoinAndReport(Outputs)
  <2>1. UNCHANGED <<rpc, packetsDone, dpc, nextEnc, finished, epc>>
    BY <1>1 DEF InitializeDecoder, StartThreads, JoinAndReport, readerVars, decoderVars, encoderVars
  <2>2. StartedInv'
    BY <1>0, <1>1, <2>1 DEF InitializeDecoder, StartThreads, JoinAndReport
  <2>3. ~initialized' => ~initialized
    BY <1>1 DEF InitializeDecoder, StartThreads, JoinAndReport
  <2>4. dpc = "done" /\ ~initialized => ~initialized'
    BY <1>1 DEF InitializeDecoder, StartThreads, JoinAndReport
  <2>5. ToldInv'
    BY <1>0, <2>1, <2>3, <2>4
  <2> QED
    BY <2>2, <2>5
<1>2. CASE program \in LateInit /\ DecoderInitializes
  <2>1. /\ mpc = "join" /\ mpc' = "join" /\ rpc = "alloc" /\ dpc = "alloc" /\ ~initialized
        /\ UNCHANGED <<packetsDone, nextEnc, epc>>
    BY <1>2 DEF DecoderInitializes, encoderVars
  <2>2. program # "simple"
    BY <1>2 DEF LateInit
  <2>3. CASE initialized' = TRUE /\ UNCHANGED <<rpc, dpc, finished>>
    BY <1>0, <2>1, <2>2, <2>3
  <2>4. CASE finished' = [e \in Encoders |-> TRUE] /\ rpc' = "done" /\ dpc' = "done" /\ UNCHANGED initialized
    BY <1>0, <1>2, <2>1, <2>2, <2>4
  <2> QED
    BY <1>2, <2>3, <2>4 DEF DecoderInitializes
<1>3. CASE program # "simple" /\ Reader
  <2>1. UNCHANGED <<mpc, initialized, dpc, nextEnc, finished, epc>>
    BY <1>3 DEF Reader, ReaderStart, ReadVideoPacket, ReadOtherPacket, ReadEnds, ReaderFinishes,
       decoderVars, encoderVars, mainVars
  <2>2. /\ rpc # "done" /\ mpc \notin {"init", "exit"} /\ initialized
        /\ rpc' = "done" => packetsDone'
    BY <1>3 DEF Reader, ReaderStart, ReadVideoPacket, ReadOtherPacket, ReadEnds, ReaderFinishes
  <2> QED
    BY <1>0, <1>3, <2>1, <2>2
<1>4. CASE program # "simple" /\ DecoderStep
  <2>1. UNCHANGED <<mpc, initialized, rpc, packetsDone, epc>>
    BY <1>4 DEF DecoderStep, DecoderStart, PopPacket, PacketsEnd, ReceiveFrame, ReceiveEnds, DeliverFrame,
       FinishQueue, readerVars, encoderVars, mainVars
  <2>2. dpc # "done" /\ initialized /\ mpc \notin {"init", "exit"} /\ dpc' # "alloc"
    BY <1>4 DEF DecoderStep, DecoderStart, PopPacket, PacketsEnd, ReceiveFrame, ReceiveEnds, DeliverFrame,
       FinishQueue
  <2>3. CASE FinishQueue
    <3>1. /\ nextEnc \in 1..NumOutputs /\ dpc = "close" /\ nextEnc' = nextEnc + 1
          /\ \A e \in Encoders : e = nextEnc \/ finished[e] => finished'[e]
          /\ dpc' = IF nextEnc = NumOutputs THEN "done" ELSE "close"
      BY <2>3 DEF FinishQueue, TypeOK, DecoderType, Encoders
    <3>2. \A e \in Encoders : e < nextEnc + 1 => e = nextEnc \/ e < nextEnc
      BY <3>1 DEF Encoders
    <3>3. \A e \in Encoders : e < nextEnc + 1 => finished'[e]
      BY <3>1, <3>2
    <3>4. dpc' = "done" => \A e \in Encoders : e < nextEnc + 1
      BY <3>1 DEF Encoders
    <3> QED
      BY <1>0, <1>4, <2>1, <2>2, <3>1, <3>2, <3>3, <3>4
  <2>4. CASE DecoderStart \/ ReceiveEnds
    <3>1. nextEnc' = 1 /\ dpc' # "done" /\ finished' = finished
      BY <2>4 DEF DecoderStart, ReceiveEnds
    <3>2. \A e \in Encoders : ~(e < 1)
      BY DEF Encoders
    <3> QED
      BY <1>0, <1>4, <2>1, <2>2, <3>1, <3>2
  <2>5. CASE PopPacket \/ PacketsEnd \/ ReceiveFrame \/ DeliverFrame
    <3>1. dpc' \notin {"alloc", "close", "done"}
      BY <2>5 DEF PopPacket, PacketsEnd, ReceiveFrame, DeliverFrame
    <3> QED
      BY <1>0, <1>4, <2>1, <2>2, <3>1
  <2> QED
    BY <1>4, <2>3, <2>4, <2>5 DEF DecoderStep
<1>5. CASE program = "simple" /\ (SimpleStep \/ ReceiveEnds)
  <2>1. UNCHANGED <<mpc, initialized, packetsDone, epc>>
    BY <1>5 DEF SimpleStep, SimpleStart, SimpleReadVideo, SimpleReadOther, SimpleReadEnds,
       SimpleReceive, SimpleFinish, ReceiveEnds, readerVars, encoderVars, mainVars
  <2>2. dpc # "done" /\ initialized /\ mpc \notin {"init", "exit"} /\ dpc' # "alloc"
    BY <1>5 DEF SimpleStep, SimpleStart, SimpleReadVideo, SimpleReadOther, SimpleReadEnds,
       SimpleReceive, SimpleFinish, ReceiveEnds, decoderVars
  <2>3. rpc' = "done"
    BY <1>5 DEF SimpleStep, SimpleStart, SimpleReadVideo, SimpleReadOther, SimpleReadEnds,
       SimpleReceive, SimpleFinish, ReceiveEnds, readerVars
  <2>4. dpc' = "close" => nextEnc' = 1
    BY <1>5 DEF SimpleStep, SimpleStart, SimpleReadVideo, SimpleReadOther, SimpleReadEnds,
       SimpleReceive, SimpleFinish, ReceiveEnds, decoderVars
  <2>5. \A e \in Encoders : ~(e < 1)
    BY DEF Encoders
  <2> QED
    BY <1>0, <1>5, <2>1, <2>2, <2>3, <2>4, <2>5
<1>6. ASSUME NEW d \in Encoders, Encoder(d) PROVE StartedInv' /\ ToldInv'
  <2>1. EncoderStep(d) /\ d \in Outputs
    BY <1>6, EncoderIsStamped, StampedIsShared, EncoderHasOutput
  <2>2. UNCHANGED <<mpc, program, initialized, rpc, packetsDone, dpc, nextEnc, finished>>
    BY <2>1 DEF EncoderStep, EncoderSetup, OpenOutput, FinishSetup, FrameRefused, PopFrame, FramesEnd,
       ConvertFails, SendFrame, SendFrameFails, WritePacket, PacketsDry, FlushPacket, FlushEnds,
       readerVars, decoderVars, mainVars
  <2>3. \A e \in Encoders : e # d => epc'[e] = epc[e]
    BY <2>1 DEF EncoderStep, EncoderSetup, OpenOutput, FinishSetup, FrameRefused, PopFrame, FramesEnd,
       ConvertFails, SendFrame, SendFrameFails, WritePacket, PacketsDry, FlushPacket, FlushEnds,
       TypeOK, EncoderType
  <2>4. epc[d] # "setup" \/ mpc = "join"
    BY <2>1 DEF EncoderStep, EncoderSetup, OpenOutput, FinishSetup, FrameRefused, PopFrame, FramesEnd,
       ConvertFails, SendFrame, SendFrameFails, WritePacket, PacketsDry, FlushPacket, FlushEnds
  <2>5. mpc \notin {"init", "exit"}
    BY <2>4
  <2> QED
    BY <1>0, <2>1, <2>2, <2>3, <2>5
<1>7. CASE UNCHANGED vars
  BY <1>0, <1>7 DEF vars, readerVars, decoderVars, encoderVars, mainVars
<1> QED
  BY <1>1, <1>2, <1>3, <1>4, <1>5, <1>6, <1>7, MainStarts, SourceStarts DEF Next, Terminated

\* Whichever threads fail or give up, a thread that waits for a packet, a frame or
\* the decoder waits for one that still runs, but for the two start-up failures.
THEOREM TranscoderWaits == Spec => []WaitsAreAnswered
<1>1. TypeOK /\ StartedInv /\ ToldInv => WaitsAreAnswered
  <2> SUFFICES ASSUME TypeOK, StartedInv, ToldInv, ~DecoderGaveUp PROVE WaitsAreAnswered
    BY DEF WaitsAreAnswered
  <2>1. ASSUME program # "simple", dpc = "pop", ~packetsDone PROVE rpc # "done"
    BY <2>1 DEF ToldInv
  <2>2. ASSUME NEW e \in Encoders, epc[e] = "pop", ~finished[e] PROVE dpc # "done"
    <3>1. e \in Outputs
      BY <2>2 DEF StartedInv
    <3>2. CASE program = "simple"
      BY <2>2, <3>1, <3>2 DEF Outputs, ToldInv, DecoderGaveUp
    <3>3. CASE program # "simple"
      BY <2>2, <3>3 DEF ToldInv
    <3> QED
      BY <3>2, <3>3
  <2>3. ASSUME NEW e \in Encoders, epc[e] = "open", ~initialized PROVE dpc # "done"
    BY <2>3 DEF StartedInv, DecoderGaveUp, TypeOK
  <2> QED
    BY <2>1, <2>2, <2>3 DEF WaitsAreAnswered
<1> QED
  BY <1>1, InitWaits, StepWaits, TranscoderType, PTL DEF Spec

-----------------------------------------------------------------------------
(* No server runs for ever *)

\* Dictionary order on the tuples the threads' remaining work is measured by.
LEMMA LowerOne == ASSUME NEW a, NEW x, a < x PROVE Lower(<<a>>, <<x>>)
<1>1. 1 \in 1..Len(<<x>>) /\ 1..(1 - 1) = {}
  OBVIOUS
<1> QED
  BY <1>1 DEF Lower

LEMMA LowerTwo ==
    ASSUME NEW a, NEW b, NEW x, NEW y, a < x \/ (a = x /\ b < y)
    PROVE  Lower(<<a, b>>, <<x, y>>)
<1>1. CASE a < x
  <2>1. 1 \in 1..Len(<<x, y>>) /\ 1..(1 - 1) = {}
    OBVIOUS
  <2> QED
    BY <1>1, <2>1 DEF Lower
<1>2. CASE a = x /\ b < y
  <2>1. 2 \in 1..Len(<<x, y>>) /\ 1..(2 - 1) = {1}
    OBVIOUS
  <2> QED
    BY <1>2, <2>1 DEF Lower
<1> QED
  BY <1>1, <1>2

LEMMA LowerThree ==
    ASSUME NEW a, NEW b, NEW c, NEW x, NEW y, NEW z,
           a < x \/ (a = x /\ b < y) \/ (a = x /\ b = y /\ c < z)
    PROVE  Lower(<<a, b, c>>, <<x, y, z>>)
<1>1. CASE a < x
  <2>1. 1 \in 1..Len(<<x, y, z>>) /\ 1..(1 - 1) = {}
    OBVIOUS
  <2> QED
    BY <1>1, <2>1 DEF Lower
<1>2. CASE a = x /\ b < y
  <2>1. 2 \in 1..Len(<<x, y, z>>) /\ 1..(2 - 1) = {1}
    OBVIOUS
  <2> QED
    BY <1>2, <2>1 DEF Lower
<1>3. CASE a = x /\ b = y /\ c < z
  <2>1. 3 \in 1..Len(<<x, y, z>>) /\ 1..(3 - 1) = {1, 2}
    OBVIOUS
  <2> QED
    BY <1>3, <2>1 DEF Lower
<1> QED
  BY <1>1, <1>2, <1>3

LEMMA NotHigherThree ==
    ASSUME NEW a \in Int, NEW x \in Int, NEW b, NEW c, a <= x
    PROVE  NotHigher(<<a, b, c>>, <<x, b, c>>)
<1>1. a < x \/ a = x
  OBVIOUS
<1> QED
  BY <1>1, LowerThree DEF NotHigher

\* The codec is flushed once the packets have ended, and no packet is taken then.
FlushLast == dpc \in {"alloc", "pop"} => ~flushing

LEMMA StepFlushLast == ASSUME TypeOK, FlushLast, [Next]_vars PROVE FlushLast'
<1>1. CASE MainStep \/ Reader \/ UNCHANGED vars \/ \E e \in Encoders : EncoderStep(e)
  <2>1. flushing' = flushing /\ dpc' \in {dpc, "done"}
    BY <1>1 DEF MainStep, InitializeDecoder, StartThreads, DecoderInitializes, JoinAndReport,
       Reader, ReaderStart, ReadVideoPacket, ReadOtherPacket, ReadEnds, ReaderFinishes,
       EncoderStep, EncoderSetup, OpenOutput, FinishSetup, FrameRefused, PopFrame, FramesEnd,
       ConvertFails, SendFrame, SendFrameFails, WritePacket, PacketsDry, FlushPacket, FlushEnds,
       vars, decoderVars
  <2> QED
    BY <2>1 DEF FlushLast
<1>2. CASE DecoderStep \/ SimpleStep
  BY <1>2 DEF FlushLast, DecoderStep, DecoderStart, PopPacket, PacketsEnd, ReceiveFrame, ReceiveEnds,
     DeliverFrame, FinishQueue, SimpleStep, SimpleStart, SimpleReadVideo, SimpleReadOther,
     SimpleReadEnds, SimpleReceive, SimpleFinish, decoderVars, TypeOK, DecoderType
<1> QED
  BY <1>1, <1>2, StepIsShared

\* What is left is counted by natural numbers.
LeftOK ==
    /\ ToRead \in Nat /\ Len(packetQ) \in Nat /\ Len(decoding) \in Nat
    /\ ToDecode \in Nat /\ DecoderTurns \in Nat /\ ReaderTurns \in Nat
    /\ \A e \in Encoders :
         /\ Len(Undelivered(e)) \in Nat /\ Len(frameQ[e]) \in Nat /\ Len(taken[e]) \in Nat
         /\ Len(coding[e]) \in Nat /\ ToEncode(e) \in Nat /\ EncoderTurns(e) \in Nat

LEMMA LeftTypes == TypeOK => LeftOK
<1> SUFFICES ASSUME TypeOK PROVE LeftOK
  OBVIOUS
<1> USE TranscoderAssumption
<1>1. ToRead \in Nat
  BY DEF TypeOK, ReaderType, ToRead
<1>2. Len(packetQ) \in Nat /\ Len(decoding) \in Nat
  BY DEF TypeOK, ReaderType, DecoderType
<1>3. ToDecode \in Nat
  BY <1>1, <1>2 DEF ToDecode
<1>4. DecoderTurns \in Nat
  <2>1. NumOutputs \in Nat /\ nextEnc \in 1..(NumOutputs + 1)
    BY DEF TypeOK, DecoderType
  <2>2. NumOutputs + 1 - nextEnc \in Nat
    BY <2>1
  <2> QED
    BY <2>1, <2>2 DEF DecoderTurns
<1>5. ReaderTurns \in Nat
  BY DEF ReaderTurns
<1>6. ASSUME NEW e \in Encoders
      PROVE  /\ Len(Undelivered(e)) \in Nat /\ Len(frameQ[e]) \in Nat /\ Len(taken[e]) \in Nat
             /\ Len(coding[e]) \in Nat /\ ToEncode(e) \in Nat /\ EncoderTurns(e) \in Nat
  <2>1. /\ Len(Undelivered(e)) \in Nat /\ Len(frameQ[e]) \in Nat /\ Len(taken[e]) \in Nat
        /\ Len(coding[e]) \in Nat
    BY <1>6, StageTypes
  <2>2. \A i, j, k, l, m, n \in Nat : i + j + k + l + m + n \in Nat
    OBVIOUS
  <2>3. ToEncode(e) \in Nat
    BY <1>1, <1>2, <2>1, <2>2, Zenon DEF ToEncode
  <2>4. EncoderTurns(e) \in Nat
    BY DEF EncoderTurns
  <2> QED
    BY <2>1, <2>3, <2>4
<1> QED
  BY <1>1, <1>2, <1>3, <1>4, <1>5, <1>6 DEF LeftOK

LEMMA LeftTypesNext == TypeOK' => LeftOK'
  BY LeftTypes, PTL

\* A step that leaves an encoder where it is and brings it nothing new.
LEMMA EncoderWaits ==
    ASSUME TypeOK, TypeOK', NEW e \in Encoders, ToEncode(e)' <= ToEncode(e),
           coding'[e] = coding[e], epc'[e] = epc[e]
    PROVE  NotHigher(EncoderLeft(e)', EncoderLeft(e))
<1>1. ToEncode(e) \in Int /\ ToEncode(e)' \in Int
  <2>1. ToEncode(e) \in Nat
    BY LeftTypes DEF LeftOK
  <2>2. ToEncode(e)' \in Nat
    BY LeftTypesNext DEF LeftOK
  <2> QED
    BY <2>1, <2>2
<1>2. Len(coding[e])' = Len(coding[e]) /\ EncoderTurns(e)' = EncoderTurns(e)
  BY DEF EncoderTurns
<1> QED
  BY <1>1, <1>2, NotHigherThree DEF EncoderLeft

-----------------------------------------------------------------------------
(* What each step does to what is left *)

\* The encoder has no more to do than before.
Rest(e) == NotHigher(EncoderLeft(e)', EncoderLeft(e))

\* A step of main's, or of the thread that makes the decoder.
LEMMA MainWork ==
    ASSUME TypeOK, TypeOK', MainStep
    PROVE  /\ NotHigher(MainLeft', MainLeft) /\ NotHigher(ReaderLeft', ReaderLeft)
           /\ NotHigher(DecoderLeft', DecoderLeft) /\ \A e \in Encoders : Rest(e)
           /\ \/ Lower(MainLeft', MainLeft) \/ Lower(ReaderLeft', ReaderLeft)
              \/ Lower(DecoderLeft', DecoderLeft)
<1> USE TranscoderAssumption
<1>0. LeftOK /\ LeftOK'
  BY LeftTypes, LeftTypesNext
<1>1. UNCHANGED <<requestCount, packetQ, decoding, flushing, nextEnc, cur, frameQ, taken, coding, epc>>
  BY DEF MainStep, InitializeDecoder, StartThreads, DecoderInitializes, JoinAndReport, readerVars,
         decoderVars, encoderVars
<1>2. ToRead' = ToRead /\ Len(packetQ)' = Len(packetQ) /\ Len(decoding)' = Len(decoding)
  BY <1>1 DEF ToRead
<1>3. ASSUME NEW e \in Encoders PROVE Rest(e)
  <2>1. Undelivered(e)' = Undelivered(e)
    BY <1>1 DEF MainStep, InitializeDecoder, StartThreads, DecoderInitializes, JoinAndReport,
       decoderVars, Undelivered
  <2>2. ToEncode(e)' = ToEncode(e)
    BY <1>1, <1>2, <2>1 DEF ToEncode
  <2> QED
    BY <1>0, <1>1, <2>2, EncoderWaits DEF Rest, LeftOK
<1>4. CASE InitializeDecoder \/ StartThreads \/ JoinAndReport(Outputs)
  <2>1. UNCHANGED <<rpc, dpc>> /\ (initialized => initialized')
    BY <1>4 DEF InitializeDecoder, StartThreads, JoinAndReport, readerVars, decoderVars
  <2>2. Lower(MainLeft', MainLeft)
    BY <1>4, LowerOne DEF InitializeDecoder, StartThreads, JoinAndReport, MainLeft
  <2>3. ReaderLeft' = ReaderLeft
    BY <1>2, <2>1 DEF ReaderLeft, ReaderTurns
  <2>4. ToDecode' <= ToDecode /\ DecoderTurns' = DecoderTurns
    BY <1>0, <1>1, <1>2, <2>1 DEF ToDecode, DecoderTurns, LeftOK
  <2>5. NotHigher(DecoderLeft', DecoderLeft)
    BY <1>0, <1>2, <2>4, NotHigherThree DEF DecoderLeft, LeftOK
  <2> QED
    BY <1>3, <2>2, <2>3, <2>5 DEF NotHigher
<1>5. CASE DecoderInitializes
  <2>1. MainLeft' = MainLeft /\ rpc = "alloc" /\ dpc = "alloc" /\ initialized = FALSE
    BY <1>5 DEF DecoderInitializes, MainLeft, TypeOK
  <2>2. CASE initialized' = TRUE /\ UNCHANGED <<rpc, dpc>>
    <3>1. ReaderLeft' = ReaderLeft
      BY <1>2, <2>2 DEF ReaderLeft, ReaderTurns
    <3>2. ToDecode' < ToDecode
      BY <1>0, <1>1, <1>2, <2>1, <2>2 DEF ToDecode, LeftOK
    <3>3. Lower(DecoderLeft', DecoderLeft)
      BY <3>2, LowerThree DEF DecoderLeft
    <3> QED
      BY <1>3, <2>1, <3>1, <3>3 DEF NotHigher
  <2>3. CASE rpc' = "done" /\ dpc' = "done" /\ UNCHANGED initialized
    <3>1. ReaderTurns' < ReaderTurns
      BY <2>1, <2>3 DEF ReaderTurns
    <3>2. Lower(ReaderLeft', ReaderLeft)
      BY <1>2, <3>1, LowerTwo DEF ReaderLeft
    <3>3. ToDecode' = ToDecode
      BY <1>1, <1>2, <2>3 DEF ToDecode
    <3>4. DecoderTurns' < DecoderTurns
      BY <2>1, <2>3 DEF DecoderTurns
    <3>5. Lower(DecoderLeft', DecoderLeft)
      BY <1>2, <3>3, <3>4, LowerThree DEF DecoderLeft
    <3> QED
      BY <1>3, <2>1, <3>2, <3>5 DEF NotHigher
  <2> QED
    BY <1>5, <2>2, <2>3 DEF DecoderInitializes
<1> QED
  BY <1>4, <1>5 DEF MainStep

\* A step of the reader's.
LEMMA ReaderWork ==
    ASSUME TypeOK, TypeOK', Reader
    PROVE  /\ MainLeft' = MainLeft /\ Lower(ReaderLeft', ReaderLeft)
           /\ NotHigher(DecoderLeft', DecoderLeft) /\ \A e \in Encoders : Rest(e)
<1> USE TranscoderAssumption
<1>0. LeftOK /\ LeftOK'
  BY LeftTypes, LeftTypesNext
<1>1. UNCHANGED <<mpc, initialized, dpc, decoding, flushing, nextEnc, cur, frameQ, taken, coding, epc>>
  BY DEF Reader, ReaderStart, ReadVideoPacket, ReadOtherPacket, ReadEnds, ReaderFinishes,
         decoderVars, encoderVars, mainVars
<1>2. \/ ToRead' = ToRead /\ Len(packetQ)' = Len(packetQ) /\ ReaderTurns' < ReaderTurns
      \/ ToRead' = ToRead - 1 /\ Len(packetQ)' <= Len(packetQ) + 1
  <2>1. CASE ReaderStart \/ ReadEnds \/ ReaderFinishes
    <3>1. ToRead' = ToRead /\ packetQ' = packetQ
      BY <2>1 DEF ReaderStart, ReadEnds, ReaderFinishes, ToRead
    <3>2. ReaderTurns' < ReaderTurns
      BY <2>1 DEF ReaderStart, ReadEnds, ReaderFinishes, ReaderTurns
    <3> QED
      BY <3>1, <3>2
  <2>2. CASE ReadVideoPacket \/ ReadOtherPacket
    <3>1. requestCount' = requestCount + 1 /\ requestCount \in 0..MaxPackets
      BY <2>2 DEF ReadVideoPacket, ReadOtherPacket, TypeOK, ReaderType
    <3>2. ToRead' = ToRead - 1
      BY <3>1 DEF ToRead
    <3>3. packetQ' = packetQ \/ packetQ' = Append(packetQ, requestCount)
      BY <2>2 DEF ReadVideoPacket, ReadOtherPacket
    <3>4. Len(packetQ') <= Len(packetQ) + 1
      BY <3>3, <1>0 DEF TypeOK, ReaderType, LeftOK
    <3> QED
      BY <3>2, <3>4
  <2> QED
    BY <2>1, <2>2 DEF Reader
<1>3. Lower(ReaderLeft', ReaderLeft)
  BY <1>0, <1>2, LowerTwo DEF ReaderLeft, LeftOK
<1>4. ToDecode' <= ToDecode /\ DecoderTurns' = DecoderTurns
  <2>1. DecoderTurns' = DecoderTurns
    BY <1>1 DEF DecoderTurns
  <2>2. ToRead' + Len(packetQ)' <= ToRead + Len(packetQ)
    BY <1>0, <1>2 DEF LeftOK
  <2>3. (IF initialized' THEN 0 ELSE 1) = (IF initialized THEN 0 ELSE 1)
        /\ (IF flushing' THEN 0 ELSE 1) = (IF flushing THEN 0 ELSE 1)
    BY <1>1
  <2>4. ToDecode' <= ToDecode
    BY <1>0, <2>2, <2>3 DEF ToDecode, LeftOK
  <2> QED
    BY <2>1, <2>4
<1>5. NotHigher(DecoderLeft', DecoderLeft)
  BY <1>0, <1>1, <1>4, NotHigherThree DEF DecoderLeft, LeftOK
<1>6. ASSUME NEW e \in Encoders PROVE Rest(e)
  <2>1. Undelivered(e)' = Undelivered(e)
    BY <1>1 DEF Undelivered
  <2>2. ToRead' + Len(packetQ)' <= ToRead + Len(packetQ)
    BY <1>0, <1>2 DEF LeftOK
  <2>3. /\ Len(decoding)' = Len(decoding) /\ Len(Undelivered(e))' = Len(Undelivered(e))
        /\ Len(frameQ[e])' = Len(frameQ[e]) /\ Len(taken[e])' = Len(taken[e])
    BY <1>1, <2>1
  <2>4. \A i, j, k, l, m, n, p, q \in Nat :
          i + j <= p + q => i + j + k + l + m + n <= p + q + k + l + m + n
    OBVIOUS
  <2>5. /\ ToRead \in Nat /\ ToRead' \in Nat /\ Len(packetQ) \in Nat /\ Len(packetQ)' \in Nat
        /\ Len(decoding) \in Nat /\ Len(Undelivered(e)) \in Nat /\ Len(frameQ[e]) \in Nat
        /\ Len(taken[e]) \in Nat
    BY <1>0 DEF LeftOK
  <2>6. ToEncode(e)' <= ToEncode(e)
    BY ZenonT(40), <2>2, <2>3, <2>4, <2>5 DEF ToEncode
  <2> QED
    BY <1>1, <2>6, EncoderWaits DEF Rest
<1> QED
  BY <1>1, <1>3, <1>5, <1>6 DEF MainLeft

\* The numbers an encoder's first one is the sum of, for a step that takes nothing
\* from the input and nothing from the encoder.
LEMMA ToEncodeFalls ==
    ASSUME LeftOK, LeftOK', NEW e \in Encoders, ToRead' = ToRead, taken'[e] = taken[e],
           Len(packetQ)' + Len(decoding)' + Len(Undelivered(e))' + Len(frameQ[e])'
             <= Len(packetQ) + Len(decoding) + Len(Undelivered(e)) + Len(frameQ[e])
    PROVE  ToEncode(e)' <= ToEncode(e)
<1>1. /\ ToRead \in Nat /\ Len(packetQ) \in Nat /\ Len(packetQ)' \in Nat
      /\ Len(decoding) \in Nat /\ Len(decoding)' \in Nat
      /\ Len(Undelivered(e)) \in Nat /\ Len(Undelivered(e))' \in Nat
      /\ Len(frameQ[e]) \in Nat /\ Len(frameQ[e])' \in Nat /\ Len(taken[e]) \in Nat
  BY DEF LeftOK
<1>2. Len(taken[e])' = Len(taken[e])
  OBVIOUS
<1>3. \A r, t, i, j, k, l, m, n, o, p \in Nat :
        i + j + k + l <= m + n + o + p => r + i + j + k + l + t <= r + m + n + o + p + t
  OBVIOUS
<1> QED
  BY <1>1, <1>2, <1>3 DEF ToEncode

\* A step of the thread that decodes, in all programs but simple-transcode.
LEMMA DecoderWork ==
    ASSUME TypeOK, TypeOK', FlushLast, DecoderStep
    PROVE  /\ MainLeft' = MainLeft /\ ReaderLeft' = ReaderLeft
           /\ Lower(DecoderLeft', DecoderLeft) /\ \A e \in Encoders : Rest(e)
<1> USE TranscoderAssumption
<1>0. LeftOK /\ LeftOK'
  BY LeftTypes, LeftTypesNext
<1>1. UNCHANGED <<mpc, initialized, rpc, requestCount, taken, coding, epc>>
  BY DEF DecoderStep, DecoderStart, PopPacket, PacketsEnd, ReceiveFrame, ReceiveEnds, DeliverFrame,
         FinishQueue, readerVars, encoderVars, mainVars
<1>2. ToRead' = ToRead /\ MainLeft' = MainLeft /\ ReaderLeft' = ReaderLeft
  BY <1>1 DEF ToRead, MainLeft, ReaderLeft, ReaderTurns
<1>3. NumOutputs \in Nat /\ NumOutputs >= 1 /\ nextEnc \in Nat /\ nextEnc <= NumOutputs + 1
  BY DEF TypeOK, DecoderType
<1> DEFINE Falls(e) ==
             Len(packetQ)' + Len(decoding)' + Len(Undelivered(e))' + Len(frameQ[e])'
               <= Len(packetQ) + Len(decoding) + Len(Undelivered(e)) + Len(frameQ[e])
<1>4. ASSUME NEW e \in Encoders, Falls(e) PROVE Rest(e)
  BY <1>0, <1>1, <1>2, <1>4, ToEncodeFalls, EncoderWaits DEF Rest
<1>5. ASSUME packetQ' = packetQ, flushing' = flushing PROVE ToDecode' = ToDecode
  BY <1>1, <1>2, <1>5 DEF ToDecode
<1>6. CASE DecoderStart \/ FinishQueue
  <2>1. UNCHANGED <<packetQ, decoding, flushing, frameQ>>
    BY <1>6 DEF DecoderStart, FinishQueue
  <2>2. DecoderTurns' < DecoderTurns
    <3>1. CASE DecoderStart
      <4>1. dpc = "alloc" /\ (dpc' = "pop" \/ (dpc' = "close" /\ nextEnc' = nextEnc))
        BY <3>1 DEF DecoderStart
      <4> QED
        BY <4>1, <1>3 DEF DecoderTurns, TypeOK, DecoderType, Encoders
    <3>2. CASE FinishQueue
      <4>1. dpc = "close" /\ nextEnc \in 1..NumOutputs /\ nextEnc' = nextEnc + 1
            /\ dpc' = IF nextEnc = NumOutputs THEN "done" ELSE "close"
        BY <3>2 DEF FinishQueue, TypeOK, DecoderType, Encoders
      <4> QED
        BY <4>1, <1>3 DEF DecoderTurns
    <3> QED
      BY <1>6, <3>1, <3>2
  <2>3. Lower(DecoderLeft', DecoderLeft)
    BY <1>5, <2>1, <2>2, LowerThree DEF DecoderLeft
  <2>4. ASSUME NEW e \in Encoders PROVE Rest(e)
    <3>1. Undelivered(e)' = Undelivered(e)
      BY <1>6 DEF DecoderStart, FinishQueue, Undelivered
    <3>2. Falls(e)
      BY <2>1, <3>1, <1>0 DEF LeftOK
    <3> QED
      BY <3>2, <1>4
  <2> QED
    BY <1>2, <2>3, <2>4
<1>7. CASE PopPacket
  <2>1. packetQ # <<>> /\ packetQ \in Seq(Frames) /\ packetQ' = Tail(packetQ)
        /\ UNCHANGED <<flushing, frameQ>>
        /\ (decoding' = decoding \/ decoding' = Append(decoding, Head(packetQ)))
    BY <1>7 DEF PopPacket, TypeOK, ReaderType
  <2>2. Len(packetQ)' = Len(packetQ) - 1 /\ Len(decoding)' <= Len(decoding) + 1
    BY <2>1, <1>0 DEF TypeOK, DecoderType, LeftOK
  <2>3. ToDecode' < ToDecode
    BY <2>1, <2>2, <1>0, <1>1, <1>2 DEF ToDecode, LeftOK
  <2>4. Lower(DecoderLeft', DecoderLeft)
    BY <2>3, LowerThree DEF DecoderLeft
  <2>5. ASSUME NEW e \in Encoders PROVE Rest(e)
    <3>1. Undelivered(e)' = <<>> /\ Undelivered(e) = <<>>
      BY <1>7 DEF PopPacket, Undelivered
    <3>2. Falls(e)
      BY <2>1, <2>2, <3>1, <1>0 DEF LeftOK
    <3> QED
      BY <3>2, <1>4
  <2> QED
    BY <1>2, <2>4, <2>5
<1>8. CASE PacketsEnd
  <2>1. flushing = FALSE /\ flushing' = TRUE /\ UNCHANGED <<packetQ, decoding, frameQ>>
    BY <1>8 DEF PacketsEnd, FlushLast, TypeOK, DecoderType
  <2>2. ToDecode' < ToDecode
    BY <2>1, <1>0, <1>1, <1>2 DEF ToDecode, LeftOK
  <2>3. Lower(DecoderLeft', DecoderLeft)
    BY <2>2, LowerThree DEF DecoderLeft
  <2>4. ASSUME NEW e \in Encoders PROVE Rest(e)
    <3>1. Undelivered(e)' = Undelivered(e)
      BY <1>8 DEF PacketsEnd, Undelivered
    <3>2. Falls(e)
      BY <2>1, <3>1, <1>0 DEF LeftOK
    <3> QED
      BY <3>2, <1>4
  <2> QED
    BY <1>2, <2>3, <2>4
<1>9. CASE ReceiveFrame
  <2>1. decoding # <<>> /\ decoding \in Seq(Frames) /\ decoding' = Tail(decoding)
        /\ UNCHANGED <<packetQ, flushing, frameQ>>
    BY <1>9 DEF ReceiveFrame, TypeOK, DecoderType
  <2>2. Len(decoding)' = Len(decoding) - 1
    BY <2>1
  <2>3. Lower(DecoderLeft', DecoderLeft)
    BY <2>1, <2>2, <1>0, <1>5, LowerThree DEF DecoderLeft, LeftOK
  <2>4. ASSUME NEW e \in Encoders PROVE Rest(e)
    <3>1. Undelivered(e) = <<>> /\ Undelivered(e)' = <<cur'>>
      BY <1>9 DEF ReceiveFrame, Undelivered, Encoders
    <3>2. Len(Undelivered(e)) = 0 /\ Len(Undelivered(e))' = 1
      BY <3>1
    <3>3. Falls(e)
      BY <2>1, <2>2, <3>2, <1>0 DEF LeftOK
    <3> QED
      BY <3>3, <1>4
  <2> QED
    BY <1>2, <2>3, <2>4
<1>10. CASE ReceiveEnds
  <2>1. /\ dpc = "receive" /\ dpc' \in {"pop", "close"} /\ nextEnc' = 1
        /\ UNCHANGED <<packetQ, flushing, frameQ>>
        /\ decoding' = decoding \/ (decoding # <<>> /\ decoding' = Tail(decoding))
    BY <1>10 DEF ReceiveEnds
  <2>2. DecoderTurns' < DecoderTurns
    BY <2>1, <1>3 DEF DecoderTurns
  <2>3. Len(decoding)' = Len(decoding) \/ Len(decoding)' = Len(decoding) - 1
    BY <2>1 DEF TypeOK, DecoderType
  <2>4. Lower(DecoderLeft', DecoderLeft)
    BY <2>1, <2>2, <2>3, <1>0, <1>5, LowerThree DEF DecoderLeft, LeftOK
  <2>5. ASSUME NEW e \in Encoders PROVE Rest(e)
    <3>1. Undelivered(e) = <<>> /\ Undelivered(e)' = <<>>
      BY <2>1 DEF Undelivered
    <3>2. Falls(e)
      BY <2>1, <2>3, <3>1, <1>0 DEF LeftOK
    <3> QED
      BY <3>2, <1>4
  <2> QED
    BY <1>2, <2>4, <2>5
<1>11. CASE DeliverFrame
  <2>1. /\ dpc = "deliver" /\ nextEnc \in 1..NumOutputs /\ nextEnc' = nextEnc + 1
        /\ dpc' = IF nextEnc = NumOutputs THEN "receive" ELSE "deliver"
        /\ UNCHANGED <<packetQ, decoding, flushing>>
    BY <1>11 DEF DeliverFrame, TypeOK, DecoderType, Encoders
  <2>2. DecoderTurns' < DecoderTurns
    BY <2>1, <1>3 DEF DecoderTurns
  <2>3. Lower(DecoderLeft', DecoderLeft)
    BY <2>1, <2>2, <1>5, LowerThree DEF DecoderLeft
  <2>4. ASSUME NEW e \in Encoders PROVE Rest(e)
    <3>1. CASE e # nextEnc
      <4>1. frameQ'[e] = frameQ[e]
        BY <1>11, <3>1 DEF DeliverFrame, TypeOK, DecoderType
      <4>2. Len(Undelivered(e)') = Len(Undelivered(e))
        BY <1>11, <2>1, <3>1 DEF DeliverFrame, Undelivered, Encoders
      <4>3. Falls(e)
        BY <2>1, <4>1, <4>2, <1>0 DEF LeftOK
      <4> QED
        BY <4>3, <1>4
    <3>2. CASE e = nextEnc
      <4>1. Len(Undelivered(e)) = 1 /\ Len(Undelivered(e)') = 0
        BY <1>11, <2>1, <3>2 DEF DeliverFrame, Undelivered, Encoders
      <4>2. frameQ'[e] = frameQ[e] \/ frameQ'[e] = Append(frameQ[e], cur)
        BY <1>11, <3>2 DEF DeliverFrame, TypeOK, DecoderType
      <4>3. Len(frameQ[e])' <= Len(frameQ[e]) + 1
        <5>1. \A q \in Seq(Frames) : \A x : Len(Append(q, x)) = Len(q) + 1
          OBVIOUS
        <5>2. frameQ[e] \in Seq(Frames) /\ Len(frameQ[e]) \in Nat
          BY DEF TypeOK, DecoderType
        <5> QED
          BY <4>2, <5>1, <5>2
      <4>4. /\ Len(packetQ)' = Len(packetQ) /\ Len(packetQ) \in Nat
            /\ Len(decoding)' = Len(decoding) /\ Len(decoding) \in Nat
            /\ Len(frameQ[e]) \in Nat /\ Len(frameQ[e])' \in Nat
        BY <2>1, <1>0 DEF LeftOK
      <4>5. \A i, j, k, l \in Nat : l <= k + 1 => i + j + 0 + l <= i + j + 1 + k
        OBVIOUS
      <4>6. Falls(e)
        BY <4>1, <4>3, <4>4, <4>5
      <4> QED
        BY <4>6, <1>4
    <3> QED
      BY <3>1, <3>2
  <2> QED
    BY <1>2, <2>3, <2>4
<1> QED
  BY <1>6, <1>7, <1>8, <1>9, <1>10, <1>11 DEF DecoderStep

\* A step of simple-transcode's decoding thread, which also reads.
LEMMA SimpleWork ==
    ASSUME TypeOK, TypeOK', FlushLast, program = "simple", SimpleStep
    PROVE  /\ MainLeft' = MainLeft /\ NotHigher(ReaderLeft', ReaderLeft)
           /\ Lower(DecoderLeft', DecoderLeft) /\ \A e \in Encoders : Rest(e)
<1> USE TranscoderAssumption
<1>0. LeftOK /\ LeftOK'
  BY LeftTypes, LeftTypesNext
<1>1. UNCHANGED <<mpc, initialized, packetQ, cur, nextEnc, taken, coding, epc>>
  BY DEF SimpleStep, SimpleStart, SimpleReadVideo, SimpleReadOther, SimpleReadEnds, SimpleReceive,
         SimpleFinish, decoderVars, encoderVars, mainVars
<1>2. MainLeft' = MainLeft
  BY <1>1 DEF MainLeft
<1>3. NumOutputs \in Nat /\ NumOutputs >= 1 /\ nextEnc \in Nat /\ nextEnc <= NumOutputs + 1
  BY DEF TypeOK, DecoderType
<1>4. dpc # "deliver" /\ dpc' # "deliver"
  BY DEF SimpleStep, SimpleStart, SimpleReadVideo, SimpleReadOther, SimpleReadEnds, SimpleReceive,
         SimpleFinish, decoderVars
<1>5. ASSUME NEW e \in Encoders PROVE Undelivered(e) = <<>> /\ Undelivered(e)' = <<>>
  BY <1>4 DEF Undelivered
<1>6. CASE SimpleStart \/ SimpleFinish
  <2>1. UNCHANGED <<requestCount, decoding, flushing, frameQ>>
    BY <1>6 DEF SimpleStart, SimpleFinish, readerVars
  <2>2. ToRead' = ToRead /\ ToDecode' = ToDecode
    BY <1>1, <2>1 DEF ToRead, ToDecode
  <2>3. DecoderTurns' < DecoderTurns
    <3>1. CASE SimpleStart
      BY <3>1, <1>3 DEF SimpleStart, DecoderTurns
    <3>2. CASE SimpleFinish
      BY <3>2, <1>3 DEF SimpleFinish, DecoderTurns, TypeOK, DecoderType, Encoders
    <3> QED
      BY <1>6, <3>1, <3>2
  <2>4. Lower(DecoderLeft', DecoderLeft)
    BY <2>1, <2>2, <2>3, LowerThree DEF DecoderLeft
  <2>5. NotHigher(ReaderLeft', ReaderLeft)
    <3>1. rpc' = rpc \/ rpc' = "done"
      BY <1>6 DEF SimpleStart, SimpleFinish, readerVars
    <3>2. ReaderTurns' = ReaderTurns \/ ReaderTurns' < ReaderTurns
      BY <3>1 DEF ReaderTurns, TypeOK, ReaderType
    <3> QED
      BY <2>2, <3>2, LowerTwo DEF ReaderLeft, NotHigher
  <2>6. ASSUME NEW e \in Encoders PROVE Rest(e)
    <3>1. ToEncode(e)' = ToEncode(e)
      BY <1>1, <1>5, <2>1, <2>2 DEF ToEncode
    <3> QED
      BY <3>1, <1>0, <1>1, EncoderWaits DEF Rest, LeftOK
  <2> QED
    BY <1>2, <2>4, <2>5, <2>6
<1>7. CASE SimpleReadVideo \/ SimpleReadOther
  <2>1. /\ requestCount' = requestCount + 1 /\ requestCount \in 0..MaxPackets /\ rpc' = rpc
        /\ frameQ' = frameQ /\ (flushing' = flushing \/ flushing' = TRUE)
        /\ (decoding' = decoding \/ decoding' = Append(decoding, requestCount))
    BY <1>7 DEF SimpleReadVideo, SimpleReadOther, TypeOK, ReaderType, decoderVars
  <2>2. ToRead' = ToRead - 1
    BY <2>1 DEF ToRead
  <2>3. Len(decoding)' <= Len(decoding) + 1
    BY <2>1, <1>0 DEF LeftOK, TypeOK, DecoderType
  <2>4. Lower(ReaderLeft', ReaderLeft)
    BY <1>0, <2>2, LowerTwo DEF ReaderLeft, LeftOK
  <2>5. ToDecode' < ToDecode
    <3>1. (IF flushing' THEN 0 ELSE 1) <= (IF flushing THEN 0 ELSE 1)
      BY <2>1
    <3>2. Len(packetQ)' = Len(packetQ) /\ (IF initialized' THEN 0 ELSE 1) = (IF initialized THEN 0 ELSE 1)
      BY <1>1
    <3> QED
      BY <1>0, <2>2, <3>1, <3>2 DEF ToDecode, LeftOK
  <2>6. Lower(DecoderLeft', DecoderLeft)
    BY <2>5, LowerThree DEF DecoderLeft
  <2>7. ASSUME NEW e \in Encoders PROVE Rest(e)
    <3>1. /\ Len(Undelivered(e))' = Len(Undelivered(e)) /\ Len(packetQ)' = Len(packetQ)
          /\ Len(frameQ[e])' = Len(frameQ[e]) /\ Len(taken[e])' = Len(taken[e])
      BY <1>1, <1>5, <2>1
    <3>2. /\ ToRead \in Nat /\ Len(packetQ) \in Nat /\ Len(decoding) \in Nat /\ Len(decoding)' \in Nat
          /\ Len(Undelivered(e)) \in Nat /\ Len(frameQ[e]) \in Nat /\ Len(taken[e]) \in Nat
      BY <1>0 DEF LeftOK
    <3>3. ToRead >= 1
      BY <1>0, <2>2 DEF LeftOK
    <3>4. \A r, i, j, k, l, m, n \in Nat :
            r >= 1 /\ n <= j + 1 => (r - 1) + i + n + k + l + m <= r + i + j + k + l + m
      OBVIOUS
    <3>5. ToEncode(e)' <= ToEncode(e)
      BY ZenonT(40), <2>2, <2>3, <3>1, <3>2, <3>3, <3>4 DEF ToEncode
    <3> QED
      BY <3>5, <1>1, EncoderWaits DEF Rest
  <2> QED
    BY <1>2, <2>4, <2>6, <2>7 DEF NotHigher
<1>8. CASE SimpleReadEnds
  <2>1. /\ flushing = FALSE /\ flushing' = TRUE
        /\ UNCHANGED <<requestCount, rpc, decoding, frameQ>>
    BY <1>8 DEF SimpleReadEnds, FlushLast, TypeOK, DecoderType, readerVars
  <2>2. ToRead' = ToRead /\ ReaderLeft' = ReaderLeft
    BY <2>1 DEF ToRead, ReaderLeft, ReaderTurns
  <2>3. ToDecode' < ToDecode
    BY <2>1, <2>2, <1>0, <1>1 DEF ToDecode, LeftOK
  <2>4. Lower(DecoderLeft', DecoderLeft)
    BY <2>3, LowerThree DEF DecoderLeft
  <2>5. ASSUME NEW e \in Encoders PROVE Rest(e)
    <3>1. ToEncode(e)' = ToEncode(e)
      BY <1>1, <1>5, <2>1, <2>2 DEF ToEncode
    <3> QED
      BY <3>1, <1>0, <1>1, EncoderWaits DEF Rest, LeftOK
  <2> QED
    BY <1>2, <2>2, <2>4, <2>5 DEF NotHigher
<1>9. CASE SimpleReceive
  <2>1. /\ decoding # <<>> /\ decoding \in Seq(Frames) /\ decoding' = Tail(decoding)
        /\ UNCHANGED <<requestCount, rpc, flushing>>
    BY <1>9 DEF SimpleReceive, TypeOK, DecoderType, readerVars
  <2>2. Len(decoding)' = Len(decoding) - 1
    BY <2>1
  <2>3. ToRead' = ToRead /\ ReaderLeft' = ReaderLeft /\ ToDecode' = ToDecode
    BY <1>1, <2>1 DEF ToRead, ReaderLeft, ReaderTurns, ToDecode
  <2>4. Lower(DecoderLeft', DecoderLeft)
    BY <2>2, <2>3, <1>0, LowerThree DEF DecoderLeft, LeftOK
  <2>5. ASSUME NEW e \in Encoders PROVE Rest(e)
    <3>1. frameQ'[e] = frameQ[e] \/ frameQ'[e] = Append(frameQ[e], Head(decoding))
      BY <1>9 DEF SimpleReceive, TypeOK, DecoderType
    <3>2. Len(frameQ[e])' <= Len(frameQ[e]) + 1
      <4>1. \A q \in Seq(Frames) : \A x : Len(Append(q, x)) = Len(q) + 1
        OBVIOUS
      <4>2. frameQ[e] \in Seq(Frames) /\ Len(frameQ[e]) \in Nat
        BY DEF TypeOK, DecoderType
      <4> QED
        BY <3>1, <4>1, <4>2
    <3>3. /\ Len(packetQ)' = Len(packetQ) /\ Len(packetQ) \in Nat /\ Len(decoding) \in Nat
          /\ Len(frameQ[e]) \in Nat /\ Len(frameQ[e])' \in Nat
          /\ Len(Undelivered(e)) = 0 /\ Len(Undelivered(e))' = 0
      BY <1>0, <1>1, <1>5 DEF LeftOK
    <3>4. \A i, j, k, l \in Nat : l <= k + 1 => i + (j - 1) + 0 + l <= i + j + 0 + k
      OBVIOUS
    <3>5. Len(packetQ)' + Len(decoding)' + Len(Undelivered(e))' + Len(frameQ[e])'
             <= Len(packetQ) + Len(decoding) + Len(Undelivered(e)) + Len(frameQ[e])
      BY <2>2, <3>2, <3>3, <3>4
    <3>6. ToEncode(e)' <= ToEncode(e)
      BY <1>0, <1>1, <2>3, <3>5, ToEncodeFalls
    <3> QED
      BY <3>6, <1>1, EncoderWaits DEF Rest
  <2> QED
    BY <1>2, <2>3, <2>4, <2>5 DEF NotHigher
<1> QED
  BY <1>6, <1>7, <1>8, <1>9 DEF SimpleStep

\* A step of the encoder of output d.
LEMMA EncoderWork ==
    ASSUME TypeOK, TypeOK', NEW d \in Encoders, EncoderStep(d)
    PROVE  /\ MainLeft' = MainLeft /\ ReaderLeft' = ReaderLeft /\ DecoderLeft' = DecoderLeft
           /\ Lower(EncoderLeft(d)', EncoderLeft(d)) /\ \A e \in Encoders : Rest(e)
<1> USE TranscoderAssumption
<1>0. LeftOK /\ LeftOK'
  BY LeftTypes, LeftTypesNext
<1>1. UNCHANGED <<mpc, initialized, rpc, requestCount, packetQ, decoding, flushing, dpc, nextEnc, cur>>
  BY DEF EncoderStep, EncoderSetup, OpenOutput, FinishSetup, FrameRefused, PopFrame, FramesEnd,
     ConvertFails, SendFrame, SendFrameFails, WritePacket, PacketsDry, FlushPacket, FlushEnds,
     readerVars, decoderVars, mainVars
<1>2. /\ ToRead' = ToRead /\ MainLeft' = MainLeft /\ ReaderLeft' = ReaderLeft
      /\ DecoderLeft' = DecoderLeft
  BY <1>1 DEF ToRead, MainLeft, ReaderLeft, ReaderTurns, DecoderLeft, ToDecode, DecoderTurns
<1>3. ASSUME NEW e \in Encoders PROVE Undelivered(e)' = Undelivered(e)
  BY <1>1 DEF Undelivered
<1>4. ASSUME NEW e \in Encoders, e # d PROVE Rest(e)
  <2>1. frameQ'[e] = frameQ[e] /\ taken'[e] = taken[e] /\ coding'[e] = coding[e] /\ epc'[e] = epc[e]
    BY ZenonT(40), <1>4 DEF EncoderStep, EncoderSetup, OpenOutput, FinishSetup, FrameRefused, PopFrame, FramesEnd,
       ConvertFails, SendFrame, SendFrameFails, WritePacket, PacketsDry, FlushPacket, FlushEnds,
       TypeOK, DecoderType, EncoderType
  <2>2. ToEncode(e)' = ToEncode(e)
    BY <1>1, <1>2, <1>3, <2>1 DEF ToEncode
  <2> QED
    BY <2>1, <2>2, <1>0, EncoderWaits DEF Rest, LeftOK
<1>5. Lower(EncoderLeft(d)', EncoderLeft(d))
  <2>1. CASE /\ frameQ'[d] = frameQ[d] /\ taken'[d] = taken[d]
             /\ coding'[d] = coding[d] /\ EncoderTurns(d)' < EncoderTurns(d)
    <3>1. ToEncode(d)' = ToEncode(d)
      BY <1>1, <1>2, <1>3, <2>1 DEF ToEncode
    <3> QED
      BY <2>1, <3>1, LowerThree DEF EncoderLeft
  <2>2. CASE /\ frameQ'[d] = frameQ[d] /\ taken'[d] = taken[d]
             /\ coding[d] # <<>> /\ coding'[d] = Tail(coding[d])
    <3>1. ToEncode(d)' = ToEncode(d)
      BY <1>1, <1>2, <1>3, <2>2 DEF ToEncode
    <3>2. \A q \in Seq(Frames) : q # <<>> => Len(Tail(q)) = Len(q) - 1
      OBVIOUS
    <3>3. Len(coding[d])' = Len(coding[d]) - 1 /\ Len(coding[d]) \in Nat
      BY <2>2, <3>2, <1>0 DEF TypeOK, EncoderType, LeftOK
    <3> QED
      BY <3>1, <3>3, LowerThree DEF EncoderLeft
  <2>3. CASE frameQ'[d] = frameQ[d] /\ Len(taken[d]) = 1 /\ taken'[d] = <<>>
    <3>1. /\ Len(taken[d])' = 0 /\ Len(frameQ[d])' = Len(frameQ[d])
          /\ Len(Undelivered(d))' = Len(Undelivered(d)) /\ Len(packetQ)' = Len(packetQ)
          /\ Len(decoding)' = Len(decoding)
      BY <1>1, <1>3, <2>3
    <3>2. /\ ToRead \in Nat /\ Len(packetQ) \in Nat /\ Len(decoding) \in Nat
          /\ Len(Undelivered(d)) \in Nat /\ Len(frameQ[d]) \in Nat
      BY <1>0 DEF LeftOK
    <3>3. ToEncode(d)' < ToEncode(d)
      BY <1>2, <2>3, <3>1, <3>2 DEF ToEncode
    <3> QED
      BY <3>3, LowerThree DEF EncoderLeft
  <2>4. CASE PopFrame(d)
    <3>1. /\ epc[d] = "pop" /\ epc'[d] = "encode" /\ coding'[d] = coding[d]
          /\ frameQ[d] # <<>> /\ frameQ'[d] = Tail(frameQ[d])
      BY <2>4 DEF PopFrame, TypeOK, DecoderType, EncoderType
    <3>2. Len(taken[d]) = 0 /\ Len(taken[d])' = 1
      BY <3>1 DEF TypeOK, EncoderType
    <3>3. Len(frameQ[d])' = Len(frameQ[d]) - 1
      <4>1. \A q \in Seq(Frames) : q # <<>> => Len(Tail(q)) = Len(q) - 1
        OBVIOUS
      <4> QED
        BY <3>1, <4>1 DEF TypeOK, DecoderType
    <3>4. /\ Len(Undelivered(d))' = Len(Undelivered(d)) /\ Len(packetQ)' = Len(packetQ)
          /\ Len(decoding)' = Len(decoding)
      BY <1>1, <1>3
    <3>5. /\ ToRead \in Nat /\ Len(packetQ) \in Nat /\ Len(decoding) \in Nat
          /\ Len(Undelivered(d)) \in Nat /\ Len(frameQ[d]) \in Nat
      BY <1>0 DEF LeftOK
    <3>6. ToEncode(d)' = ToEncode(d)
      BY <1>2, <3>2, <3>3, <3>4, <3>5 DEF ToEncode
    <3>7. EncoderTurns(d)' < EncoderTurns(d) /\ Len(coding[d])' = Len(coding[d])
      BY <3>1 DEF EncoderTurns
    <3> QED
      BY <3>6, <3>7, LowerThree DEF EncoderLeft
  <2>5. CASE EncoderSetup(d) \/ OpenOutput(d) \/ FinishSetup(d) \/ FramesEnd(d) \/ FlushEnds(d)
             \/ \E step \in Nat : PacketsDry(d, step)
    <3>1. frameQ'[d] = frameQ[d] /\ taken'[d] = taken[d] /\ coding'[d] = coding[d]
      BY <2>5 DEF EncoderSetup, OpenOutput, FinishSetup, FramesEnd, FlushEnds, PacketsDry
    <3>2. \/ epc[d] = "setup" /\ epc'[d] \in {"open", "pop", "failed"}
          \/ epc[d] = "open" /\ epc'[d] \in {"pop", "failed"}
          \/ epc[d] = "pop" /\ epc'[d] = "flush"
          \/ epc[d] = "flush" /\ epc'[d] = "done"
          \/ epc[d] = "receive" /\ epc'[d] = "pop"
      BY <2>5 DEF EncoderSetup, OpenOutput, FinishSetup, FramesEnd, FlushEnds, PacketsDry, TypeOK, EncoderType
    <3>3. EncoderTurns(d)' < EncoderTurns(d)
      BY <3>2 DEF EncoderTurns
    <3> QED
      BY <2>1, <3>1, <3>3
  <2>6. CASE ConvertFails(d) \/ FrameRefused(d) \/ SendFrameFails(d) \/ \E pts \in Int : SendFrame(d, pts)
    <3>1. frameQ'[d] = frameQ[d] /\ epc[d] = "encode" /\ taken'[d] = <<>>
      BY <2>6 DEF ConvertFails, FrameRefused, SendFrameFails, SendFrame, TypeOK, EncoderType
    <3>2. Len(taken[d]) = 1
      BY <3>1 DEF TypeOK, EncoderType
    <3> QED
      BY <2>3, <3>1, <3>2
  <2>7. CASE \/ \E numbered \in BOOLEAN, step \in Nat : WritePacket(d, numbered, step)
             \/ \E stamp \in Int : FlushPacket(d, stamp)
    <3>1. frameQ'[d] = frameQ[d] /\ taken'[d] = taken[d] /\ coding[d] # <<>> /\ coding'[d] = Tail(coding[d])
      BY <2>7 DEF WritePacket, FlushPacket, TypeOK, EncoderType
    <3> QED
      BY <2>2, <3>1
  <2> QED
    BY <2>4, <2>5, <2>6, <2>7 DEF EncoderStep
<1> QED
  BY <1>2, <1>4, <1>5 DEF Rest, NotHigher

\* Every step of a server brings one of its threads closer to its end and takes
\* none further from it, in a dictionary order on natural numbers that has no
\* endless descent: whatever fails, is lost, retried or flushed, a server makes a
\* bounded number of steps.
THEOREM TranscoderWorkRunsOut == Spec => [](LeftOK) /\ WorkRunsOut
<1>1. Init => FlushLast
  BY DEF Init, FlushLast
<1>2. ASSUME TypeOK, TypeOK', FlushLast, [Next]_vars, ~UNCHANGED vars
      PROVE  LeavesLess
  <2>1. CASE MainStep
    BY <1>2, <2>1, MainWork DEF Rest, LeavesLess
  <2>2. CASE Reader
    BY <1>2, <2>2, ReaderWork DEF Rest, NotHigher, LeavesLess
  <2>3. CASE DecoderStep
    BY <1>2, <2>3, DecoderWork DEF Rest, NotHigher, LeavesLess
  <2>4. CASE program = "simple" /\ SimpleStep
    BY <1>2, <2>4, SimpleWork DEF Rest, NotHigher, LeavesLess
  <2>5. ASSUME NEW d \in Encoders, EncoderStep(d)
        PROVE  /\ UNCHANGED <<MainLeft, ReaderLeft, DecoderLeft>>
               /\ Lower(EncoderLeft(d)', EncoderLeft(d)) /\ \A e \in Encoders : Rest(e)
    BY <1>2, <2>5, EncoderWork
  <2> QED
    BY <1>2, <2>1, <2>2, <2>3, <2>4, <2>5, StepIsShared DEF Rest, NotHigher, LeavesLess
<1>3. TypeOK /\ TypeOK' /\ FlushLast /\ [Next]_vars => [LeavesLess]_vars
  BY <1>2
<1> QED
  BY <1>1, <1>3, StepFlushLast, TranscoderType, LeftTypes, PTL DEF Spec, WorkRunsOut

\* The half of termination that needs no scheduling: in every server no thread waits
\* in vain, but for the two start-up failures, and each step leaves less to do.
THEOREM TranscoderProgress == Spec => Progress
  BY TranscoderWaits, TranscoderWorkRunsOut, PTL DEF Progress, WorkRunsOut
=============================================================================
