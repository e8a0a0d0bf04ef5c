----------------------------- MODULE RtspAuthProofs -----------------------------
(***************************************************************************)
(* Theorems about RtspAuth, for every window and bound, every cut of the   *)
(* bytes into chunks and every kind of camera: the types, that Digest      *)
(* credentials go with every request once the camera has asked for them,   *)
(* and that the proxy with its two ends implements RtspSession.            *)
(*                                                                         *)
(* The refinement rests on an invariant, Dialogue, about what is on its    *)
(* way: the units between the client and the camera are those of the       *)
(* messages sent and not taken, in order; the units between the camera and *)
(* the client, with what the client has received, tell what was said; the  *)
(* headers are those the mode promises; and the modes of the dance go with *)
(* where the first request and its answer are.  What the proxy reads moves *)
(* units along and changes headers, which leaves the invariant as it is.   *)
(***************************************************************************)
EXTENDS RtspAuth, SequenceTheorems, FiniteSetTheorems, WellFoundedInduction, TLAPS

--------------------------------------------------------------------------------
(* The least and the greatest of some numbers *)

Less == OpToRel(<, Nat)

LEMMA LessIs == \A x, y \in Nat : x < y => <<x, y>> \in Less
BY DEF OpToRel, Less

LEMMA LeastExists ==
  ASSUME NEW S, S \subseteq Nat, S # {}
  PROVE  \E x \in S : \A y \in S : <<y, x>> \notin Less
<1>1. IsWellFoundedOn(Less, Nat)
  BY NatLessThanWellFounded DEF Less
<1> QED
  BY <1>1, WFMin

LEMMA MinIs ==
  ASSUME NEW S, S \subseteq Nat, S # {}
  PROVE  Min(S) \in S /\ \A y \in S : Min(S) <= y
<1>1. PICK x \in S : \A y \in S : <<y, x>> \notin Less
  BY LeastExists
<1>2. x \in Nat /\ \A y \in S : y \in Nat
  BY <1>1
<1>3. \A y \in S : ~(y < x)
  BY <1>1, <1>2, LessIs
<1>4. \A y \in S : x <= y
  BY <1>2, <1>3
<1> QED
  BY <1>4 DEF Min

LEMMA MaxIs ==
  ASSUME NEW n \in Nat, NEW S, S \subseteq 0..n, S # {}
  PROVE  Max(S) \in S /\ \A y \in S : Max(S) >= y
<1> DEFINE T == {n - x : x \in S}
<1>a. T \subseteq Nat
  OBVIOUS
<1>b. T # {}
  OBVIOUS
<1>2. Min(T) \in T /\ \A y \in T : Min(T) <= y
  <2> HIDE DEF T
  <2> QED
    BY <1>a, <1>b, MinIs
<1>3. PICK x \in S : Min(T) = n - x
  BY <1>2
<1>4. \A y \in S : n - x <= n - y
  BY <1>2, <1>3
<1>5. \E z \in S : \A y \in S : z >= y
  BY <1>4
<1> QED
  BY <1>5 DEF Max

--------------------------------------------------------------------------------
(* Buffers *)

LEMMA Cut ==
  ASSUME NEW S, NEW buf \in Seq(S), NEW i \in 0..Len(buf)
  PROVE  /\ Upto(buf, i) \in Seq(S) /\ Len(Upto(buf, i)) = i
         /\ \A j \in 1..i : Upto(buf, i)[j] = buf[j]
         /\ After(buf, i) \in Seq(S) /\ Len(After(buf, i)) = Len(buf) - i
         /\ \A j \in 1..(Len(buf) - i) : After(buf, i)[j] = buf[i + j]
<1>1. Len(buf) \in Nat /\ \A j \in 1..Len(buf) : buf[j] \in S
  BY LenProperties, ElementOfSeq
<1>2. \A j \in 1..i : buf[j] \in S
  BY <1>1
<1>3. \A j \in (i + 1)..Len(buf) : buf[j] \in S
  BY <1>1
<1>4. /\ Upto(buf, i) \in Seq(S) /\ Len(Upto(buf, i)) = i
      /\ \A j \in 1..i : Upto(buf, i)[j] = buf[j]
  BY <1>2, SubSeqProperties DEF Upto
<1>5. /\ After(buf, i) \in Seq(S) /\ Len(After(buf, i)) = Len(buf) - i
      /\ \A j \in 1..(Len(buf) - i) : After(buf, i)[j] = buf[i + j]
  <2>1. /\ After(buf, i) \in Seq(S)
        /\ Len(After(buf, i)) = IF i + 1 <= Len(buf) THEN Len(buf) - (i + 1) + 1 ELSE 0
        /\ \A j \in 1..(Len(buf) - (i + 1) + 1) : After(buf, i)[j] = buf[i + 1 + j - 1]
    BY <1>1, <1>3, SubSeqProperties DEF After
  <2>2. Len(After(buf, i)) = Len(buf) - i
    BY <1>1, <2>1
  <2>3. Len(buf) - (i + 1) + 1 = Len(buf) - i /\ \A j \in Nat : i + 1 + j - 1 = i + j
    BY <1>1
  <2>4. ASSUME NEW j \in 1..(Len(buf) - i)
        PROVE  After(buf, i)[j] = buf[i + j]
    <3>1. j \in 1..(Len(buf) - (i + 1) + 1) /\ i + 1 + j - 1 = i + j
      BY <1>1, <2>3
    <3> QED
      BY <2>1, <3>1
  <2> QED
    BY <2>1, <2>2, <2>4
<1> QED
  BY <1>4, <1>5

LEMMA EndsAre ==
  ASSUME NEW S, NEW buf \in Seq(S)
  PROVE  /\ Ends(buf) \subseteq 1..Len(buf) /\ Len(buf) \in Nat
         /\ \A i \in 1..Len(buf) : i \in Ends(buf) <=> buf[i].part = "end"
  BY LenProperties DEF Ends

\* findRtspMessageEnd: the end of the first complete message, or none.
LEMMA FirstEnd ==
  ASSUME NEW S, NEW buf \in Seq(S)
  PROVE  /\ FindRtspMessageEnd(buf) \in 0..Len(buf)
         /\ FindRtspMessageEnd(buf) # 0 =>
              /\ FindRtspMessageEnd(buf) \in Ends(buf)
              /\ \A j \in Ends(buf) : FindRtspMessageEnd(buf) <= j
<1>1. Ends(buf) \subseteq 1..Len(buf) /\ Len(buf) \in Nat
  BY EndsAre
<1>2. CASE Ends(buf) = {}
  BY <1>1, <1>2 DEF FindRtspMessageEnd
<1>3. CASE Ends(buf) # {}
  <2>1. Min(Ends(buf)) \in Ends(buf) /\ \A y \in Ends(buf) : Min(Ends(buf)) <= y
    BY <1>1, <1>3, MinIs
  <2> QED
    BY <1>1, <1>3, <2>1 DEF FindRtspMessageEnd
<1> QED
  BY <1>2, <1>3

\* The end of the last complete message, or none.
LastEnd(buf) == Max(Ends(buf) \cup {0})

LEMMA LastEndIs ==
  ASSUME NEW S, NEW buf \in Seq(S)
  PROVE  /\ LastEnd(buf) \in 0..Len(buf)
         /\ LastEnd(buf) = 0 \/ LastEnd(buf) \in Ends(buf)
         /\ \A j \in Ends(buf) : j <= LastEnd(buf)
<1>1. Ends(buf) \subseteq 1..Len(buf) /\ Len(buf) \in Nat
  BY EndsAre
<1>2. Ends(buf) \cup {0} \subseteq 0..Len(buf)
  BY <1>1
<1>3. /\ LastEnd(buf) \in Ends(buf) \cup {0}
      /\ \A y \in Ends(buf) \cup {0} : LastEnd(buf) >= y
  BY <1>1, <1>2, MaxIs DEF LastEnd
<1> QED
  BY <1>1, <1>2, <1>3

\* What is read from the wire and what is left on it are what was on it.
LEMMA Rejoined ==
  ASSUME NEW S, NEW s \in Seq(S), NEW t \in Seq(S), NEW n \in 0..Len(t)
  PROVE  (s \o Upto(t, n)) \o After(t, n) = s \o t
<1>1. Len(t) \in Nat /\ 1 \in 1..(Len(t) + 1) /\ n \in (1 - 1)..Len(t) /\ Len(t) \in n..Len(t)
  BY LenProperties
<1>2. Upto(t, n) \o After(t, n) = SubSeq(t, 1, Len(t))
  BY <1>1, ConcatAdjacentSubSeq DEF Upto, After
<1>3. SubSeq(t, 1, Len(t)) = t
  BY SubSeqFull
<1> DEFINE u == Upto(t, n)
           v == After(t, n)
<1>4. u \in Seq(S) /\ v \in Seq(S)
  BY Cut
<1>a. u \o v = t
  BY <1>2, <1>3
<1> HIDE DEF u, v
<1>5. (s \o u) \o v = s \o (u \o v)
  BY <1>4, ConcatAssociative
<1>6. (s \o u) \o v = s \o t
  BY <1>a, <1>5
<1> QED
  BY <1>6 DEF u, v

LEMMA AfterConcat ==
  ASSUME NEW S, NEW b \in Seq(S), NEW t \in Seq(S), NEW e \in 0..Len(b)
  PROVE  After(b, e) \o t = After(b \o t, e)
<1>1. /\ Len(b) \in Nat /\ Len(t) \in Nat
      /\ b \o t \in Seq(S) /\ Len(b \o t) = Len(b) + Len(t)
      /\ \A i \in 1 .. Len(b) + Len(t) :
           (b \o t)[i] = IF i <= Len(b) THEN b[i] ELSE t[i - Len(b)]
  BY LenProperties, ConcatProperties
<1>2. e \in 0..Len(b \o t)
  BY <1>1
<1> DEFINE l == After(b, e)
           r == After(b \o t, e)
<1>3. /\ l \in Seq(S) /\ Len(l) = Len(b) - e
      /\ \A j \in 1..(Len(b) - e) : l[j] = b[e + j]
  BY Cut
<1>4. /\ r \in Seq(S) /\ Len(r) = Len(b \o t) - e
      /\ \A j \in 1..(Len(b \o t) - e) : r[j] = (b \o t)[e + j]
  BY <1>1, <1>2, Cut
<1> HIDE DEF l, r
<1>5. /\ l \o t \in Seq(S) /\ Len(l \o t) = Len(l) + Len(t)
      /\ \A i \in 1 .. Len(l) + Len(t) :
           (l \o t)[i] = IF i <= Len(l) THEN l[i] ELSE t[i - Len(l)]
  BY <1>3, ConcatProperties
<1>6. Len(l \o t) = Len(r)
  BY <1>1, <1>3, <1>4, <1>5
<1>7. ASSUME NEW i \in 1..Len(l \o t)
      PROVE  (l \o t)[i] = r[i]
  <2>1. /\ i \in 1..(Len(b \o t) - e) /\ i \in 1 .. Len(l) + Len(t)
        /\ e + i \in 1 .. Len(b) + Len(t)
    BY <1>1, <1>3, <1>5, <1>7
  <2>2. r[i] = IF e + i <= Len(b) THEN b[e + i] ELSE t[e + i - Len(b)]
    BY <1>1, <1>4, <2>1
  <2>3. CASE i <= Len(l)
    <3>1. i \in 1..(Len(b) - e) /\ e + i <= Len(b)
      BY <1>1, <1>3, <2>1, <2>3
    <3> QED
      BY <1>3, <1>5, <2>1, <2>2, <2>3, <3>1
  <2>4. CASE ~(i <= Len(l))
    <3>1. ~(e + i <= Len(b)) /\ e + i - Len(b) = i - Len(l)
      BY <1>1, <1>3, <2>1, <2>4
    <3> QED
      BY <1>5, <2>1, <2>2, <2>4, <3>1
  <2> QED
    BY <2>3, <2>4
<1>8. l \o t = r
  BY <1>4, <1>5, <1>6, <1>7, SeqEqual
<1> QED
  BY <1>8 DEF l, r

LEMMA FunctionIsSeq ==
  ASSUME NEW S, NEW n \in Nat, NEW f \in [1..n -> S]
  PROVE  f \in Seq(S) /\ Len(f) = n
OBVIOUS

--------------------------------------------------------------------------------
(* What the client has sent and the proxy has not passed on *)

\* Requests and nothing else: start lines and blank lines in turn.
Paired(s) ==
  /\ \A i \in 1..Len(s) : s[i].part \in {"line", "end"}
  /\ s # <<>> => s[1].part = "line" /\ s[Len(s)].part = "end"
  /\ \A i \in 2..Len(s) : s[i].part # s[i - 1].part

Signed(s) == \A i \in 1..Len(s) : s[i].part = "end" => s[i].header = "authorization"

LEMMA PairedAfter ==
  ASSUME NEW s \in Seq(Upstream), NEW e \in 0..Len(s), Paired(s),
         e = 0 \/ s[e].part = "end"
  PROVE  Paired(After(s, e))
<1> DEFINE r == After(s, e)
<1>1. /\ r \in Seq(Upstream) /\ Len(r) = Len(s) - e /\ Len(s) \in Nat
      /\ \A j \in 1..(Len(s) - e) : r[j] = s[e + j]
  BY Cut, LenProperties
<1> HIDE DEF r
<1>2. \A i \in 1..Len(r) : r[i].part \in {"line", "end"}
  BY <1>1 DEF Paired
<1>3. ASSUME r # <<>> PROVE r[1].part = "line" /\ r[Len(r)].part = "end"
  <2>1. Len(r) > 0
    BY <1>1, <1>3, EmptySeq
  <2>2. 1 \in 1..(Len(s) - e) /\ Len(r) \in 1..(Len(s) - e) /\ Len(s) > 0
    BY <1>1, <2>1
  <2>3. r[1] = s[e + 1] /\ r[Len(r)] = s[Len(s)]
    <3>1. r[1] = s[e + 1] /\ r[Len(r)] = s[e + Len(r)]
      BY <1>1, <2>2
    <3>2. e + Len(r) = Len(s)
      BY <1>1
    <3> QED
      BY <3>1, <3>2
  <2>4. s # <<>>
    BY <2>2, EmptySeq
  <2>5. s[Len(s)].part = "end" /\ s[1].part = "line"
    BY <2>4 DEF Paired
  <2>6. CASE e = 0
    BY <2>3, <2>5, <2>6
  <2>7. CASE e # 0
    <3>1. e + 1 \in 2..Len(s) /\ e + 1 \in 1..Len(s) /\ e + 1 - 1 = e
      BY <1>1, <2>2, <2>7
    <3>2. /\ \A i \in 2..Len(s) : s[i].part # s[i - 1].part
          /\ s[e + 1].part \in {"line", "end"}
      BY <3>1 DEF Paired
    <3>3. s[e + 1].part # s[e].part
      <4>1. s[e + 1].part # s[e + 1 - 1].part
        BY <3>1, <3>2
      <4> QED
        BY <3>1, <4>1
    <3>4. s[e].part = "end"
      BY <2>7
    <3>5. s[e + 1].part = "line"
      BY <3>2, <3>3, <3>4
    <3> QED
      BY <2>3, <2>5, <3>5
  <2> QED
    BY <2>6, <2>7
<1>4. ASSUME NEW i \in 2..Len(r) PROVE r[i].part # r[i - 1].part
  <2>1. /\ i \in 1..(Len(s) - e) /\ i - 1 \in 1..(Len(s) - e)
        /\ e + i \in 2..Len(s) /\ e + (i - 1) = e + i - 1
    BY <1>1, <1>4
  <2>2. r[i] = s[e + i] /\ r[i - 1] = s[e + i - 1]
    BY <1>1, <2>1
  <2> QED
    BY <2>1, <2>2 DEF Paired
<1>5. Paired(r)
  BY <1>2, <1>3, <1>4 DEF Paired
<1> QED
  BY <1>5 DEF r

LEMMA PairedAndRequest ==
  ASSUME NEW s \in Seq(Upstream), Paired(s),
         NEW q \in Seq(Upstream), Len(q) = 2, q[1].part = "line", q[2].part = "end"
  PROVE  Paired(s \o q)
<1> DEFINE r == s \o q
<1>a. /\ r \in Seq(Upstream) /\ Len(r) = Len(s) + Len(q) /\ Len(s) \in Nat
      /\ \A i \in 1 .. Len(s) + Len(q) :
           r[i] = IF i <= Len(s) THEN s[i] ELSE q[i - Len(s)]
  BY ConcatProperties, LenProperties
<1> HIDE DEF r
<1>1. /\ r \in Seq(Upstream) /\ Len(r) = Len(s) + 2 /\ Len(s) \in Nat
      /\ \A i \in 1 .. Len(s) + 2 : r[i] = IF i <= Len(s) THEN s[i] ELSE q[i - Len(s)]
  BY <1>a
<1>2. \A i \in 1..Len(s) : i \in 1 .. Len(s) + 2 /\ i <= Len(s)
  BY <1>1
<1>3. \A i \in 1..Len(s) : r[i] = s[i]
  BY <1>1, <1>2
<1>4. r[Len(s) + 1] = q[1] /\ r[Len(s) + 2] = q[2]
  <2>1. /\ Len(s) + 1 \in 1 .. Len(s) + 2 /\ ~(Len(s) + 1 <= Len(s))
        /\ Len(s) + 2 \in 1 .. Len(s) + 2 /\ ~(Len(s) + 2 <= Len(s))
        /\ Len(s) + 1 - Len(s) = 1 /\ Len(s) + 2 - Len(s) = 2
    BY <1>1
  <2>2. r[Len(s) + 1] = q[Len(s) + 1 - Len(s)]
    BY <1>1, <2>1
  <2>3. r[Len(s) + 2] = q[Len(s) + 2 - Len(s)]
    BY <1>1, <2>1
  <2> QED
    BY <2>1, <2>2, <2>3
<1>5. ASSUME NEW i \in 1..Len(r) PROVE r[i].part \in {"line", "end"}
  <2>1. i \in 1..Len(s) \/ i = Len(s) + 1 \/ i = Len(s) + 2
    BY <1>1, <1>5
  <2> QED
    BY <1>3, <1>4, <2>1 DEF Paired
<1>6. r[1].part = "line"
  <2>1. CASE s = <<>>
    <3>1. Len(s) + 1 = 1
      BY <2>1, EmptySeq
    <3> QED
      BY <1>4, <3>1
  <2>2. CASE s # <<>>
    <3>1. 1 \in 1..Len(s)
      BY <1>1, <2>2, EmptySeq
    <3> QED
      BY <1>3, <2>2, <3>1 DEF Paired
  <2> QED
    BY <2>1, <2>2
<1>7. r[Len(r)].part = "end"
  BY <1>1, <1>4
<1>8. ASSUME NEW i \in 2..Len(r) PROVE r[i].part # r[i - 1].part
  <2>1. CASE i <= Len(s)
    <3>1. i \in 1..Len(s) /\ i - 1 \in 1..Len(s) /\ i \in 2..Len(s)
      BY <1>1, <1>8, <2>1
    <3> QED
      BY <1>3, <3>1 DEF Paired
  <2>2. CASE i = Len(s) + 1
    <3>1. Len(s) \in 1..Len(s) /\ i - 1 = Len(s) /\ Len(s) # 0
      BY <1>1, <1>8, <2>2
    <3>2. s # <<>>
      BY <3>1, EmptySeq
    <3>3. r[i - 1].part = "end"
      BY <1>3, <3>1, <3>2 DEF Paired
    <3> QED
      BY <1>4, <2>2, <3>3
  <2>3. CASE i = Len(s) + 2
    <3>1. i - 1 = Len(s) + 1
      BY <1>1, <2>3
    <3> QED
      BY <1>4, <2>3, <3>1
  <2> QED
    BY <1>1, <1>8, <2>1, <2>2, <2>3
<1>9. Paired(r)
  BY <1>5, <1>6, <1>7, <1>8 DEF Paired
<1> QED
  BY <1>9 DEF r

--------------------------------------------------------------------------------
(* What is written for the complete requests of a buffer *)

LEMMA StartIs ==
  ASSUME NEW w \in Seq(Upstream), NEW i \in 1..Len(w)
  PROVE  /\ MessageStart(w, i) \in 1..i
         /\ \/ MessageStart(w, i) = 1
            \/ \E j \in Ends(w) : MessageStart(w, i) = j + 1
<1> DEFINE before == {j \in Ends(w) : j < i}
           B == {j + 1 : j \in before} \cup {1}
<1>1. Ends(w) \subseteq 1..Len(w) /\ Len(w) \in Nat
  BY EndsAre
<1>2. before \subseteq 1..(i - 1)
  BY <1>1
<1>3. B \subseteq 0..i
  BY <1>1, <1>2
<1>4. B # {} /\ i \in Nat
  BY <1>1
<1>5. MessageStart(w, i) = Max(B)
  BY DEF MessageStart
<1>6. Max(B) \in B
  <2> HIDE DEF B
  <2> QED
    BY <1>3, <1>4, MaxIs
<1>7. PICK b \in B : b = MessageStart(w, i)
  BY <1>5, <1>6
<1>8. CASE b = 1
  BY <1>1, <1>7, <1>8
<1>9. CASE b # 1
  <2>1. PICK j \in before : b = j + 1
    BY <1>9
  <2>2. j \in Ends(w) /\ j \in 1..(i - 1)
    BY <1>2, <2>1
  <2> QED
    BY <1>1, <1>7, <2>1, <2>2
<1> QED
  BY <1>8, <1>9

LEMMA InjectedIs ==
  ASSUME NEW buf \in Seq(Upstream)
  PROVE  /\ Injected(buf) \in Seq(Upstream) /\ Len(Injected(buf)) = LastEnd(buf)
         /\ Incomplete(buf) \in Seq(Upstream)
         /\ Incomplete(buf) = After(buf, LastEnd(buf))
<1> DEFINE w == Upto(buf, LastEnd(buf))
           f == Injected(buf)
<1>1. LastEnd(buf) \in 0..Len(buf) /\ Len(buf) \in Nat
  BY LastEndIs, LenProperties
<1>2. w \in Seq(Upstream) /\ Len(w) = LastEnd(buf) /\ DOMAIN w = 1..Len(w)
  BY <1>1, Cut, LenProperties
<1>3. \A i \in 1..Len(w) : w[i] \in Upstream
  <2> HIDE DEF w
  <2> QED
    BY <1>2, ElementOfSeq
<1>4. \A u \in Upstream : [u EXCEPT !.header = "authorization"] \in Upstream
  BY DEF Upstream, Units
<1>5. f = [i \in 1..Len(w) |->
             IF w[i].part = "end" /\ w[MessageStart(w, i)].part = "line"
             THEN [w[i] EXCEPT !.header = "authorization"]
             ELSE w[i]]
  BY <1>2 DEF Injected, LastEnd
<1>6. f \in [1..Len(w) -> Upstream]
  <2> HIDE DEF w
  <2> QED
    BY <1>3, <1>4, <1>5
<1>7. f \in Seq(Upstream) /\ Len(f) = Len(w)
  <2> HIDE DEF f, w
  <2> QED
    BY <1>1, <1>2, <1>6, FunctionIsSeq
<1>8. Incomplete(buf) = After(buf, LastEnd(buf))
  BY DEF Incomplete, LastEnd
<1> QED
  BY <1>1, <1>2, <1>7, <1>8, Cut

\* Every request among them leaves with Authorization, when the buffer holds
\* requests and nothing else.
LEMMA InjectedIsSigned ==
  ASSUME NEW buf \in Seq(Upstream), NEW rest \in Seq(Upstream), Paired(buf \o rest)
  PROVE  Signed(Injected(buf))
<1> DEFINE w == Upto(buf, LastEnd(buf))
           f == Injected(buf)
           s == buf \o rest
<1>1. LastEnd(buf) \in 0..Len(buf) /\ Len(buf) \in Nat /\ Len(rest) \in Nat
  BY LastEndIs, LenProperties
<1>2. /\ w \in Seq(Upstream) /\ Len(w) = LastEnd(buf) /\ DOMAIN w = 1..Len(w)
      /\ \A j \in 1..LastEnd(buf) : w[j] = buf[j]
  BY <1>1, Cut, LenProperties
<1>3. f = [i \in 1..Len(w) |->
             IF w[i].part = "end" /\ w[MessageStart(w, i)].part = "line"
             THEN [w[i] EXCEPT !.header = "authorization"]
             ELSE w[i]]
  BY <1>2 DEF Injected, LastEnd
<1>4. Len(f) = Len(w)
  BY <1>2, InjectedIs
<1>5. /\ s \in Seq(Upstream) /\ Len(s) = Len(buf) + Len(rest)
      /\ \A i \in 1 .. Len(buf) + Len(rest) :
           s[i] = IF i <= Len(buf) THEN buf[i] ELSE rest[i - Len(buf)]
  BY ConcatProperties
<1>6. \A u \in Upstream : [u EXCEPT !.header = "authorization"].header = "authorization"
  BY DEF Upstream, Units
<1>p. Paired(s)
  OBVIOUS
<1> HIDE DEF w, f, s
<1>7. ASSUME NEW i \in 1..Len(w) PROVE w[i] = s[i] /\ i \in 1..Len(s) /\ w[i] \in Upstream
  <2>1. i \in 1..LastEnd(buf) /\ i \in 1 .. Len(buf) + Len(rest) /\ i <= Len(buf)
    BY <1>1, <1>2
  <2> QED
    BY <1>2, <1>5, <2>1, ElementOfSeq
<1>8. ASSUME NEW i \in 1..Len(w) PROVE w[MessageStart(w, i)].part = "line"
  <2> DEFINE m == MessageStart(w, i)
  <2>1. m \in 1..i /\ (m = 1 \/ \E j \in Ends(w) : m = j + 1)
    BY <1>2, StartIs
  <2> HIDE DEF m
  <2>2. m \in 1..Len(w)
    BY <1>1, <1>2, <2>1
  <2>3. w[m] = s[m] /\ m \in 1..Len(s)
    BY <1>7, <2>2
  <2>4. ASSUME m = 1 PROVE w[m].part = "line"
    <3>1. s # <<>>
      BY <2>3, EmptySeq
    <3>2. s[1].part = "line"
      BY <1>p, <3>1 DEF Paired
    <3> QED
      BY <2>3, <2>4, <3>2
  <2>5. ASSUME NEW j \in Ends(w), m = j + 1 PROVE w[m].part = "line"
    <3>1. j \in 1..Len(w) /\ w[j].part = "end"
      BY <1>2, EndsAre
    <3>2. w[j] = s[j]
      BY <1>7, <3>1
    <3>3. m \in 2..Len(s) /\ m - 1 = j
      BY <1>1, <1>5, <2>3, <2>5, <3>1
    <3>4. s[m].part # s[m - 1].part /\ s[m].part \in {"line", "end"}
      <4>1. \A k \in 2..Len(s) : s[k].part # s[k - 1].part
        BY <1>p DEF Paired
      <4>2. \A k \in 1..Len(s) : s[k].part \in {"line", "end"}
        BY <1>p DEF Paired
      <4> QED
        BY <2>3, <3>3, <4>1, <4>2
    <3>5. s[m].part # s[j].part
      BY <3>3, <3>4
    <3> QED
      BY <2>3, <3>1, <3>2, <3>4, <3>5
  <2>6. w[m].part = "line"
    BY <2>1, <2>4, <2>5
  <2> QED
    BY <2>6 DEF m
<1>9. ASSUME NEW i \in 1..Len(f), f[i].part = "end" PROVE f[i].header = "authorization"
  <2>1. i \in 1..Len(w) /\ w[i] \in Upstream
    BY <1>4, <1>7
  <2>2. w[MessageStart(w, i)].part = "line"
    BY <1>8, <2>1
  <2>3. f[i] = IF w[i].part = "end" THEN [w[i] EXCEPT !.header = "authorization"] ELSE w[i]
    BY <1>3, <2>1, <2>2
  <2>4. CASE w[i].part = "end"
    <3>1. f[i] = [w[i] EXCEPT !.header = "authorization"]
      BY <2>3, <2>4
    <3> QED
      BY <1>6, <2>1, <3>1
  <2>5. CASE w[i].part # "end"
    BY <1>9, <2>3, <2>5
  <2> QED
    BY <2>4, <2>5
<1>10. Signed(f)
  BY <1>9 DEF Signed
<1> QED
  BY <1>10 DEF f

--------------------------------------------------------------------------------
(* Types *)

\* TypeOK, a variable at a time.
Wires ==
  /\ clientBuf \in Seq(Upstream) /\ pending \in Seq(Upstream)
  /\ fromClient \in Seq(Upstream) /\ toCamera \in Seq(Upstream)
  /\ remoteBuf \in Seq(Downstream) /\ fromCamera \in Seq(Downstream)
  /\ received \in Seq(Downstream)

History ==
  sent \in Seq(Messages) /\ taken \in Seq(Messages) /\ said \in Seq(Sayings)

Phases ==
  /\ client \in Clients /\ camera \in Cameras /\ mode \in Modes
  /\ challenge \in BOOLEAN /\ immediate \in BOOLEAN
  /\ mode = "PASSTHROUGH" => clientBuf = <<>>
  /\ mode \in {"DETECTING", "PASSTHROUGH", "INJECTING"} => remoteBuf = <<>>
  /\ mode \in {"AUTH_NEED", "AUTH_RESPONDING"} => Ends(pending) = {Len(pending)}
  /\ challenge => mode \in {"AUTH_RESPONDING", "INJECTING"}
  /\ mode \in {"AUTH_RESPONDING", "INJECTING"} => challenge

LEMMA TypeOKIs ==
  /\ TypeOK <=> Wires /\ History /\ Phases
  /\ TypeOK' <=> Wires' /\ History' /\ Phases'
BY DEF TypeOK, Wires, History, Phases

\* A chunk of the wire, after what the buffer holds.
LEMMA Read ==
  ASSUME NEW S, NEW s \in Seq(S), NEW t \in Seq(S), NEW n \in 0..Len(t)
  PROVE  /\ Upto(t, n) \in Seq(S) /\ After(t, n) \in Seq(S)
         /\ s \o Upto(t, n) \in Seq(S)
  BY Cut, ConcatProperties

\* The first message of a buffer has one end, and its headers there.
LEMMA FirstMessage ==
  ASSUME NEW S, NEW buf \in Seq(S), NEW end, end = FindRtspMessageEnd(buf), end > 0
  PROVE  /\ end \in 1..Len(buf) /\ buf[end].part = "end"
         /\ Upto(buf, end) \in Seq(S) /\ After(buf, end) \in Seq(S)
         /\ Len(Upto(buf, end)) = end /\ Upto(buf, end)[end] = buf[end]
         /\ Ends(Upto(buf, end)) = {end}
<1>1. /\ end \in 0..Len(buf) /\ Len(buf) \in Nat /\ end \in Ends(buf)
      /\ \A j \in Ends(buf) : end <= j
  BY FirstEnd, EndsAre
<1>2. end \in 1..Len(buf) /\ buf[end].part = "end"
  BY <1>1, EndsAre
<1> DEFINE u == Upto(buf, end)
<1>3. /\ u \in Seq(S) /\ Len(u) = end /\ After(buf, end) \in Seq(S)
      /\ \A j \in 1..end : u[j] = buf[j]
  BY <1>1, Cut
<1> HIDE DEF u
<1>4. /\ Ends(u) \subseteq 1..end
      /\ \A i \in 1..end : i \in Ends(u) <=> u[i].part = "end"
  BY <1>3, EndsAre
<1>5. u[end] = buf[end] /\ end \in Ends(u)
  BY <1>2, <1>3, <1>4
<1>6. ASSUME NEW j \in Ends(u) PROVE j = end
  <2>1. j \in 1..end /\ buf[j].part = "end" /\ j \in 1..Len(buf)
    BY <1>1, <1>3, <1>4
  <2>2. j \in Ends(buf)
    BY <2>1, EndsAre
  <2> QED
    BY <1>1, <2>1, <2>2
<1>7. Ends(u) = {end}
  BY <1>5, <1>6
<1> QED
  BY <1>2, <1>3, <1>5, <1>7 DEF u

LEMMA UnitsAreTyped ==
  ASSUME NEW id \in Nat
  PROVE  /\ Unit("line", id, "none") \in Upstream /\ Unit("data", id, "none") \in Upstream
         /\ Unit("end", id, "none") \in Upstream
         /\ Unit("end", id, "authorization") \in Upstream
         /\ Unit("line", id, "none") \in Downstream
         /\ Unit("data", id, "none") \in Downstream
         /\ \A v \in {"ok", "digest", "refusal"} : Unit("end", id, v) \in Downstream
         /\ Session!Request(id) \in Messages /\ Session!Data(id) \in Messages
         /\ Session!Answer(id) \in Sayings /\ Session!Frame(id) \in Sayings
<1>1. /\ Unit("line", id, "none") \in Upstream /\ Unit("data", id, "none") \in Upstream
      /\ Unit("end", id, "none") \in Upstream
      /\ Unit("end", id, "authorization") \in Upstream
  BY DEF Unit, Upstream, Units
<1>2. /\ Unit("line", id, "none") \in Downstream
      /\ Unit("data", id, "none") \in Downstream
      /\ \A v \in {"ok", "digest", "refusal"} : Unit("end", id, v) \in Downstream
  BY DEF Unit, Downstream, Units
<1>3. Session!Request(id) \in Messages /\ Session!Data(id) \in Messages
  BY DEF Session!Request, Session!Data, Messages
<1>4. Session!Frame(id) \in Sayings
  BY DEF Session!Frame, Sayings
<1>5. Accepts \in BOOLEAN
  BY DEF Accepts
<1>6. Session!Answer(id) \in Sayings
  BY <1>5 DEF Session!Answer, Sayings
<1> QED
  BY <1>1, <1>2, <1>3, <1>4, <1>6

LEMMA InitTyped == Init => TypeOK
<1> SUFFICES ASSUME Init PROVE Wires /\ History /\ Phases
  BY TypeOKIs
<1>1. Wires
  BY EmptySeq DEF Init, Wires
<1>2. History
  BY EmptySeq DEF Init, History
<1>3. Phases
  <2>1. client \in Clients /\ camera \in Cameras /\ challenge = FALSE /\ immediate = FALSE
    BY DEF Init
  <2>2. mode = "DETECTING" /\ remoteBuf = <<>>
    BY DEF Init
  <2>3. ~(mode \in {"AUTH_RESPONDING", "INJECTING"})
    BY <2>2
  <2>4. challenge \in BOOLEAN /\ ~challenge /\ immediate \in BOOLEAN
    BY <2>1
  <2>5. mode \in Modes /\ ~(mode \in {"AUTH_NEED", "AUTH_RESPONDING"})
    BY <2>2 DEF Modes
  <2> QED
    BY <2>1, <2>2, <2>3, <2>4, <2>5 DEF Phases
<1> QED
  BY <1>1, <1>2, <1>3

\* What the client and the camera send.
LEMMA EndsSendTyped ==
  ASSUME TypeOK, ClientStep \/ CameraStep
  PROVE  TypeOK'
<1>0. Wires /\ History /\ Phases
  BY TypeOKIs
<1>l. Len(sent) \in Nat /\ Len(said) \in Nat
  BY <1>0, LenProperties DEF History
<1>1. CASE ClientSendsRequest
  <2> DEFINE id == Len(sent) + 1
             h == IF client = "own" THEN "authorization" ELSE "none"
  <2>1. id \in Nat /\ (h = "authorization" \/ h = "none")
    BY <1>l
  <2>2. /\ sent' = Append(sent, Session!Request(id))
        /\ fromClient' = fromClient \o <<Unit("line", id, "none"), Unit("end", id, h)>>
        /\ UNCHANGED <<client, camera, proxyVars, toCamera, fromCamera, received,
                       taken, said>>
    BY <1>1 DEF ClientSendsRequest
  <2>u. /\ UNCHANGED <<client, camera, mode, clientBuf, remoteBuf, pending, challenge>>
        /\ UNCHANGED <<immediate, toCamera, fromCamera, received, taken, said>>
    BY <2>2 DEF proxyVars
  <2> HIDE DEF id, h
  <2>3. Unit("line", id, "none") \in Upstream /\ Unit("end", id, h) \in Upstream
    BY <2>1, UnitsAreTyped
  <2>4. <<Unit("line", id, "none"), Unit("end", id, h)>> \in Seq(Upstream)
    BY <2>3
  <2>5. fromClient' \in Seq(Upstream)
    BY <1>0, <2>2, <2>4, ConcatProperties DEF Wires
  <2>6. sent' \in Seq(Messages)
    BY <1>0, <2>1, <2>2, UnitsAreTyped, AppendProperties DEF History
  <2>7. Wires'
    BY <1>0, <2>5, <2>u DEF Wires
  <2>8. History'
    BY <1>0, <2>6, <2>u DEF History
  <2>9. Phases'
    BY <1>0, <2>u DEF Phases
  <2> QED
    BY <2>7, <2>8, <2>9, TypeOKIs
<1>2. CASE ClientSendsData
  <2> DEFINE id == Len(sent) + 1
  <2>1. id \in Nat
    BY <1>l
  <2>2. /\ sent' = Append(sent, Session!Data(id))
        /\ fromClient' = Append(fromClient, Unit("data", id, "none"))
        /\ UNCHANGED <<client, camera, proxyVars, toCamera, fromCamera, received,
                       taken, said>>
    BY <1>2 DEF ClientSendsData
  <2>u. /\ UNCHANGED <<client, camera, mode, clientBuf, remoteBuf, pending, challenge>>
        /\ UNCHANGED <<immediate, toCamera, fromCamera, received, taken, said>>
    BY <2>2 DEF proxyVars
  <2> HIDE DEF id
  <2>5. fromClient' \in Seq(Upstream)
    BY <1>0, <2>1, <2>2, UnitsAreTyped, AppendProperties DEF Wires
  <2>6. sent' \in Seq(Messages)
    BY <1>0, <2>1, <2>2, UnitsAreTyped, AppendProperties DEF History
  <2>7. Wires'
    BY <1>0, <2>5, <2>u DEF Wires
  <2>8. History'
    BY <1>0, <2>6, <2>u DEF History
  <2>9. Phases'
    BY <1>0, <2>u DEF Phases
  <2> QED
    BY <2>7, <2>8, <2>9, TypeOKIs
<1>3. CASE CameraAnswers
  <2> DEFINE end     == FindRtspMessageEnd(toCamera)
             request == Upto(toCamera, end)
             id      == Head(request).id
             verdict == Verdict(id, request)
  <2>1. /\ end > 0
        /\ toCamera' = After(toCamera, end)
        /\ fromCamera' = fromCamera \o
             <<Unit("line", id, "none"), Unit("end", id, verdict)>>
        /\ UNCHANGED <<client, camera, proxyVars, fromClient, received, sent>>
        /\ \/ UNCHANGED <<taken, said>>
           \/ /\ taken' = Append(taken, Session!Request(id))
              /\ said' = Append(said, Session!Answer(id))
    BY <1>3 DEF CameraAnswers
  <2>u. /\ UNCHANGED <<client, camera, mode, clientBuf, remoteBuf, pending, challenge>>
        /\ UNCHANGED <<immediate, fromClient, received, sent>>
    BY <2>1 DEF proxyVars
  <2>2. toCamera \in Seq(Upstream)
    BY <1>0 DEF Wires
  <2>3. /\ request \in Seq(Upstream) /\ After(toCamera, end) \in Seq(Upstream)
        /\ Len(request) = end
    BY <2>1, <2>2, FirstMessage
  <2>4. request # <<>>
    BY <2>1, <2>3, EmptySeq
  <2>5. Head(request) \in Upstream
    BY <2>3, <2>4, HeadTailProperties
  <2>6. id \in Nat
    BY <2>5 DEF Upstream, Units
  <2>7. verdict \in {"ok", "digest", "refusal"}
    <3>1. HasAuthorizationHeader(request) \in BOOLEAN
      BY DEF HasAuthorizationHeader
    <3> QED
      BY <3>1 DEF Verdict
  <2> HIDE DEF end, request, id, verdict
  <2>8. Unit("line", id, "none") \in Downstream /\ Unit("end", id, verdict) \in Downstream
    BY <2>6, <2>7, UnitsAreTyped
  <2>9. <<Unit("line", id, "none"), Unit("end", id, verdict)>> \in Seq(Downstream)
    BY <2>8
  <2>10. fromCamera' \in Seq(Downstream)
    BY <1>0, <2>1, <2>9, ConcatProperties DEF Wires
  <2>11. taken' \in Seq(Messages) /\ said' \in Seq(Sayings)
    <3>1. Session!Request(id) \in Messages /\ Session!Answer(id) \in Sayings
      BY <2>6, UnitsAreTyped
    <3>2. taken \in Seq(Messages) /\ said \in Seq(Sayings)
      BY <1>0 DEF History
    <3>3. CASE UNCHANGED <<taken, said>>
      BY <3>2, <3>3
    <3>4. CASE /\ taken' = Append(taken, Session!Request(id))
               /\ said' = Append(said, Session!Answer(id))
      BY <3>1, <3>2, <3>4, AppendProperties
    <3> QED
      BY <2>1, <3>3, <3>4
  <2>12. Wires'
    BY <1>0, <2>1, <2>3, <2>10, <2>u DEF Wires
  <2>13. History'
    BY <1>0, <2>11, <2>u DEF History
  <2>14. Phases'
    BY <1>0, <2>u DEF Phases
  <2> QED
    BY <2>12, <2>13, <2>14, TypeOKIs
<1>4. CASE CameraTakesData
  <2>1. /\ toCamera # <<>> /\ toCamera' = Tail(toCamera)
        /\ taken' = Append(taken, Session!Data(Head(toCamera).id))
        /\ UNCHANGED <<client, camera, proxyVars, fromClient, fromCamera, received,
                       sent, said>>
    BY <1>4 DEF CameraTakesData
  <2>u. /\ UNCHANGED <<client, camera, mode, clientBuf, remoteBuf, pending, challenge>>
        /\ UNCHANGED <<immediate, fromClient, fromCamera, received, sent, said>>
    BY <2>1 DEF proxyVars
  <2>2. toCamera' \in Seq(Upstream) /\ Head(toCamera) \in Upstream
    BY <1>0, <2>1, HeadTailProperties DEF Wires
  <2>3. Head(toCamera).id \in Nat
    BY <2>2 DEF Upstream, Units
  <2>4. taken' \in Seq(Messages)
    BY <1>0, <2>1, <2>3, UnitsAreTyped, AppendProperties DEF History
  <2>5. Wires'
    BY <1>0, <2>2, <2>u DEF Wires
  <2>6. History'
    BY <1>0, <2>4, <2>u DEF History
  <2>7. Phases'
    BY <1>0, <2>u DEF Phases
  <2> QED
    BY <2>5, <2>6, <2>7, TypeOKIs
<1>5. CASE CameraPushes
  <2> DEFINE id == Len(said) + 1
  <2>1. /\ said' = Append(said, Session!Frame(id))
        /\ fromCamera' = Append(fromCamera, Unit("data", Session!Frame(id).id, "none"))
        /\ UNCHANGED <<client, camera, proxyVars, fromClient, toCamera, received, sent,
                       taken>>
    BY <1>5 DEF CameraPushes
  <2>u. /\ UNCHANGED <<client, camera, mode, clientBuf, remoteBuf, pending, challenge>>
        /\ UNCHANGED <<immediate, fromClient, toCamera, received, sent, taken>>
    BY <2>1 DEF proxyVars
  <2>2. id \in Nat /\ Session!Frame(id).id = id
    BY <1>l DEF Session!Frame
  <2> HIDE DEF id
  <2>3. fromCamera' \in Seq(Downstream)
    BY <1>0, <2>1, <2>2, UnitsAreTyped, AppendProperties DEF Wires
  <2>4. said' \in Seq(Sayings)
    BY <1>0, <2>1, <2>2, UnitsAreTyped, AppendProperties DEF History
  <2>5. Wires'
    BY <1>0, <2>3, <2>u DEF Wires
  <2>6. History'
    BY <1>0, <2>4, <2>u DEF History
  <2>7. Phases'
    BY <1>0, <2>u DEF Phases
  <2> QED
    BY <2>5, <2>6, <2>7, TypeOKIs
<1> QED
  BY <1>1, <1>2, <1>3, <1>4, <1>5 DEF ClientStep, CameraStep

\* What the proxy does with a chunk of the client.
ClientEffect(n) ==
  LET buf == clientBuf \o Upto(fromClient, n)
      end == FindRtspMessageEnd(buf)
      req == Upto(buf, end)
  IN
  \/ /\ ClientData({"PASSTHROUGH"}, n)
     /\ toCamera' = toCamera \o Upto(fromClient, n)
     /\ UNCHANGED <<mode, clientBuf, pending>>
  \/ /\ ClientData({"AUTH_NEED", "AUTH_RESPONDING", "DETECTING"}, n)
     /\ clientBuf' = buf
     /\ UNCHANGED <<mode, toCamera, pending>>
  \/ /\ ClientData({"DETECTING"}, n)
     /\ end > 0
     /\ HasAuthorizationHeader(req)
     /\ mode' = "PASSTHROUGH"
     /\ toCamera' = toCamera \o buf
     /\ clientBuf' = <<>>
     /\ UNCHANGED pending
  \/ /\ ClientData({"DETECTING"}, n)
     /\ end > 0
     /\ ~HasAuthorizationHeader(req)
     /\ mode' = "AUTH_NEED"
     /\ pending' = req
     /\ toCamera' = toCamera \o req
     /\ clientBuf' = After(buf, end)
  \/ /\ ClientData({"INJECTING"}, n)
     /\ toCamera' = toCamera \o Injected(buf)
     /\ clientBuf' = Incomplete(buf)
     /\ UNCHANGED <<mode, pending>>

LEMMA ClientEffects ==
  ASSUME ProxyReadsClient
  PROVE  \E n \in Chunks(fromClient) : ClientEffect(n)
<1>1. CASE ClientPassed
  BY <1>1 DEF ClientPassed, ClientEffect
<1>2. CASE ClientHeldBack
  BY <1>2 DEF ClientHeldBack, ClientData, ClientEffect
<1>3. CASE ClientIncomplete
  BY <1>3 DEF ClientIncomplete, ClientData, ClientEffect
<1>4. CASE ClientDetected
  BY <1>4 DEF ClientDetected, ClientEffect
<1>5. CASE ClientInjected
  BY <1>5 DEF ClientInjected, ClientEffect
<1> QED
  BY <1>1, <1>2, <1>3, <1>4, <1>5 DEF ProxyReadsClient

LEMMA ProxyReadsClientTyped ==
  ASSUME TypeOK, ProxyReadsClient
  PROVE  TypeOK'
<1>0. Wires /\ History /\ Phases
  BY TypeOKIs
<1>1. PICK n \in Chunks(fromClient) : ClientEffect(n)
  BY ClientEffects
<1> DEFINE chunk == Upto(fromClient, n)
           buf   == clientBuf \o chunk
           end   == FindRtspMessageEnd(buf)
<1>2. /\ fromClient' = After(fromClient, n)
      /\ UNCHANGED <<client, camera, fromCamera, received, sent, taken, said>>
      /\ UNCHANGED <<remoteBuf, challenge, immediate>>
  BY <1>1 DEF ClientEffect, ClientData, sessionVars
<1>3. /\ clientBuf \in Seq(Upstream) /\ fromClient \in Seq(Upstream)
      /\ toCamera \in Seq(Upstream)
  BY <1>0 DEF Wires
<1>4. n \in 0..Len(fromClient)
  BY <1>3, LenProperties DEF Chunks
<1>5. /\ chunk \in Seq(Upstream) /\ fromClient' \in Seq(Upstream)
      /\ buf \in Seq(Upstream)
  BY <1>2, <1>3, <1>4, Read
<1>6. History'
  BY <1>0, <1>2 DEF History
<1>7. CASE /\ ClientData({"PASSTHROUGH"}, n)
           /\ toCamera' = toCamera \o chunk
           /\ UNCHANGED <<mode, clientBuf, pending>>
  <2>1. toCamera' \in Seq(Upstream)
    BY <1>3, <1>5, <1>7, ConcatProperties
  <2>2. UNCHANGED <<mode, clientBuf, pending>>
    BY <1>7
  <2>3. Wires'
    BY <1>0, <1>2, <1>5, <2>1, <2>2 DEF Wires
  <2>4. Phases'
    BY <1>0, <1>2, <2>2 DEF Phases
  <2> QED
    BY <1>6, <2>3, <2>4, TypeOKIs
<1>8. CASE /\ ClientData({"AUTH_NEED", "AUTH_RESPONDING", "DETECTING"}, n)
           /\ clientBuf' = buf
           /\ UNCHANGED <<mode, toCamera, pending>>
  <2>1. clientBuf' \in Seq(Upstream)
    BY <1>5, <1>8
  <2>2. UNCHANGED <<mode, toCamera, pending>> /\ mode # "PASSTHROUGH"
    BY <1>8 DEF ClientData
  <2>3. Wires'
    BY <1>0, <1>2, <1>5, <2>1, <2>2 DEF Wires
  <2>4. Phases'
    BY <1>0, <1>2, <2>2 DEF Phases
  <2> QED
    BY <1>6, <2>3, <2>4, TypeOKIs
<1>9. CASE /\ ClientData({"DETECTING"}, n)
           /\ mode' = "PASSTHROUGH"
           /\ toCamera' = toCamera \o buf
           /\ clientBuf' = <<>>
           /\ UNCHANGED pending
  <2>1. toCamera' \in Seq(Upstream)
    BY <1>3, <1>5, <1>9, ConcatProperties
  <2>2. /\ mode' = "PASSTHROUGH" /\ clientBuf' = <<>> /\ UNCHANGED pending
        /\ mode = "DETECTING"
    BY <1>9 DEF ClientData
  <2>3. Wires'
    BY <1>0, <1>2, <1>5, <2>1, <2>2, EmptySeq DEF Wires
  <2>4. Phases'
    BY <1>0, <1>2, <2>2 DEF Phases, Modes
  <2> QED
    BY <1>6, <2>3, <2>4, TypeOKIs
<1>10. CASE /\ ClientData({"DETECTING"}, n)
            /\ end > 0
            /\ mode' = "AUTH_NEED"
            /\ pending' = Upto(buf, end)
            /\ toCamera' = toCamera \o Upto(buf, end)
            /\ clientBuf' = After(buf, end)
  <2> DEFINE req == Upto(buf, end)
  <2>1. req \in Seq(Upstream) /\ After(buf, end) \in Seq(Upstream) /\ Ends(req) = {Len(req)}
    BY <1>5, <1>10, FirstMessage
  <2>2. toCamera' \in Seq(Upstream)
    BY <1>3, <1>10, <2>1, ConcatProperties
  <2>3. mode' = "AUTH_NEED" /\ mode = "DETECTING" /\ Ends(pending') = {Len(pending')}
    BY <1>10, <2>1 DEF ClientData
  <2>4. Wires'
    BY <1>0, <1>2, <1>5, <1>10, <2>1, <2>2 DEF Wires
  <2>5. Phases'
    <3>1. Ends(pending)' = {Len(pending')}
      BY <2>3 DEF Ends
    <3> QED
      BY <1>0, <1>2, <2>3, <3>1 DEF Phases, Modes
  <2> QED
    BY <1>6, <2>4, <2>5, TypeOKIs
<1>11. CASE /\ ClientData({"INJECTING"}, n)
            /\ toCamera' = toCamera \o Injected(buf)
            /\ clientBuf' = Incomplete(buf)
            /\ UNCHANGED <<mode, pending>>
  <2>1. Injected(buf) \in Seq(Upstream) /\ Incomplete(buf) \in Seq(Upstream)
    BY <1>5, InjectedIs
  <2>2. toCamera' \in Seq(Upstream)
    BY <1>3, <1>11, <2>1, ConcatProperties
  <2>3. UNCHANGED <<mode, pending>> /\ mode = "INJECTING"
    BY <1>11 DEF ClientData
  <2>4. Wires'
    BY <1>0, <1>2, <1>5, <1>11, <2>1, <2>2, <2>3 DEF Wires
  <2>5. Phases'
    BY <1>0, <1>2, <2>3 DEF Phases
  <2> QED
    BY <1>6, <2>4, <2>5, TypeOKIs
<1> QED
  BY <1>1, <1>7, <1>8, <1>9, <1>10, <1>11 DEF ClientEffect

\* What the proxy does with a chunk of the camera.
CameraEffect(n) ==
  LET buf == remoteBuf \o Upto(fromCamera, n)
      end == FindRtspMessageEnd(buf)
  IN
  /\ fromCamera' = After(fromCamera, n)
  /\ immediate' \in BOOLEAN
  /\ UNCHANGED <<client, camera, fromClient, sent, taken, said>>
  /\ \/ /\ mode \in {"DETECTING", "PASSTHROUGH", "INJECTING"}
        /\ received' = received \o Upto(fromCamera, n)
        /\ UNCHANGED <<mode, clientBuf, remoteBuf, pending, challenge, toCamera>>
     \/ /\ mode \in {"AUTH_NEED", "AUTH_RESPONDING"}
        /\ remoteBuf' = buf
        /\ UNCHANGED <<mode, clientBuf, pending, challenge, toCamera, received>>
     \/ /\ mode = "AUTH_NEED" /\ end > 0
        /\ challenge' = TRUE
        /\ mode' = "AUTH_RESPONDING"
        /\ toCamera' = toCamera \o InjectAuthHeader(pending)
        /\ remoteBuf' = After(buf, end)
        /\ UNCHANGED <<clientBuf, pending, received>>
        /\ ParseResponseStatus(Upto(buf, end)) = "401"
        /\ ParseDigestChallenge(Upto(buf, end))
     \/ /\ mode = "AUTH_NEED" /\ end > 0
        /\ mode' = "PASSTHROUGH"
        /\ received' = received \o buf
        /\ remoteBuf' = <<>>
        /\ toCamera' = toCamera \o clientBuf
        /\ clientBuf' = <<>>
        /\ UNCHANGED <<pending, challenge>>
        /\ ParseResponseStatus(Upto(buf, end)) = "401"
        /\ ~ParseDigestChallenge(Upto(buf, end))
     \/ /\ mode = "AUTH_RESPONDING"
        /\ mode' = "INJECTING"
        /\ pending' = <<>>
        /\ received' = received \o buf
        /\ remoteBuf' = <<>>
        /\ toCamera' = toCamera \o Injected(clientBuf)
        /\ clientBuf' = Incomplete(clientBuf)
        /\ UNCHANGED challenge
     \/ /\ mode = "AUTH_NEED" /\ end > 0
        /\ received' = received \o buf
        /\ remoteBuf' = <<>>
        /\ UNCHANGED <<mode, clientBuf, pending, challenge, toCamera>>
        /\ ParseResponseStatus(Upto(buf, end)) # "401"

LEMMA CameraEffects ==
  ASSUME ProxyReadsCamera
  PROVE  \E n \in RemoteChunks : CameraEffect(n)
<1>0. \A n : Chunks(fromCamera) \subseteq RemoteChunks /\ (immediate /\ n # 0) \in BOOLEAN
  BY DEF Chunks, RemoteChunks
<1>1. CASE RemotePassed
  BY <1>0, <1>1 DEF RemotePassed, RemoteData, sessionVars, CameraEffect
<1>2. CASE RemoteIncomplete
  BY <1>0, <1>2 DEF RemoteIncomplete, RemoteData, sessionVars, CameraEffect
<1>3. CASE RemoteChallenges
  BY <1>0, <1>3 DEF RemoteChallenges, sessionVars, CameraEffect
<1>4. CASE RemoteUnusable
  BY <1>0, <1>4 DEF RemoteUnusable, RemoteData, sessionVars, CameraEffect
<1>5. CASE RemoteAnswers
  BY <1>0, <1>5 DEF RemoteAnswers, RemoteData, sessionVars, CameraEffect
<1>6. CASE RemoteUnchallenged
  BY <1>0, <1>6 DEF RemoteUnchallenged, RemoteData, sessionVars, CameraEffect
<1> QED
  BY <1>1, <1>2, <1>3, <1>4, <1>5, <1>6 DEF ProxyReadsCamera

LEMMA ProxyReadsCameraTyped ==
  ASSUME TypeOK, ProxyReadsCamera
  PROVE  TypeOK'
<1>0. Wires /\ History /\ Phases
  BY TypeOKIs
<1>1. PICK n \in RemoteChunks : CameraEffect(n)
  BY CameraEffects
<1> DEFINE chunk == Upto(fromCamera, n)
           buf   == remoteBuf \o chunk
           end   == FindRtspMessageEnd(buf)
<1>2. /\ fromCamera' = After(fromCamera, n) /\ immediate' \in BOOLEAN
      /\ UNCHANGED <<client, camera, fromClient, sent, taken, said>>
  BY <1>1 DEF CameraEffect
<1>3. /\ clientBuf \in Seq(Upstream) /\ pending \in Seq(Upstream)
      /\ fromClient \in Seq(Upstream) /\ toCamera \in Seq(Upstream)
      /\ remoteBuf \in Seq(Downstream) /\ fromCamera \in Seq(Downstream)
      /\ received \in Seq(Downstream)
  BY <1>0 DEF Wires
<1>4. n \in 0..Len(fromCamera)
  BY DEF RemoteChunks
<1>5. /\ chunk \in Seq(Downstream) /\ fromCamera' \in Seq(Downstream)
      /\ buf \in Seq(Downstream)
  BY <1>2, <1>3, <1>4, Read
<1>6. /\ received \o chunk \in Seq(Downstream)
      /\ received \o buf \in Seq(Downstream)
      /\ toCamera \o clientBuf \in Seq(Upstream)
  BY <1>3, <1>5, ConcatProperties
<1>7. History'
  BY <1>0, <1>2 DEF History
<1>8. CASE /\ mode \in {"DETECTING", "PASSTHROUGH", "INJECTING"}
           /\ received' = received \o chunk
           /\ UNCHANGED <<mode, clientBuf, remoteBuf, pending, challenge, toCamera>>
  <2>1. Wires'
    BY <1>2, <1>3, <1>5, <1>6, <1>8 DEF Wires
  <2>2. Phases'
    BY <1>0, <1>2, <1>8 DEF Phases
  <2> QED
    BY <1>7, <2>1, <2>2, TypeOKIs
<1>9. CASE /\ mode \in {"AUTH_NEED", "AUTH_RESPONDING"}
           /\ remoteBuf' = buf
           /\ UNCHANGED <<mode, clientBuf, pending, challenge, toCamera, received>>
  <2>1. Wires'
    BY <1>2, <1>3, <1>5, <1>9 DEF Wires
  <2>2. Phases'
    BY <1>0, <1>2, <1>9 DEF Phases
  <2> QED
    BY <1>7, <2>1, <2>2, TypeOKIs
<1>10. CASE /\ mode = "AUTH_NEED" /\ end > 0
            /\ challenge' = TRUE
            /\ mode' = "AUTH_RESPONDING"
            /\ toCamera' = toCamera \o InjectAuthHeader(pending)
            /\ remoteBuf' = After(buf, end)
            /\ UNCHANGED <<clientBuf, pending, received>>
  <2>1. After(buf, end) \in Seq(Downstream)
    BY <1>5, <1>10, FirstMessage
  <2>2. Ends(pending) = {Len(pending)}
    BY <1>0, <1>10 DEF Phases
  <2>3. Len(pending) \in 1..Len(pending)
    BY <1>3, <2>2, EndsAre
  <2>4. pending[Len(pending)] \in Upstream
    BY <1>3, <2>3, ElementOfSeq
  <2>5. [pending[Len(pending)] EXCEPT !.header = "authorization"] \in Upstream
    BY <2>4 DEF Upstream, Units
  <2>6. InjectAuthHeader(pending) \in Seq(Upstream)
    BY <1>3, <2>3, <2>5, ExceptSeq DEF InjectAuthHeader
  <2>7. toCamera' \in Seq(Upstream)
    BY <1>3, <1>10, <2>6, ConcatProperties
  <2>8. Wires'
    BY <1>2, <1>3, <1>5, <1>10, <2>1, <2>7 DEF Wires
  <2>9. Phases'
    <3>1. Ends(pending)' = Ends(pending) /\ Len(pending') = Len(pending)
      BY <1>10 DEF Ends
    <3>2. challenge' /\ challenge' \in BOOLEAN
      BY <1>10
    <3> QED
      BY <1>0, <1>2, <1>10, <2>2, <3>1, <3>2 DEF Phases, Modes
  <2> QED
    BY <1>7, <2>8, <2>9, TypeOKIs
<1>11. CASE /\ mode = "AUTH_NEED"
            /\ mode' = "PASSTHROUGH"
            /\ received' = received \o buf
            /\ remoteBuf' = <<>>
            /\ toCamera' = toCamera \o clientBuf
            /\ clientBuf' = <<>>
            /\ UNCHANGED <<pending, challenge>>
  <2>1. Wires'
    BY <1>2, <1>3, <1>5, <1>6, <1>11, EmptySeq DEF Wires
  <2>2. Phases'
    BY <1>0, <1>2, <1>11 DEF Phases, Modes
  <2> QED
    BY <1>7, <2>1, <2>2, TypeOKIs
<1>12. CASE /\ mode = "AUTH_RESPONDING"
            /\ mode' = "INJECTING"
            /\ pending' = <<>>
            /\ received' = received \o buf
            /\ remoteBuf' = <<>>
            /\ toCamera' = toCamera \o Injected(clientBuf)
            /\ clientBuf' = Incomplete(clientBuf)
            /\ UNCHANGED challenge
  <2>1. Injected(clientBuf) \in Seq(Upstream) /\ Incomplete(clientBuf) \in Seq(Upstream)
    BY <1>3, InjectedIs
  <2>2. toCamera' \in Seq(Upstream)
    BY <1>3, <1>12, <2>1, ConcatProperties
  <2>3. Wires'
    BY <1>2, <1>3, <1>5, <1>6, <1>12, <2>1, <2>2, EmptySeq DEF Wires
  <2>4. Phases'
    BY <1>0, <1>2, <1>12 DEF Phases, Modes
  <2> QED
    BY <1>7, <2>3, <2>4, TypeOKIs
<1>13. CASE /\ mode = "AUTH_NEED"
            /\ received' = received \o buf
            /\ remoteBuf' = <<>>
            /\ UNCHANGED <<mode, clientBuf, pending, challenge, toCamera>>
  <2>1. Wires'
    BY <1>2, <1>3, <1>5, <1>6, <1>13, EmptySeq DEF Wires
  <2>2. Phases'
    BY <1>0, <1>2, <1>13 DEF Phases
  <2> QED
    BY <1>7, <2>1, <2>2, TypeOKIs
<1> QED
  BY <1>1, <1>8, <1>9, <1>10, <1>11, <1>12, <1>13 DEF CameraEffect

\* The types hold in every state, and with them what a mode says of the
\* buffers: what is piped has left every buffer, the first request is kept while
\* it may be sent again, and Authorization is injected only with a challenge.
THEOREM TypeCorrect == Spec => []TypeOK
<1>1. TypeOK /\ [Next]_vars => TypeOK'
  <2> SUFFICES ASSUME TypeOK, [Next]_vars PROVE TypeOK'
    OBVIOUS
  <2>1. CASE Next
    BY <2>1, EndsSendTyped, ProxyReadsClientTyped, ProxyReadsCameraTyped DEF Next
  <2>2. CASE UNCHANGED vars
    <3>1. /\ UNCHANGED <<client, camera, mode, clientBuf, remoteBuf, pending, challenge>>
          /\ UNCHANGED <<immediate, fromClient, toCamera, fromCamera, received>>
          /\ UNCHANGED <<sent, taken, said>>
      BY <2>2 DEF vars, proxyVars, sessionVars
    <3>2. Wires /\ History /\ Phases
      BY TypeOKIs
    <3>3. Wires' /\ History' /\ Phases'
      BY <3>1, <3>2 DEF Wires, History, Phases
    <3> QED
      BY <3>3, TypeOKIs
  <2> QED
    BY <2>1, <2>2
<1> QED
  BY InitTyped, <1>1, PTL DEF Spec

--------------------------------------------------------------------------------
(* Authorization *)

\* All the client has sent that the proxy has not passed on.
Stream == clientBuf \o fromClient

\* Until the bytes are piped: a client with credentials has been asked for none
\* and all its requests carry them; of any other, only whole requests follow.
Flow ==
  mode # "PASSTHROUGH" =>
    /\ client = "own" => mode = "DETECTING" /\ Signed(Stream)
    /\ client # "own" => Paired(Stream)

LEMMA SignedConcat ==
  ASSUME NEW s \in Seq(Upstream), NEW q \in Seq(Upstream), Signed(s), Signed(q)
  PROVE  Signed(s \o q)
<1> DEFINE r == s \o q
<1>1. /\ Len(r) = Len(s) + Len(q) /\ Len(s) \in Nat /\ Len(q) \in Nat
      /\ \A i \in 1 .. Len(s) + Len(q) :
           r[i] = IF i <= Len(s) THEN s[i] ELSE q[i - Len(s)]
  BY ConcatProperties, LenProperties
<1> HIDE DEF r
<1>2. ASSUME NEW i \in 1..Len(r), r[i].part = "end" PROVE r[i].header = "authorization"
  <2>1. i \in 1 .. Len(s) + Len(q)
    BY <1>1
  <2>2. CASE i <= Len(s)
    <3>1. i \in 1..Len(s) /\ r[i] = s[i]
      BY <1>1, <2>1, <2>2
    <3> QED
      BY <1>2, <3>1 DEF Signed
  <2>3. CASE ~(i <= Len(s))
    <3>1. i - Len(s) \in 1..Len(q) /\ r[i] = q[i - Len(s)]
      BY <1>1, <2>1, <2>3
    <3> QED
      BY <1>2, <3>1 DEF Signed
  <2> QED
    BY <2>2, <2>3
<1>3. Signed(r)
  BY <1>2 DEF Signed
<1> QED
  BY <1>3 DEF r

\* What is written after what is on the wire.
LEMMA WrittenIsSigned ==
  ASSUME NEW t \in Seq(Upstream), NEW x \in Seq(Upstream), Signed(x),
         NEW i \in Len(t) + 1 .. Len(t \o x), (t \o x)[i].part = "end"
  PROVE  (t \o x)[i].header = "authorization"
<1> DEFINE r == t \o x
<1>1. /\ Len(r) = Len(t) + Len(x) /\ Len(t) \in Nat /\ Len(x) \in Nat
      /\ \A j \in 1 .. Len(t) + Len(x) :
           r[j] = IF j <= Len(t) THEN t[j] ELSE x[j - Len(t)]
  BY ConcatProperties, LenProperties
<1>2. i \in Len(t) + 1 .. Len(r) /\ r[i].part = "end"
  OBVIOUS
<1> HIDE DEF r
<1>3. i \in 1 .. Len(t) + Len(x) /\ ~(i <= Len(t)) /\ i - Len(t) \in 1..Len(x)
  BY <1>1, <1>2
<1>4. r[i] = x[i - Len(t)]
  BY <1>1, <1>3
<1>5. r[i].header = "authorization"
  BY <1>2, <1>3, <1>4 DEF Signed
<1> QED
  BY <1>5 DEF r

\* What is left when the complete messages of a buffer are gone.
LEMMA PassedOn ==
  ASSUME NEW buf \in Seq(Upstream), NEW rest \in Seq(Upstream), Paired(buf \o rest)
  PROVE  /\ Paired(After(buf \o rest, LastEnd(buf)))
         /\ After(buf \o rest, LastEnd(buf)) = After(buf, LastEnd(buf)) \o rest
<1> DEFINE e == LastEnd(buf)
           s == buf \o rest
<1>1. e \in 0..Len(buf) /\ (e = 0 \/ e \in Ends(buf)) /\ Len(buf) \in Nat
  BY LastEndIs, LenProperties
<1>2. /\ s \in Seq(Upstream) /\ Len(s) = Len(buf) + Len(rest) /\ Len(rest) \in Nat
      /\ \A i \in 1 .. Len(buf) + Len(rest) :
           s[i] = IF i <= Len(buf) THEN buf[i] ELSE rest[i - Len(buf)]
  BY ConcatProperties, LenProperties
<1>p. Paired(s)
  OBVIOUS
<1>3. After(s, e) = After(buf, e) \o rest
  <2> HIDE DEF e
  <2> QED
    BY <1>1, AfterConcat
<1> HIDE DEF e, s
<1>4. e \in 0..Len(s)
  BY <1>1, <1>2
<1>5. e = 0 \/ s[e].part = "end"
  <2>1. ASSUME e \in Ends(buf) PROVE s[e].part = "end"
    <3>1. e \in 1..Len(buf) /\ buf[e].part = "end"
      BY <2>1, EndsAre
    <3>2. e \in 1 .. Len(buf) + Len(rest) /\ e <= Len(buf)
      BY <1>2, <3>1
    <3> QED
      BY <1>2, <3>1, <3>2
  <2> QED
    BY <1>1, <2>1
<1>6. Paired(After(s, e))
  BY <1>2, <1>4, <1>5, <1>p, PairedAfter
<1> QED
  BY <1>3, <1>6 DEF e, s

LEMMA FlowStep ==
  ASSUME TypeOK, Flow, [Next]_vars, "plain" \notin DataFrom
  PROVE  Flow'
<1>0. Wires /\ History /\ Phases
  BY TypeOKIs
<1>t. clientBuf \in Seq(Upstream) /\ fromClient \in Seq(Upstream)
  BY <1>0 DEF Wires
<1>s. Stream \in Seq(Upstream)
  BY <1>t, ConcatProperties DEF Stream
<1>l. Len(sent) + 1 \in Nat
  BY <1>0, LenProperties DEF History
<1>1. CASE ClientSendsRequest
  <2> DEFINE id == Len(sent) + 1
             h == IF client = "own" THEN "authorization" ELSE "none"
             q == <<Unit("line", id, "none"), Unit("end", id, h)>>
  <2>1. h = "authorization" \/ h = "none"
    OBVIOUS
  <2>2. /\ fromClient' = fromClient \o q
        /\ UNCHANGED <<client, mode, clientBuf>>
    BY <1>1 DEF ClientSendsRequest, proxyVars
  <2>3. client = "own" => h = "authorization"
    OBVIOUS
  <2>4. id \in Nat
    BY <1>l
  <2> HIDE DEF id, h
  <2>5. Unit("line", id, "none") \in Upstream /\ Unit("end", id, h) \in Upstream
    BY <2>1, <2>4, UnitsAreTyped
  <2>6. /\ Unit("line", id, "none").part = "line" /\ Unit("end", id, h).part = "end"
        /\ Unit("end", id, h).header = h
    BY DEF Unit
  <2>7. /\ q \in Seq(Upstream) /\ Len(q) = 2
        /\ q[1] = Unit("line", id, "none") /\ q[2] = Unit("end", id, h)
    BY <2>5
  <2>8. q[1].part = "line" /\ q[2].part = "end" /\ q[2].header = h
    BY <2>6, <2>7
  <2> HIDE DEF q
  <2>9. Stream' = Stream \o q
    <3>1. (clientBuf \o fromClient) \o q = clientBuf \o (fromClient \o q)
      BY <1>t, <2>7, ConcatAssociative
    <3>2. Stream' = clientBuf \o (fromClient \o q)
      BY <2>2 DEF Stream
    <3> QED
      BY <3>1, <3>2 DEF Stream
  <2>10. ASSUME client = "own" PROVE Signed(q)
    <3>1. \A i \in 1..2 : i = 1 \/ i = 2
      OBVIOUS
    <3> QED
      BY <2>3, <2>7, <2>8, <2>10, <3>1 DEF Signed
  <2>11. ASSUME client = "own", mode # "PASSTHROUGH" PROVE Signed(Stream \o q)
    BY <1>s, <2>7, <2>10, <2>11, SignedConcat DEF Flow
  <2>12. ASSUME client # "own", mode # "PASSTHROUGH" PROVE Paired(Stream \o q)
    BY <1>s, <2>7, <2>8, <2>12, PairedAndRequest DEF Flow
  <2> QED
    BY <2>2, <2>9, <2>11, <2>12 DEF Flow
<1>2. CASE ClientSendsData
  <2> DEFINE id == Len(sent) + 1
             q == <<Unit("data", id, "none")>>
  <2>1. client = "own"
    BY <1>2, ClientsAssumption DEF ClientSendsData
  <2>2. /\ fromClient' = Append(fromClient, Unit("data", id, "none"))
        /\ UNCHANGED <<client, mode, clientBuf>>
    BY <1>2 DEF ClientSendsData, proxyVars
  <2>3. Unit("data", id, "none") \in Upstream /\ Unit("data", id, "none").part # "end"
    BY <1>l, UnitsAreTyped DEF Unit
  <2>4. q \in Seq(Upstream) /\ Len(q) = 1 /\ q[1] = Unit("data", id, "none")
    BY <2>3
  <2>5. fromClient' = fromClient \o q
    BY <1>t, <2>2, <2>3, AppendIsConcat
  <2>6. Signed(q)
    <3>1. \A i \in 1..1 : i = 1
      OBVIOUS
    <3> HIDE DEF q
    <3> QED
      BY <2>3, <2>4, <3>1 DEF Signed
  <2> HIDE DEF q
  <2>7. Stream' = Stream \o q
    <3>1. (clientBuf \o fromClient) \o q = clientBuf \o (fromClient \o q)
      BY <1>t, <2>4, ConcatAssociative
    <3>2. Stream' = clientBuf \o (fromClient \o q)
      BY <2>2, <2>5 DEF Stream
    <3> QED
      BY <3>1, <3>2 DEF Stream
  <2>8. ASSUME mode # "PASSTHROUGH" PROVE Signed(Stream \o q)
    BY <1>s, <2>1, <2>4, <2>6, <2>8, SignedConcat DEF Flow
  <2> QED
    BY <2>1, <2>2, <2>7, <2>8 DEF Flow
<1>3. CASE ProxyReadsClient
  <2>1. PICK n \in Chunks(fromClient) : ClientEffect(n)
    BY <1>3, ClientEffects
  <2> DEFINE chunk == Upto(fromClient, n)
             left  == After(fromClient, n)
             buf   == clientBuf \o chunk
             end   == FindRtspMessageEnd(buf)
  <2>2. fromClient' = left /\ UNCHANGED client
    BY <2>1 DEF ClientEffect, ClientData
  <2>3. n \in 0..Len(fromClient)
    BY <1>t, LenProperties DEF Chunks
  <2>4. chunk \in Seq(Upstream) /\ left \in Seq(Upstream) /\ buf \in Seq(Upstream)
    BY <1>t, <2>3, Read
  <2>5. buf \o left = Stream
    BY <1>t, <2>3, Rejoined DEF Stream
  <2>6. CASE mode' = "PASSTHROUGH"
    BY <2>6 DEF Flow
  <2>7. CASE /\ ClientData({"AUTH_NEED", "AUTH_RESPONDING", "DETECTING"}, n)
             /\ clientBuf' = buf
             /\ UNCHANGED <<mode, toCamera, pending>>
    <3>1. Stream' = Stream
      <4>1. Stream' = buf \o left
        BY <2>2, <2>7 DEF Stream
      <4> QED
        BY <2>5, <4>1
    <3> QED
      BY <2>2, <2>7, <3>1 DEF Flow
  <2>8. CASE /\ ClientData({"DETECTING"}, n)
             /\ end > 0
             /\ ~HasAuthorizationHeader(Upto(buf, end))
             /\ mode' = "AUTH_NEED"
             /\ clientBuf' = After(buf, end)
    <3> HIDE DEF chunk, left
    <3>1. /\ end \in 1..Len(buf) /\ buf[end].part = "end" /\ Len(buf) \in Nat
          /\ Upto(buf, end) \in Seq(Upstream) /\ Len(Upto(buf, end)) = end
          /\ Upto(buf, end)[end] = buf[end]
      <4>1. Len(buf) \in Nat
        BY <2>4, LenProperties
      <4>2. end > 0
        BY <2>8
      <4> HIDE DEF buf
      <4> QED
        BY <2>4, <4>1, <4>2, FirstMessage
    <3>2. mode = "DETECTING"
      BY <2>8 DEF ClientData
    <3>3. end \in 1..Len(Stream) /\ Stream[end] = buf[end]
      <4> HIDE DEF end, buf
      <4>1. /\ Len(Stream) = Len(buf) + Len(left) /\ Len(left) \in Nat
            /\ \A i \in 1 .. Len(buf) + Len(left) :
                 Stream[i] = IF i <= Len(buf) THEN buf[i] ELSE left[i - Len(buf)]
        BY <2>4, <2>5, ConcatProperties, LenProperties
      <4>2. end \in 1 .. Len(buf) + Len(left) /\ end <= Len(buf)
        BY <3>1, <4>1
      <4> QED
        BY <4>1, <4>2
    <3>4. client # "own"
      <4> SUFFICES ASSUME client = "own" PROVE FALSE
        OBVIOUS
      <4> HIDE DEF end, buf
      <4>1. Signed(Stream)
        BY <3>2 DEF Flow
      <4>2. buf[end].header = "authorization"
        BY <3>1, <3>3, <4>1 DEF Signed
      <4>3. end \in DOMAIN Upto(buf, end)
        BY <3>1, LenProperties
      <4>4. HasAuthorizationHeader(Upto(buf, end))
        BY <3>1, <4>2, <4>3 DEF HasAuthorizationHeader
      <4> QED
        BY <2>8, <4>4
    <3>5. Stream' = After(Stream, end)
      <4>1. end \in 0..Len(buf)
        BY <3>1
      <4>2. Stream' = After(buf, end) \o left
        BY <2>2, <2>8 DEF Stream
      <4> HIDE DEF end, buf
      <4>3. After(buf, end) \o left = After(buf \o left, end)
        BY <2>4, <4>1, AfterConcat
      <4> QED
        BY <2>5, <4>2, <4>3
    <3>6. Paired(Stream)
      BY <3>2, <3>4 DEF Flow
    <3>7. end \in 0..Len(Stream) /\ Stream[end].part = "end"
      BY <3>1, <3>3
    <3>8. Paired(After(Stream, end))
      <4> HIDE DEF end
      <4> QED
        BY <1>s, <3>6, <3>7, PairedAfter
    <3>9. Paired(Stream')
      BY <3>5, <3>8
    <3>10. Paired(Stream)'
      BY <3>9 DEF Paired
    <3> QED
      BY <2>2, <3>4, <3>10 DEF Flow
  <2>9. CASE /\ ClientData({"INJECTING"}, n)
             /\ clientBuf' = Incomplete(buf)
             /\ UNCHANGED mode
    <3> DEFINE e == LastEnd(buf)
    <3>1. mode = "INJECTING"
      BY <2>9 DEF ClientData
    <3>2. client # "own" /\ Paired(Stream)
      BY <3>1 DEF Flow
    <3>3. Incomplete(buf) = After(buf, e)
      BY <2>4, InjectedIs
    <3>4. Paired(After(Stream, e)) /\ After(Stream, e) = After(buf, e) \o left
      BY <2>4, <2>5, <3>2, PassedOn
    <3>5. Stream' = After(Stream, e)
      BY <2>2, <2>9, <3>3, <3>4 DEF Stream
    <3>6. Paired(Stream)'
      BY <3>4, <3>5 DEF Paired
    <3> QED
      BY <2>2, <3>2, <3>6 DEF Flow
  <2>10. CASE ClientData({"PASSTHROUGH"}, n) /\ UNCHANGED mode
    BY <2>10 DEF Flow, ClientData
  <2> QED
    BY <2>1, <2>6, <2>7, <2>8, <2>9, <2>10 DEF ClientEffect
<1>4. CASE ProxyReadsCamera
  <2>1. PICK n \in RemoteChunks : CameraEffect(n)
    BY <1>4, CameraEffects
  <2>2. UNCHANGED <<client, fromClient>>
    BY <2>1 DEF CameraEffect
  <2>3. CASE mode' = "PASSTHROUGH"
    BY <2>3 DEF Flow
  <2>4. CASE UNCHANGED <<mode, clientBuf>>
    BY <2>2, <2>4 DEF Flow, Stream
  <2>5. CASE mode = "AUTH_NEED" /\ mode' = "AUTH_RESPONDING" /\ UNCHANGED clientBuf
    BY <2>2, <2>5 DEF Flow, Stream
  <2>6. CASE /\ mode = "AUTH_RESPONDING" /\ mode' = "INJECTING"
             /\ clientBuf' = Incomplete(clientBuf)
    <3> DEFINE e == LastEnd(clientBuf)
    <3>2. client # "own" /\ Paired(Stream)
      BY <2>6 DEF Flow
    <3>3. Incomplete(clientBuf) = After(clientBuf, e)
      BY <1>t, InjectedIs
    <3>4. /\ Paired(After(Stream, e))
          /\ After(Stream, e) = After(clientBuf, e) \o fromClient
      BY <1>t, <3>2, PassedOn DEF Stream
    <3>5. Stream' = After(Stream, e)
      BY <2>2, <2>6, <3>3, <3>4 DEF Stream
    <3>6. Paired(Stream)'
      BY <3>4, <3>5 DEF Paired
    <3> QED
      BY <2>2, <3>2, <3>6 DEF Flow
  <2> QED
    BY <2>1, <2>3, <2>4, <2>5, <2>6 DEF CameraEffect
<1>5. CASE CameraStep \/ UNCHANGED vars
  <2>1. UNCHANGED <<client, mode, clientBuf, fromClient>>
    BY <1>5 DEF CameraStep, CameraAnswers, CameraTakesData, CameraPushes, proxyVars, vars
  <2> QED
    BY <2>1 DEF Flow, Stream
<1> QED
  BY <1>1, <1>2, <1>3, <1>4, <1>5 DEF Next, ClientStep

\* One step: what goes to the camera once the challenge is known.
LEMMA SignedStep ==
  ASSUME TypeOK, Flow, [Next]_vars, mode \in {"AUTH_RESPONDING", "INJECTING"},
         NEW i \in Len(toCamera) + 1 .. Len(toCamera'), toCamera'[i].part = "end"
  PROVE  toCamera'[i].header = "authorization"
<1>0. Wires
  BY TypeOKIs
<1>t. /\ clientBuf \in Seq(Upstream) /\ fromClient \in Seq(Upstream)
      /\ toCamera \in Seq(Upstream) /\ Len(toCamera) \in Nat
  BY <1>0, LenProperties DEF Wires
<1>p. Paired(Stream)
  BY DEF Flow
<1>1. ASSUME Len(toCamera') <= Len(toCamera), Len(toCamera') \in Nat PROVE FALSE
  BY <1>t, <1>1
<1>2. ASSUME UNCHANGED toCamera PROVE FALSE
  BY <1>t, <1>1, <1>2
<1>3. CASE ClientStep \/ CameraPushes \/ UNCHANGED vars
  <2>1. UNCHANGED toCamera
    BY <1>3 DEF ClientStep, ClientSendsRequest, ClientSendsData, CameraPushes, vars
  <2> QED
    BY <1>2, <2>1
<1>4. CASE CameraAnswers
  <2> DEFINE end == FindRtspMessageEnd(toCamera)
  <2>1. end > 0 /\ toCamera' = After(toCamera, end)
    BY <1>4 DEF CameraAnswers
  <2>2. end \in 0..Len(toCamera)
    BY <1>t, FirstEnd
  <2> HIDE DEF end
  <2>3. Len(toCamera') = Len(toCamera) - end
    BY <1>t, <2>1, <2>2, Cut
  <2> QED
    BY <1>t, <1>1, <2>2, <2>3
<1>5. CASE CameraTakesData
  <2>1. toCamera # <<>> /\ toCamera' = Tail(toCamera)
    BY <1>5 DEF CameraTakesData
  <2>2. Len(toCamera') = Len(toCamera) - 1 /\ Len(toCamera) # 0
    BY <1>t, <2>1, HeadTailProperties, EmptySeq
  <2> QED
    BY <1>t, <1>1, <2>2
<1>6. CASE ProxyReadsClient
  <2>1. PICK n \in Chunks(fromClient) :
          \/ mode = "PASSTHROUGH" \/ mode = "DETECTING"
          \/ UNCHANGED toCamera
          \/ toCamera' = toCamera \o Injected(clientBuf \o Upto(fromClient, n))
    BY <1>6, ClientEffects DEF ClientData, ClientEffect
  <2> DEFINE left == After(fromClient, n)
             buf  == clientBuf \o Upto(fromClient, n)
  <2>2. toCamera' = toCamera \o Injected(buf)
    BY <1>2, <2>1
  <2>3. n \in 0..Len(fromClient)
    BY <1>t, LenProperties DEF Chunks
  <2>4. left \in Seq(Upstream) /\ buf \in Seq(Upstream)
    BY <1>t, <2>3, Read
  <2>5. buf \o left = Stream
    BY <1>t, <2>3, Rejoined DEF Stream
  <2> HIDE DEF buf, left
  <2>6. Signed(Injected(buf)) /\ Injected(buf) \in Seq(Upstream)
    BY <1>p, <2>4, <2>5, InjectedIsSigned, InjectedIs
  <2> QED
    BY <1>t, <2>2, <2>6, WrittenIsSigned
<1>7. CASE ProxyReadsCamera
  <2>1. \/ mode = "AUTH_NEED" \/ UNCHANGED toCamera
        \/ toCamera' = toCamera \o Injected(clientBuf)
    BY <1>7, CameraEffects DEF CameraEffect
  <2>2. toCamera' = toCamera \o Injected(clientBuf)
    BY <1>2, <2>1
  <2>3. Signed(Injected(clientBuf)) /\ Injected(clientBuf) \in Seq(Upstream)
    BY <1>t, <1>p, InjectedIsSigned, InjectedIs DEF Stream
  <2> QED
    BY <1>t, <2>2, <2>3, WrittenIsSigned
<1> QED
  BY <1>3, <1>4, <1>5, <1>6, <1>7 DEF Next, CameraStep

LEMMA FlowInit == Init => Flow
<1> SUFFICES ASSUME Init PROVE Flow
  OBVIOUS
<1>1. clientBuf = <<>> /\ fromClient = <<>> /\ mode = "DETECTING"
  BY DEF Init
<1>2. Stream = <<>>
  BY <1>1, ConcatEmptySeq, EmptySeq DEF Stream
<1>3. Len(<<>>) = 0 /\ 1..0 = {} /\ 2..0 = {}
  BY EmptySeq
<1>4. Signed(<<>>) /\ Paired(<<>>)
  BY <1>3 DEF Signed, Paired
<1> QED
  BY <1>1, <1>2, <1>4 DEF Flow

\* Once the camera has named its challenge, no request of a client without
\* credentials goes out without Authorization, however the bytes are cut and
\* however far the client runs ahead, as long as the client sends requests only:
\* behind other data in one chunk a request is not recognised.
THEOREM AllRequestsAuthorized ==
  ASSUME "plain" \notin DataFrom
  PROVE  Spec => AuthorizedOnceChallenged
<1>1. TypeOK /\ Flow /\ [Next]_vars => Flow'
  BY FlowStep
<1>2. TypeOK /\ Flow /\ [Next]_vars =>
        [(mode \in {"AUTH_RESPONDING", "INJECTING"}) =>
           \A i \in Len(toCamera) + 1 .. Len(toCamera') :
             toCamera'[i].part = "end" => toCamera'[i].header = "authorization"]_vars
  BY SignedStep
<1> QED
  BY <1>1, <1>2, FlowInit, TypeCorrect, PTL DEF Spec, AuthorizedOnceChallenged

--------------------------------------------------------------------------------
(* Messages in a buffer *)

LEMMA Joined ==
  ASSUME NEW S, NEW s \in Seq(S), NEW t \in Seq(S)
  PROVE  /\ Len(s) \in Nat /\ Len(t) \in Nat
         /\ s \o t \in Seq(S) /\ Len(s \o t) = Len(s) + Len(t)
         /\ \A i \in 1..Len(s) : (s \o t)[i] = s[i]
         /\ \A i \in 1..Len(t) : (s \o t)[Len(s) + i] = t[i]
         /\ \A i \in 1..Len(s \o t) :
              i \in 1..Len(s) \/ \E j \in 1..Len(t) : i = Len(s) + j
<1>1. /\ s \o t \in Seq(S) /\ Len(s \o t) = Len(s) + Len(t)
      /\ Len(s) \in Nat /\ Len(t) \in Nat
      /\ \A i \in 1 .. Len(s) + Len(t) :
           (s \o t)[i] = IF i <= Len(s) THEN s[i] ELSE t[i - Len(s)]
  BY ConcatProperties, LenProperties
<1>2. ASSUME NEW i \in 1..Len(s) PROVE (s \o t)[i] = s[i]
  <2>1. i \in 1 .. Len(s) + Len(t) /\ i <= Len(s)
    BY <1>1
  <2> QED
    BY <1>1, <2>1
<1>3. ASSUME NEW i \in 1..Len(t) PROVE (s \o t)[Len(s) + i] = t[i]
  <2>1. /\ Len(s) + i \in 1 .. Len(s) + Len(t) /\ ~(Len(s) + i <= Len(s))
        /\ Len(s) + i - Len(s) = i
    BY <1>1
  <2> QED
    BY <1>1, <2>1
<1>4. ASSUME NEW i \in 1..Len(s \o t), ~(i \in 1..Len(s))
      PROVE  \E j \in 1..Len(t) : i = Len(s) + j
  <2>1. i - Len(s) \in 1..Len(t) /\ i = Len(s) + (i - Len(s))
    BY <1>1, <1>4
  <2> QED
    BY <2>1
<1> QED
  BY <1>1, <1>2, <1>3, <1>4

\* How many messages are complete within the first units of a buffer.
LEMMA CompleteIs ==
  ASSUME NEW d, NEW i \in Nat
  PROVE  /\ Complete(d, i) \in Nat
         /\ Complete(d, 0) = 0
         /\ d[i + 1].part # "line" => Complete(d, i + 1) = Complete(d, i) + 1
         /\ d[i + 1].part = "line" => Complete(d, i + 1) = Complete(d, i)
         /\ \A j \in 0..i : Complete(d, j) <= Complete(d, i)
<1> DEFINE C(k) == {j \in 1..k : d[j].part # "line"}
<1>1. ASSUME NEW k \in Nat
      PROVE  /\ IsFiniteSet(C(k)) /\ Cardinality(C(k)) \in Nat
             /\ Complete(d, k) = Cardinality(C(k))
  <2>1. IsFiniteSet(1..k)
    BY FS_Interval
  <2>2. C(k) \in SUBSET (1..k)
    OBVIOUS
  <2>3. IsFiniteSet(C(k))
    <3> HIDE DEF C
    <3> QED
      BY <2>1, <2>2, FS_Subset
  <2>4. Cardinality(C(k)) \in Nat
    <3> HIDE DEF C
    <3> QED
      BY <2>3, FS_CardinalityType
  <2> QED
    BY <2>3, <2>4 DEF Complete
<1>2. C(0) = {}
  OBVIOUS
<1>3. d[i + 1].part # "line" => C(i + 1) = C(i) \cup {i + 1}
  OBVIOUS
<1>4. d[i + 1].part = "line" => C(i + 1) = C(i)
  OBVIOUS
<1>5. i + 1 \notin C(i)
  OBVIOUS
<1>6. \A j \in 0..i : C(j) \in SUBSET C(i)
  OBVIOUS
<1>7. i + 1 \in Nat /\ 0 \in Nat /\ \A j \in 0..i : j \in Nat
  OBVIOUS
<1> HIDE DEF C
<1>8. Complete(d, 0) = 0
  BY <1>1, <1>2, <1>7, FS_EmptySet
<1>9. ASSUME d[i + 1].part # "line" PROVE Complete(d, i + 1) = Complete(d, i) + 1
  <2>1. Cardinality(C(i) \cup {i + 1}) = Cardinality(C(i)) + 1
    BY <1>1, <1>5, FS_AddElement
  <2> QED
    BY <1>1, <1>3, <1>7, <1>9, <2>1
<1>10. ASSUME d[i + 1].part = "line" PROVE Complete(d, i + 1) = Complete(d, i)
  BY <1>1, <1>4, <1>7, <1>10
<1>11. ASSUME NEW j \in 0..i PROVE Complete(d, j) <= Complete(d, i)
  <2>1. Cardinality(C(j)) <= Cardinality(C(i))
    BY <1>1, <1>6, FS_Subset
  <2> QED
    BY <1>1, <1>7, <2>1
<1> QED
  BY <1>1, <1>8, <1>9, <1>10, <1>11

\* The next message to be complete has the next number.
LEMMA CompleteGrows ==
  ASSUME NEW d, NEW i \in Nat, NEW j \in Nat, i < j, d[j].part # "line"
  PROVE  Complete(d, i) < Complete(d, j)
<1>1. j - 1 \in Nat /\ i \in 0..(j - 1) /\ (j - 1) + 1 = j
  OBVIOUS
<1> DEFINE k == j - 1
<1>2. k \in Nat /\ i \in 0..k /\ k + 1 = j
  BY <1>1
<1> HIDE DEF k
<1>3. Complete(d, k + 1) = Complete(d, k) + 1 /\ Complete(d, i) <= Complete(d, k)
  BY <1>2, CompleteIs
<1>4. Complete(d, i) \in Nat /\ Complete(d, k) \in Nat
  BY <1>2, CompleteIs
<1> QED
  BY <1>2, <1>3, <1>4

LEMMA CompletePrefix ==
  ASSUME NEW c, NEW d, NEW i \in Nat, \A j \in 1..i : c[j] = d[j]
  PROVE  Complete(c, i) = Complete(d, i)
<1>1. {j \in 1..i : c[j].part # "line"} = {j \in 1..i : d[j].part # "line"}
  OBVIOUS
<1> QED
  BY <1>1 DEF Complete

--------------------------------------------------------------------------------
(* What is on its way to the client, and what the client has heard *)

\* The complete messages of the buffer are what was said, and none is a challenge.
Tells(d, w) ==
  /\ Complete(d, Len(d)) = Len(w)
  /\ \A i \in 1..Len(d) : d[i].part # "line" =>
       Message(d[i]) = w[Complete(d, i)] /\ d[i].header # "digest"
  /\ \A k \in 1..Len(w) : \E i \in 1..Len(d) :
       d[i].part # "line" /\ Complete(d, i) = k

\* The complete messages of a buffer, see Heard.
Told(r) ==
  [k \in 1..Complete(r, Len(r)) |->
     Message(r[CHOOSE i \in DOMAIN r : r[i].part # "line" /\ Complete(r, i) = k])]

LEMMA HeardIsTold == Heard = Told(received) /\ Heard' = Told(received')
BY DEF Heard, Told

\* A client has heard the beginning of what was said.
LEMMA ToldIs ==
  ASSUME NEW r \in Seq(Downstream), NEW rest \in Seq(Downstream),
         NEW w \in Seq(Sayings), Tells(r \o rest, w)
  PROVE  /\ Complete(r, Len(r)) \in 0..Len(w)
         /\ Told(r) = SubSeq(w, 1, Complete(r, Len(r)))
<1> DEFINE d == r \o rest
           n == Complete(r, Len(r))
<1>1. /\ Len(r) \in Nat /\ Len(rest) \in Nat /\ Len(w) \in Nat
      /\ d \in Seq(Downstream) /\ Len(d) = Len(r) + Len(rest)
      /\ \A i \in 1..Len(r) : d[i] = r[i]
      /\ DOMAIN r = 1..Len(r)
  BY Joined, LenProperties
<1>2. Tells(d, w)
  OBVIOUS
<1> HIDE DEF d
<1>3. \A i \in 0..Len(r) : Complete(r, i) = Complete(d, i)
  <2>1. ASSUME NEW i \in 0..Len(r) PROVE Complete(r, i) = Complete(d, i)
    <3>1. i \in Nat /\ \A j \in 1..i : r[j] = d[j]
      BY <1>1
    <3> QED
      BY <3>1, CompletePrefix
  <2> QED
    BY <2>1
<1>4. n \in 0..Len(w)
  <2>1. Len(r) \in 0..Len(d) /\ Len(r) \in 0..Len(r)
    BY <1>1
  <2>2. n = Complete(d, Len(r)) /\ Complete(d, Len(d)) = Len(w)
    BY <1>2, <1>3, <2>1 DEF Tells
  <2>3. Complete(d, Len(r)) \in Nat /\ Complete(d, Len(r)) <= Complete(d, Len(d))
    BY <1>1, <2>1, CompleteIs
  <2> QED
    BY <1>1, <2>2, <2>3
<1> DEFINE P(i, k) == r[i].part # "line" /\ Complete(r, i) = k
<1>5. ASSUME NEW k \in 1..n
      PROVE  Message(r[CHOOSE i \in DOMAIN r : P(i, k)]) = w[k]
  <2>1. k \in 1..Len(w)
    BY <1>1, <1>4
  <2>2. PICK i \in 1..Len(d) : d[i].part # "line" /\ Complete(d, i) = k
    BY <1>2, <2>1 DEF Tells
  <2>3. i <= Len(r)
    <3> SUFFICES ASSUME ~(i <= Len(r)) PROVE FALSE
      OBVIOUS
    <3>1. Len(r) < i /\ i \in Nat
      BY <1>1
    <3>2. Complete(d, Len(r)) < Complete(d, i)
      BY <1>1, <2>2, <3>1, CompleteGrows
    <3>3. Complete(d, Len(r)) = n
      BY <1>1, <1>3
    <3> QED
      BY <1>1, <1>4, <2>2, <3>2, <3>3
  <2>4. i \in 1..Len(r) /\ i \in 0..Len(r)
    BY <1>1, <2>3
  <2>5. \E j \in DOMAIN r : P(j, k)
    BY <1>1, <1>3, <2>2, <2>4
  <2> DEFINE c == CHOOSE j \in DOMAIN r : P(j, k)
  <2>6. c \in DOMAIN r /\ P(c, k)
    <3> HIDE DEF P
    <3> QED
      BY <2>5
  <2>7. r[c].part # "line" /\ Complete(r, c) = k
    BY <2>6
  <2> HIDE DEF c
  <2>8. c \in 1..Len(r) /\ c \in 0..Len(r) /\ c \in 1..Len(d)
    BY <1>1, <2>6
  <2>9. d[c] = r[c] /\ Complete(d, c) = k
    BY <1>1, <1>3, <2>7, <2>8
  <2>10. Message(d[c]) = w[Complete(d, c)]
    BY <1>2, <2>7, <2>8, <2>9 DEF Tells
  <2>11. Message(r[c]) = w[k]
    BY <2>9, <2>10
  <2> QED
    BY <2>11 DEF c
<1>6. Told(r) = [k \in 1..n |-> Message(r[CHOOSE i \in DOMAIN r : P(i, k)])]
  BY DEF Told
<1>7. Told(r) = [k \in 1..n |-> w[k]]
  <2> HIDE DEF n, P
  <2> QED
    BY <1>5, <1>6
<1>8. SubSeq(w, 1, n) = [k \in 1..n |-> w[k]]
  <2> DEFINE u == SubSeq(w, 1, n)
             v == [k \in 1..n |-> w[k]]
  <2> HIDE DEF n
  <2>1. \A i \in 1..n : w[i] \in Sayings
    BY <1>1, <1>4, ElementOfSeq
  <2>2. v \in [1..n -> Sayings] /\ n \in Nat /\ \A i \in 1..n : v[i] = w[i]
    BY <1>4, <2>1
  <2> HIDE DEF v
  <2>3. v \in Seq(Sayings) /\ Len(v) = n
    BY <2>2, FunctionIsSeq
  <2>4. /\ u \in Seq(Sayings) /\ Len(u) = IF 1 <= n THEN n - 1 + 1 ELSE 0
        /\ \A i \in 1 .. n - 1 + 1 : u[i] = w[1 + i - 1]
    BY <2>1, <2>2, SubSeqProperties
  <2> HIDE DEF u
  <2>5. Len(u) = n /\ n - 1 + 1 = n /\ \A i \in 1..n : 1 + i - 1 = i
    BY <2>2, <2>4
  <2>6. \A i \in 1..n : u[i] = w[i]
    BY <2>4, <2>5
  <2>7. u = v
    BY <2>2, <2>3, <2>4, <2>5, <2>6, SeqEqual
  <2> QED
    BY <2>7 DEF u, v
<1> QED
  BY <1>4, <1>7, <1>8

\* The beginning of an answer says nothing yet.
LEMMA TellsLine ==
  ASSUME NEW d \in Seq(Downstream), NEW w \in Seq(Sayings), Tells(d, w),
         NEW u \in Downstream, u.part = "line"
  PROVE  Tells(Append(d, u), w)
<1> DEFINE e == Append(d, u)
<1>1. /\ Len(e) = Len(d) + 1 /\ Len(d) \in Nat /\ Len(w) \in Nat
      /\ e[Len(d) + 1] = u /\ \A i \in 1..Len(d) : e[i] = d[i]
  BY AppendProperties, LenProperties
<1> HIDE DEF e
<1>2. \A i \in 0..Len(d) : Complete(e, i) = Complete(d, i)
  <2>1. ASSUME NEW i \in 0..Len(d) PROVE Complete(e, i) = Complete(d, i)
    <3>1. i \in Nat /\ \A j \in 1..i : e[j] = d[j]
      BY <1>1
    <3> QED
      BY <3>1, CompletePrefix
  <2> QED
    BY <2>1
<1>3. Complete(e, Len(e)) = Len(w)
  <2>1. Complete(e, Len(d) + 1) = Complete(e, Len(d))
    BY <1>1, CompleteIs
  <2> QED
    BY <1>1, <1>2, <2>1 DEF Tells
<1>4. ASSUME NEW i \in 1..Len(e), e[i].part # "line"
      PROVE  Message(e[i]) = w[Complete(e, i)] /\ e[i].header # "digest"
  <2>1. i \in 1..Len(d) /\ i \in 0..Len(d)
    BY <1>1, <1>4
  <2> QED
    BY <1>1, <1>2, <1>4, <2>1 DEF Tells
<1>5. ASSUME NEW k \in 1..Len(w)
      PROVE  \E i \in 1..Len(e) : e[i].part # "line" /\ Complete(e, i) = k
  <2>1. PICK i \in 1..Len(d) : d[i].part # "line" /\ Complete(d, i) = k
    BY DEF Tells
  <2>2. i \in 1..Len(e) /\ i \in 0..Len(d)
    BY <1>1
  <2> QED
    BY <1>1, <1>2, <2>1, <2>2
<1>6. Tells(e, w)
  BY <1>3, <1>4, <1>5 DEF Tells
<1> QED
  BY <1>6 DEF e

\* One more complete message tells one thing more.
LEMMA TellsMore ==
  ASSUME NEW d \in Seq(Downstream), NEW w \in Seq(Sayings), Tells(d, w),
         NEW u \in Downstream, u.part # "line", u.header # "digest",
         Message(u) \in Sayings
  PROVE  Tells(Append(d, u), Append(w, Message(u)))
<1> DEFINE e == Append(d, u)
           v == Append(w, Message(u))
<1>1. /\ Len(e) = Len(d) + 1 /\ Len(d) \in Nat /\ Len(w) \in Nat
      /\ e[Len(d) + 1] = u /\ \A i \in 1..Len(d) : e[i] = d[i]
      /\ Len(v) = Len(w) + 1
      /\ v[Len(w) + 1] = Message(u) /\ \A i \in 1..Len(w) : v[i] = w[i]
  BY AppendProperties, LenProperties
<1> HIDE DEF e, v
<1>2. \A i \in 0..Len(d) : Complete(e, i) = Complete(d, i)
  <2>1. ASSUME NEW i \in 0..Len(d) PROVE Complete(e, i) = Complete(d, i)
    <3>1. i \in Nat /\ \A j \in 1..i : e[j] = d[j]
      BY <1>1
    <3> QED
      BY <3>1, CompletePrefix
  <2> QED
    BY <2>1
<1>3. Complete(e, Len(e)) = Len(v)
  <2>1. Complete(e, Len(d) + 1) = Complete(e, Len(d)) + 1
    BY <1>1, CompleteIs
  <2>2. Complete(e, Len(d)) = Len(w)
    BY <1>1, <1>2 DEF Tells
  <2> QED
    BY <1>1, <2>1, <2>2
<1>4. ASSUME NEW i \in 1..Len(e), e[i].part # "line"
      PROVE  Message(e[i]) = v[Complete(e, i)] /\ e[i].header # "digest"
  <2>1. CASE i \in 1..Len(d)
    <3>1. i \in 0..Len(d) /\ Complete(e, i) = Complete(d, i) /\ e[i] = d[i]
      BY <1>1, <1>2, <2>1
    <3>2. Message(d[i]) = w[Complete(d, i)] /\ d[i].header # "digest"
      BY <1>4, <2>1, <3>1 DEF Tells
    <3>3. Complete(d, i) \in 1..Len(w)
      <4>1. Len(d) \in Nat /\ i \in Nat /\ i \in 0..Len(d) /\ 0 < i
        BY <1>1, <2>1
      <4>2. Complete(d, i) <= Complete(d, Len(d)) /\ Complete(d, 0) = 0
        BY <4>1, CompleteIs
      <4>3. Complete(d, 0) < Complete(d, i) /\ Complete(d, i) \in Nat
        BY <1>4, <3>1, <4>1, CompleteGrows, CompleteIs
      <4> QED
        BY <1>1, <4>2, <4>3 DEF Tells
    <3> QED
      BY <1>1, <3>1, <3>2, <3>3
  <2>2. CASE ~(i \in 1..Len(d))
    <3>1. i = Len(d) + 1 /\ i = Len(e)
      BY <1>1, <2>2
    <3> QED
      BY <1>1, <1>3, <3>1
  <2> QED
    BY <2>1, <2>2
<1>5. ASSUME NEW k \in 1..Len(v)
      PROVE  \E i \in 1..Len(e) : e[i].part # "line" /\ Complete(e, i) = k
  <2>1. CASE k \in 1..Len(w)
    <3>1. PICK i \in 1..Len(d) : d[i].part # "line" /\ Complete(d, i) = k
      BY <2>1 DEF Tells
    <3>2. i \in 1..Len(e) /\ i \in 0..Len(d)
      BY <1>1
    <3> QED
      BY <1>1, <1>2, <3>1, <3>2
  <2>2. CASE ~(k \in 1..Len(w))
    <3>1. k = Len(v) /\ Len(e) \in 1..Len(e) /\ e[Len(e)] = u
      BY <1>1, <2>2
    <3> QED
      BY <1>3, <3>1
  <2> QED
    BY <2>1, <2>2
<1>6. Tells(e, v)
  BY <1>3, <1>4, <1>5 DEF Tells
<1> QED
  BY <1>6 DEF e, v

LEMMA Regrouped ==
  ASSUME NEW S
  PROVE  \A x, y, z \in Seq(S) : x \o y \in Seq(S) /\ (x \o y) \o z = x \o (y \o z)
<1> SUFFICES ASSUME NEW x \in Seq(S), NEW y \in Seq(S), NEW z \in Seq(S)
             PROVE  x \o y \in Seq(S) /\ (x \o y) \o z = x \o (y \o z)
  OBVIOUS
<1>1. x \o y \in Seq(S)
  BY ConcatProperties
<1>2. (x \o y) \o z = x \o (y \o z)
  BY ConcatAssociative
<1> QED
  BY <1>1, <1>2

LEMMA UnitsRegrouped ==
  \A x, y, z \in Seq(Upstream) :
    x \o y \in Seq(Upstream) /\ (x \o y) \o z = x \o (y \o z)
BY Regrouped

\* What is sent goes behind what is under way.
LEMMA BehindIs ==
  ASSUME NEW S, NEW s \in Seq(S), NEW t \in Seq(S), NEW u \in S, NEW v \in S
  PROVE  /\ s \o Append(t, u) = Append(s \o t, u)
         /\ s \o (t \o <<u, v>>) = Append(Append(s \o t, u), v)
<1>1. <<u>> \in Seq(S) /\ <<v>> \in Seq(S) /\ <<u, v>> \in Seq(S)
  OBVIOUS
<1>2. \A x \in Seq(S) : Append(x, u) = x \o <<u>> /\ Append(x, v) = x \o <<v>>
  BY AppendIsConcat
<1>3. \A x, y, z \in Seq(S) : x \o y \in Seq(S) /\ (x \o y) \o z = x \o (y \o z)
  BY Regrouped
<1>4. <<u>> \o <<v>> = <<u, v>>
  <2> DEFINE a == <<u>>
             b == <<v>>
             c == <<u, v>>
  <2>1. /\ a \in Seq(S) /\ Len(a) = 1 /\ a[1] = u
        /\ b \in Seq(S) /\ Len(b) = 1 /\ b[1] = v
        /\ c \in Seq(S) /\ Len(c) = 2 /\ c[1] = u /\ c[2] = v
    OBVIOUS
  <2> HIDE DEF a, b, c
  <2>2. /\ a \o b \in Seq(S) /\ Len(a \o b) = 2
        /\ (a \o b)[1] = u /\ (a \o b)[2] = v
    <3>1. 1 \in 1..Len(a) /\ 1 \in 1..Len(b) /\ Len(a) + 1 = 2
      BY <2>1
    <3>2. (a \o b)[1] = a[1] /\ (a \o b)[Len(a) + 1] = b[1]
      BY <2>1, <3>1, Joined
    <3>3. a \o b \in Seq(S) /\ Len(a \o b) = Len(a) + Len(b)
      BY <2>1, Joined
    <3> QED
      BY <2>1, <3>1, <3>2, <3>3
  <2>3. \A i \in 1..2 : i = 1 \/ i = 2
    OBVIOUS
  <2>4. \A i \in 1..Len(a \o b) : (a \o b)[i] = c[i]
    BY <2>1, <2>2, <2>3
  <2>5. a \o b = c
    BY <2>1, <2>2, <2>4, SeqEqual
  <2> QED
    BY <2>5 DEF a, b, c
<1> DEFINE a == <<u>>
           b == <<v>>
           ab == <<u, v>>
<1> HIDE DEF a, b, ab
<1>5. /\ a \in Seq(S) /\ b \in Seq(S) /\ a \o b = ab
      /\ \A x \in Seq(S) : Append(x, u) = x \o a /\ Append(x, v) = x \o b
  BY <1>1, <1>2, <1>4 DEF a, b, ab
<1>6. s \o Append(t, u) = Append(s \o t, u)
  BY <1>3, <1>5
<1>7. s \o (t \o ab) = (s \o t) \o ab /\ s \o t \in Seq(S)
  <2>1. ab \in Seq(S)
    BY <1>1 DEF ab
  <2> QED
    BY <1>3, <2>1
<1>8. (s \o t) \o (a \o b) = ((s \o t) \o a) \o b /\ (s \o t) \o a \in Seq(S)
  BY <1>3, <1>5, <1>7
<1>9. s \o (t \o ab) = Append(Append(s \o t, u), v)
  BY <1>5, <1>7, <1>8
<1> QED
  BY <1>6, <1>9 DEF ab

--------------------------------------------------------------------------------
(* What is on its way to the camera *)

\* The units of the messages a + 1 .. b, in order.
Linked(s, a, b) ==
  /\ s = <<>> => a = b
  /\ s # <<>> =>
       /\ s[1].id = a + 1 /\ s[1].part # "end"
       /\ s[Len(s)].id = b /\ s[Len(s)].part # "line"
  /\ \A i \in 1..Len(s) : s[i].id \in 1..b
  /\ \A i \in 1 .. Len(s) - 1 :
       /\ s[i].part = "line" => s[i + 1].part = "end" /\ s[i + 1].id = s[i].id
       /\ s[i].part # "line" => s[i + 1].part # "end" /\ s[i + 1].id = s[i].id + 1

\* A unit is of the message the client has sent under its number.
Genuine(s, w) ==
  \A i \in 1..Len(s) :
    w[s[i].id] = IF s[i].part = "data" THEN Session!Data(s[i].id)
                 ELSE Session!Request(s[i].id)

\* The same units but for their headers.
Alike(s, t) ==
  /\ Len(s) = Len(t)
  /\ \A i \in 1..Len(s) : s[i].part = t[i].part /\ s[i].id = t[i].id

LEMMA LinkedAlike ==
  ASSUME NEW s \in Seq(Upstream), NEW t \in Seq(Upstream), Alike(s, t), NEW a, NEW b,
         NEW w
  PROVE  /\ Linked(t, a, b) => Linked(s, a, b)
         /\ Genuine(t, w) => Genuine(s, w)
<1>1. /\ Len(s) = Len(t) /\ Len(s) \in Nat
      /\ \A i \in 1..Len(s) : s[i].part = t[i].part /\ s[i].id = t[i].id
  BY LenProperties DEF Alike
<1>2. s = <<>> <=> t = <<>>
  BY <1>1, EmptySeq
<1>3. s # <<>> => 1 \in 1..Len(s) /\ Len(s) \in 1..Len(s)
  BY <1>1, EmptySeq
<1>4. \A i \in 1 .. Len(s) - 1 : i \in 1..Len(s) /\ i + 1 \in 1..Len(s)
  BY <1>1
<1>5. ASSUME Linked(t, a, b) PROVE Linked(s, a, b)
  <2>1. /\ s = <<>> => a = b
        /\ \A i \in 1..Len(s) : s[i].id \in 1..b
    BY <1>1, <1>2, <1>5 DEF Linked
  <2>2. ASSUME s # <<>>
        PROVE  /\ s[1].id = a + 1 /\ s[1].part # "end"
               /\ s[Len(s)].id = b /\ s[Len(s)].part # "line"
    <3>1. /\ t[1].id = a + 1 /\ t[1].part # "end"
          /\ t[Len(s)].id = b /\ t[Len(s)].part # "line"
      BY <1>1, <1>2, <1>5, <2>2 DEF Linked
    <3> QED
      BY <1>1, <1>3, <2>2, <3>1
  <2>3. ASSUME NEW i \in 1 .. Len(s) - 1
        PROVE  /\ s[i].part = "line" => s[i + 1].part = "end" /\ s[i + 1].id = s[i].id
               /\ s[i].part # "line" =>
                    s[i + 1].part # "end" /\ s[i + 1].id = s[i].id + 1
    <3>1. /\ t[i].part = "line" => t[i + 1].part = "end" /\ t[i + 1].id = t[i].id
          /\ t[i].part # "line" => t[i + 1].part # "end" /\ t[i + 1].id = t[i].id + 1
      BY <1>1, <1>5 DEF Linked
    <3>2. /\ s[i].part = t[i].part /\ s[i].id = t[i].id
          /\ s[i + 1].part = t[i + 1].part /\ s[i + 1].id = t[i + 1].id
      BY <1>1, <1>4
    <3> QED
      BY <3>1, <3>2
  <2> QED
    BY <2>1, <2>2, <2>3 DEF Linked
<1>6. ASSUME Genuine(t, w) PROVE Genuine(s, w)
  BY <1>1, <1>6 DEF Genuine
<1> QED
  BY <1>5, <1>6

\* What is left when the first messages are taken.
LEMMA LinkedAfter ==
  ASSUME NEW s \in Seq(Upstream), NEW a \in Nat, NEW b \in Nat, Linked(s, a, b),
         NEW e \in 1..Len(s), s[e].part # "line", NEW w
  PROVE  /\ Linked(After(s, e), s[e].id, b)
         /\ Genuine(s, w) => Genuine(After(s, e), w)
<1> DEFINE r == After(s, e)
<1>1. /\ r \in Seq(Upstream) /\ Len(r) = Len(s) - e /\ Len(s) \in Nat
      /\ \A j \in 1..(Len(s) - e) : r[j] = s[e + j]
  <2>1. Len(s) \in Nat /\ e \in 0..Len(s)
    BY LenProperties
  <2> QED
    BY <2>1, Cut
<1> HIDE DEF r
<1>2. \A j \in 1..Len(r) : e + j \in 1..Len(s) /\ r[j] = s[e + j]
  BY <1>1
<1>3. ASSUME r = <<>> PROVE s[e].id = b
  <2>1. e = Len(s) /\ s # <<>>
    BY <1>1, <1>3, EmptySeq
  <2> QED
    BY <2>1 DEF Linked
<1>4. ASSUME r # <<>>
      PROVE  /\ r[1].id = s[e].id + 1 /\ r[1].part # "end"
             /\ r[Len(r)].id = b /\ r[Len(r)].part # "line"
  <2>1. Len(r) # 0
    BY <1>1, <1>4, EmptySeq
  <2>2. /\ 1 \in 1..Len(r) /\ Len(r) \in 1..Len(r) /\ e + Len(r) = Len(s)
        /\ e \in 1 .. Len(s) - 1 /\ Len(s) # 0
    BY <1>1, <2>1
  <2>3. r[1] = s[e + 1] /\ r[Len(r)] = s[Len(s)]
    <3>1. r[Len(r)] = s[e + Len(r)]
      BY <1>2, <2>2
    <3> QED
      BY <1>2, <2>2, <3>1
  <2>4. s # <<>>
    BY <2>2, EmptySeq
  <2> QED
    BY <2>2, <2>3, <2>4 DEF Linked
<1>5. \A i \in 1..Len(r) : r[i].id \in 1..b
  BY <1>2 DEF Linked
<1>6. ASSUME NEW i \in 1 .. Len(r) - 1
      PROVE  /\ r[i].part = "line" => r[i + 1].part = "end" /\ r[i + 1].id = r[i].id
             /\ r[i].part # "line" => r[i + 1].part # "end" /\ r[i + 1].id = r[i].id + 1
  <2>1. /\ i \in 1..Len(r) /\ i + 1 \in 1..Len(r) /\ e + i \in 1 .. Len(s) - 1
        /\ e + (i + 1) = (e + i) + 1
    BY <1>1
  <2>2. r[i] = s[e + i] /\ r[i + 1] = s[(e + i) + 1]
    BY <1>2, <2>1
  <2> QED
    BY <2>1, <2>2 DEF Linked
<1>7. Linked(r, s[e].id, b)
  BY <1>3, <1>4, <1>5, <1>6 DEF Linked
<1>8. ASSUME Genuine(s, w) PROVE Genuine(r, w)
  BY <1>2, <1>8 DEF Genuine
<1> QED
  BY <1>7, <1>8 DEF r

\* Another message behind those under way.
LEMMA LinkedMore ==
  ASSUME NEW s \in Seq(Upstream), NEW a \in Nat, NEW b \in Nat, Linked(s, a, b),
         NEW q \in Seq(Upstream), Linked(q, b, b + 1), q # <<>>
  PROVE  Linked(s \o q, a, b + 1)
<1> DEFINE r == s \o q
<1>1. /\ Len(s) \in Nat /\ Len(q) \in Nat
      /\ r \in Seq(Upstream) /\ Len(r) = Len(s) + Len(q)
      /\ \A i \in 1..Len(s) : r[i] = s[i]
      /\ \A i \in 1..Len(q) : r[Len(s) + i] = q[i]
      /\ \A i \in 1..Len(r) : i \in 1..Len(s) \/ \E j \in 1..Len(q) : i = Len(s) + j
  BY Joined
<1> HIDE DEF r
<1>2. Len(q) # 0 /\ 1 \in 1..Len(q) /\ Len(q) \in 1..Len(q) /\ Len(r) # 0 /\ r # <<>>
  BY <1>1, EmptySeq
<1>3. /\ q[1].id = b + 1 /\ q[1].part # "end"
      /\ q[Len(q)].id = b + 1 /\ q[Len(q)].part # "line"
  BY DEF Linked
<1>4. r[Len(r)].id = b + 1 /\ r[Len(r)].part # "line"
  BY <1>1, <1>2, <1>3
<1>5. r[1].id = a + 1 /\ r[1].part # "end"
  <2>1. CASE s = <<>>
    <3>1. Len(s) = 0 /\ Len(s) + 1 = 1 /\ a = b
      BY <2>1, EmptySeq DEF Linked
    <3> QED
      BY <1>1, <1>2, <1>3, <3>1
  <2>2. CASE s # <<>>
    <3>1. 1 \in 1..Len(s)
      BY <1>1, <2>2, EmptySeq
    <3> QED
      BY <1>1, <2>2, <3>1 DEF Linked
  <2> QED
    BY <2>1, <2>2
<1>6. ASSUME NEW i \in 1..Len(r) PROVE r[i].id \in 1 .. b + 1
  <2>1. CASE i \in 1..Len(s)
    <3>1. r[i] = s[i] /\ s[i].id \in 1..b
      BY <1>1, <2>1 DEF Linked
    <3>2. 1..b \subseteq 1 .. b + 1
      OBVIOUS
    <3> QED
      BY <3>1, <3>2
  <2>2. CASE \E j \in 1..Len(q) : i = Len(s) + j
    BY <1>1, <2>2 DEF Linked
  <2> QED
    BY <1>1, <2>1, <2>2
<1>7. ASSUME NEW i \in 1 .. Len(r) - 1
      PROVE  /\ r[i].part = "line" => r[i + 1].part = "end" /\ r[i + 1].id = r[i].id
             /\ r[i].part # "line" => r[i + 1].part # "end" /\ r[i + 1].id = r[i].id + 1
  <2>1. CASE i < Len(s)
    <3>1. i \in 1 .. Len(s) - 1 /\ i \in 1..Len(s) /\ i + 1 \in 1..Len(s)
      BY <1>1, <2>1
    <3>2. r[i] = s[i] /\ r[i + 1] = s[i + 1]
      BY <1>1, <3>1
    <3> QED
      BY <3>1, <3>2 DEF Linked
  <2>2. CASE i = Len(s)
    <3>1. i \in 1..Len(s) /\ Len(s) # 0
      BY <1>1, <2>2
    <3>2. s # <<>>
      BY <3>1, EmptySeq
    <3>3. s[Len(s)].id = b /\ s[Len(s)].part # "line"
      BY <3>2 DEF Linked
    <3>4. r[i] = s[Len(s)] /\ r[i + 1] = q[1]
      BY <1>1, <1>2, <2>2, <3>1
    <3> QED
      BY <1>3, <3>3, <3>4
  <2>3. CASE i > Len(s)
    <3> DEFINE j == i - Len(s)
    <3>1. /\ j \in 1 .. Len(q) - 1 /\ j \in 1..Len(q) /\ j + 1 \in 1..Len(q)
          /\ i = Len(s) + j /\ i + 1 = Len(s) + (j + 1)
      BY <1>1, <2>3
    <3> HIDE DEF j
    <3>2. r[i] = q[j] /\ r[i + 1] = q[j + 1]
      BY <1>1, <3>1
    <3> QED
      BY <3>1, <3>2 DEF Linked
  <2> QED
    BY <1>1, <2>1, <2>2, <2>3
<1>8. Linked(r, a, b + 1)
  BY <1>2, <1>4, <1>5, <1>6, <1>7 DEF Linked
<1> QED
  BY <1>8 DEF r

LEMMA GenuineMore ==
  ASSUME NEW s \in Seq(Upstream), NEW w \in Seq(Messages), NEW a,
         Linked(s, a, Len(w)), Genuine(s, w),
         NEW q \in Seq(Upstream), NEW m \in Messages, Genuine(q, Append(w, m))
  PROVE  Genuine(s \o q, Append(w, m))
<1> DEFINE r == s \o q
           v == Append(w, m)
<1>1. /\ Len(r) = Len(s) + Len(q)
      /\ \A i \in 1..Len(s) : r[i] = s[i]
      /\ \A i \in 1..Len(q) : r[Len(s) + i] = q[i]
      /\ \A i \in 1..Len(r) : i \in 1..Len(s) \/ \E j \in 1..Len(q) : i = Len(s) + j
  BY Joined
<1>2. \A i \in 1..Len(w) : v[i] = w[i]
  BY AppendProperties
<1>3. Genuine(q, v)
  OBVIOUS
<1> HIDE DEF r, v
<1>4. ASSUME NEW i \in 1..Len(r)
      PROVE  v[r[i].id] = IF r[i].part = "data" THEN Session!Data(r[i].id)
                          ELSE Session!Request(r[i].id)
  <2>1. CASE i \in 1..Len(s)
    <3>1. r[i] = s[i] /\ s[i].id \in 1..Len(w)
      BY <1>1, <2>1 DEF Linked
    <3>2. v[s[i].id] = w[s[i].id]
      BY <1>2, <3>1
    <3>3. w[s[i].id] = IF s[i].part = "data" THEN Session!Data(s[i].id)
                       ELSE Session!Request(s[i].id)
      BY <2>1 DEF Genuine
    <3> QED
      BY <3>1, <3>2, <3>3
  <2>2. ASSUME NEW j \in 1..Len(q), i = Len(s) + j
        PROVE  v[r[i].id] = IF r[i].part = "data" THEN Session!Data(r[i].id)
                            ELSE Session!Request(r[i].id)
    <3>1. r[i] = q[j]
      BY <1>1, <2>2
    <3>2. v[q[j].id] = IF q[j].part = "data" THEN Session!Data(q[j].id)
                       ELSE Session!Request(q[j].id)
      BY <1>3 DEF Genuine
    <3> QED
      BY <3>1, <3>2
  <2> QED
    BY <1>1, <2>1, <2>2
<1>5. Genuine(r, v)
  BY <1>4 DEF Genuine
<1> QED
  BY <1>5 DEF r, v

\* The message the camera takes is the next one, and a request is two units.
LEMMA NextIs ==
  ASSUME NEW t \in Seq(Upstream), t # <<>>, NEW u \in Seq(Upstream),
         NEW a \in Nat, NEW b \in Nat, Linked(t \o u, a, b)
  PROVE  /\ t[1].id = a + 1 /\ a + 1 \in 1..b /\ Len(t) \in Nat /\ 1 \in 1..Len(t)
         /\ (t \o u)[1] = t[1]
         /\ t[1].part = "line" /\ FindRtspMessageEnd(t) > 0 =>
              /\ FindRtspMessageEnd(t) = 2 /\ 2 \in 1..Len(t)
              /\ t[2].part = "end" /\ t[2].id = a + 1
              /\ (t \o u)[2] = t[2] /\ 2 \in 1..Len(t \o u)
<1> DEFINE s == t \o u
           e == FindRtspMessageEnd(t)
<1>1. /\ Len(t) \in Nat /\ Len(u) \in Nat /\ Len(s) = Len(t) + Len(u)
      /\ \A i \in 1..Len(t) : s[i] = t[i]
      /\ s \in Seq(Upstream)
  BY Joined
<1>2. Linked(s, a, b)
  OBVIOUS
<1>3. e \in 0..Len(t) /\ (e # 0 => e \in Ends(t) /\ \A j \in Ends(t) : e <= j)
  BY FirstEnd
<1> HIDE DEF s, e
<1>4. 1 \in 1..Len(t) /\ Len(s) # 0 /\ 1 \in 1..Len(s)
  BY <1>1, EmptySeq
<1>5. s # <<>>
  BY <1>4, EmptySeq
<1>6. /\ s[1].id = a + 1 /\ s[1].part # "end" /\ s[1].id \in 1..b
      /\ s[Len(s)].part # "line"
  BY <1>2, <1>4, <1>5 DEF Linked
<1>7. t[1] = s[1]
  BY <1>1, <1>4
<1>8. ASSUME t[1].part = "line", e > 0
      PROVE  /\ e = 2 /\ 2 \in 1..Len(t)
             /\ t[2].part = "end" /\ t[2].id = a + 1
             /\ s[2] = t[2] /\ 2 \in 1..Len(s)
  <2>1. e \in 1..Len(t) /\ t[e].part = "end"
    BY <1>3, <1>8, EndsAre
  <2>2. e # 1
    BY <1>8, <2>1
  <2>3. 2 \in 1..Len(t) /\ 2 \in 1..Len(s) /\ 1 \in 1 .. Len(s) - 1
    BY <1>1, <2>1, <2>2
  <2>4. s[1].part = "line" => s[1 + 1].part = "end" /\ s[1 + 1].id = s[1].id
    BY <1>2, <2>3 DEF Linked
  <2>5. s[2].part = "end" /\ s[2].id = a + 1 /\ s[2] = t[2]
    BY <1>1, <1>6, <1>7, <1>8, <2>3, <2>4
  <2>6. 2 \in Ends(t)
    BY <2>3, <2>5, EndsAre
  <2>7. e <= 2
    BY <1>3, <1>8, <2>6
  <2> QED
    BY <1>1, <2>1, <2>2, <2>3, <2>5, <2>7
<1> QED
  BY <1>1, <1>4, <1>6, <1>7, <1>8 DEF s, e

--------------------------------------------------------------------------------
(* What the proxy writes, but for the headers, is what it read *)

LEMMA AlikeBehind ==
  ASSUME NEW x \in Seq(Upstream), NEW y \in Seq(Upstream), Alike(x, y),
         NEW z \in Seq(Upstream)
  PROVE  Alike(x \o z, y \o z) /\ Alike(z \o x, z \o y)
<1>0. Len(x) = Len(y) /\ \A i \in 1..Len(x) : x[i].part = y[i].part /\ x[i].id = y[i].id
  BY DEF Alike
<1>1. ASSUME NEW f \in Seq(Upstream), NEW g \in Seq(Upstream),
             NEW p \in Seq(Upstream), NEW q \in Seq(Upstream),
             Len(f) = Len(g), Len(p) = Len(q),
             \A i \in 1..Len(f) : f[i].part = g[i].part /\ f[i].id = g[i].id,
             \A i \in 1..Len(p) : p[i].part = q[i].part /\ p[i].id = q[i].id
      PROVE  Alike(f \o p, g \o q)
  <2> DEFINE r == f \o p
             s == g \o q
  <2>1. /\ Len(r) = Len(f) + Len(p)
        /\ \A i \in 1..Len(f) : r[i] = f[i]
        /\ \A i \in 1..Len(p) : r[Len(f) + i] = p[i]
        /\ \A i \in 1..Len(r) : i \in 1..Len(f) \/ \E j \in 1..Len(p) : i = Len(f) + j
    BY Joined
  <2>2. /\ Len(s) = Len(g) + Len(q)
        /\ \A i \in 1..Len(g) : s[i] = g[i]
        /\ \A i \in 1..Len(q) : s[Len(g) + i] = q[i]
    BY Joined
  <2> HIDE DEF r, s
  <2>3. ASSUME NEW i \in 1..Len(r) PROVE r[i].part = s[i].part /\ r[i].id = s[i].id
    <3>1. CASE i \in 1..Len(f)
      <4>1. r[i] = f[i] /\ s[i] = g[i]
        BY <1>1, <2>1, <2>2, <3>1
      <4> QED
        BY <1>1, <3>1, <4>1
    <3>2. ASSUME NEW j \in 1..Len(p), i = Len(f) + j
          PROVE  r[i].part = s[i].part /\ r[i].id = s[i].id
      <4>1. r[i] = p[j] /\ s[i] = q[j]
        BY <1>1, <2>1, <2>2, <3>2
      <4> QED
        BY <1>1, <3>2, <4>1
    <3> QED
      BY <2>1, <3>1, <3>2
  <2>4. Alike(r, s)
    BY <1>1, <2>1, <2>2, <2>3 DEF Alike
  <2> QED
    BY <2>4 DEF r, s
<1> QED
  BY <1>0, <1>1

\* The first units of a buffer go out and the rest stays.
LEMMA ForwardedAsIs ==
  ASSUME NEW t \in Seq(Upstream), NEW buf \in Seq(Upstream), NEW left \in Seq(Upstream),
         NEW e \in 0..Len(buf)
  PROVE  (t \o Upto(buf, e)) \o (After(buf, e) \o left) = t \o (buf \o left)
<1> DEFINE u == Upto(buf, e)
           v == After(buf, e)
<1>1. u \in Seq(Upstream) /\ v \in Seq(Upstream)
  BY Cut
<1>2. (t \o u) \o v = t \o buf
  BY Rejoined
<1> HIDE DEF u, v
<1>3. t \o u \in Seq(Upstream)
  BY <1>1, UnitsRegrouped
<1>4. (t \o u) \o (v \o left) = ((t \o u) \o v) \o left
  BY <1>1, <1>3, UnitsRegrouped
<1>5. (t \o buf) \o left = t \o (buf \o left)
  BY UnitsRegrouped
<1>6. (t \o u) \o (v \o left) = t \o (buf \o left)
  BY <1>2, <1>4, <1>5
<1> QED
  BY <1>6 DEF u, v

\* The same with other headers.
LEMMA Forwarded ==
  ASSUME NEW t \in Seq(Upstream), NEW buf \in Seq(Upstream), NEW left \in Seq(Upstream),
         NEW e \in 0..Len(buf), NEW x \in Seq(Upstream), Alike(x, Upto(buf, e))
  PROVE  Alike((t \o x) \o (After(buf, e) \o left), t \o (buf \o left))
<1> DEFINE u == Upto(buf, e)
           v == After(buf, e) \o left
<1>1. u \in Seq(Upstream) /\ After(buf, e) \in Seq(Upstream)
  BY Cut
<1>2. v \in Seq(Upstream)
  BY <1>1, ConcatProperties
<1>3. (t \o u) \o v = t \o (buf \o left)
  BY ForwardedAsIs
<1>4. Alike(x, u)
  OBVIOUS
<1> HIDE DEF u, v
<1>5. Alike(t \o x, t \o u) /\ t \o x \in Seq(Upstream) /\ t \o u \in Seq(Upstream)
  BY <1>1, <1>4, AlikeBehind, UnitsRegrouped
<1>6. Alike((t \o x) \o v, (t \o u) \o v)
  BY <1>2, <1>5, AlikeBehind
<1>7. Alike((t \o x) \o v, t \o (buf \o left))
  BY <1>3, <1>6
<1> QED
  BY <1>7 DEF v

LEMMA InjectedAlike ==
  ASSUME NEW buf \in Seq(Upstream)
  PROVE  Alike(Injected(buf), Upto(buf, LastEnd(buf)))
<1> DEFINE w == Upto(buf, LastEnd(buf))
           f == Injected(buf)
<1>1. LastEnd(buf) \in 0..Len(buf)
  BY LastEndIs
<1>2. w \in Seq(Upstream) /\ Len(w) = LastEnd(buf) /\ DOMAIN w = 1..Len(w)
  BY <1>1, Cut, LenProperties
<1>3. f = [i \in 1..Len(w) |->
             IF w[i].part = "end" /\ w[MessageStart(w, i)].part = "line"
             THEN [w[i] EXCEPT !.header = "authorization"]
             ELSE w[i]]
  BY <1>2 DEF Injected, LastEnd
<1>4. Len(f) = Len(w)
  BY <1>2, InjectedIs
<1>5. \A u \in Upstream : LET v == [u EXCEPT !.header = "authorization"]
                          IN v.part = u.part /\ v.id = u.id
  BY DEF Upstream, Units
<1> HIDE DEF w, f
<1>6. ASSUME NEW i \in 1..Len(f) PROVE f[i].part = w[i].part /\ f[i].id = w[i].id
  <2>1. w[i] \in Upstream /\ i \in 1..Len(w)
    BY <1>2, <1>4, ElementOfSeq
  <2>2. f[i] = w[i] \/ f[i] = [w[i] EXCEPT !.header = "authorization"]
    BY <1>3, <2>1
  <2> QED
    BY <1>5, <2>1, <2>2
<1>7. Alike(f, w)
  BY <1>4, <1>6 DEF Alike
<1> QED
  BY <1>7 DEF f, w

\* injectAuthHeader on the first request.
LEMMA InjectAuthIs ==
  ASSUME NEW p \in Seq(Upstream), Ends(p) = {Len(p)}
  PROVE  /\ InjectAuthHeader(p) \in Seq(Upstream)
         /\ Alike(InjectAuthHeader(p), p)
         /\ Signed(InjectAuthHeader(p))
<1> DEFINE f == InjectAuthHeader(p)
           v == [p[Len(p)] EXCEPT !.header = "authorization"]
<1>1. Len(p) \in 1..Len(p) /\ Len(p) \in Nat
  BY EndsAre
<1>2. p[Len(p)] \in Upstream
  BY <1>1, ElementOfSeq
<1>3. /\ v \in Upstream /\ v.header = "authorization"
      /\ v.part = p[Len(p)].part /\ v.id = p[Len(p)].id
  BY <1>2 DEF Upstream, Units
<1>4. f = [p EXCEPT ![Len(p)] = v]
  BY DEF InjectAuthHeader
<1> HIDE DEF f, v
<1>5. /\ f \in Seq(Upstream) /\ Len(f) = Len(p)
      /\ \A i \in 1..Len(p) : f[i] = IF i = Len(p) THEN v ELSE p[i]
  BY <1>1, <1>3, <1>4, ExceptSeq
<1>6. Alike(f, p)
  BY <1>3, <1>5 DEF Alike
<1>7. ASSUME NEW i \in 1..Len(f), f[i].part = "end" PROVE f[i].header = "authorization"
  <2>1. p[i].part = "end"
    BY <1>3, <1>5, <1>7
  <2>2. i \in Ends(p)
    BY <1>5, <2>1, EndsAre
  <2> QED
    BY <1>3, <1>5, <2>2
<1>8. Signed(f)
  BY <1>7 DEF Signed
<1> QED
  BY <1>5, <1>6, <1>8 DEF f

--------------------------------------------------------------------------------
(* The session between the two ends *)

\* The challenge is under way, or swallowed in part: the first request is with
\* neither end.
Challenged == mode = "AUTH_NEED" /\ taken = <<>> /\ toCamera = <<>>

\* On its way to the camera, and to the client.
Upward   == (IF Challenged THEN pending ELSE toCamera) \o Stream
Downward == received \o (IF Challenged THEN <<>> ELSE remoteBuf \o fromCamera)

UpInv   == Linked(Upward, Len(taken), Len(sent)) /\ Genuine(Upward, sent)
DownInv == Tells(Downward, said)

Bare(s) == \A i \in 1..Len(s) : s[i].header = "none"

\* Who has written the headers of what is on its way to the camera.
Heads ==
  /\ client = "own" => Signed(Upward)
  /\ client # "own" /\ mode \in {"DETECTING", "AUTH_NEED", "PASSTHROUGH"} => Bare(Upward)
  /\ mode \in {"AUTH_RESPONDING", "INJECTING"} => Signed(toCamera)

Quiet == taken = <<>> /\ said = <<>> /\ received = <<>>

IsChallenge(d) ==
  Len(d) = 2 /\ d[1].part = "line" /\ d[2].part = "end" /\ d[2].header = "digest"

\* The camera is asked with the first request, has answered with its challenge,
\* or goes on without one.
Asking ==
  /\ Quiet /\ remoteBuf = <<>> /\ fromCamera = <<>>
  /\ toCamera = pending /\ toCamera # <<>> /\ toCamera[1].part = "line"
Asked ==
  /\ Quiet /\ toCamera = <<>> /\ camera \in {"digest", "refuses"}
  /\ IsChallenge(remoteBuf \o fromCamera)
Settled == taken # <<>> /\ toCamera = <<>> /\ camera \in {"basic", "open"}

Dance ==
  /\ mode = "DETECTING" =>
       Quiet /\ toCamera = <<>> /\ remoteBuf = <<>> /\ fromCamera = <<>>
  /\ client # "own" /\ mode = "PASSTHROUGH" => camera = "basic"
  /\ mode \in {"AUTH_RESPONDING", "INJECTING"} => camera \in {"digest", "refuses"}
  /\ mode = "AUTH_NEED" => Asking \/ Asked \/ Settled

Granted == \A k \in 1..Len(said) : said[k].kind = "answer" => said[k].ok = Accepts

LEMMA WaysTyped ==
  ASSUME Wires
  PROVE  Stream \in Seq(Upstream) /\ Upward \in Seq(Upstream) /\ Downward \in Seq(Downstream)
<1>1. Stream \in Seq(Upstream)
  BY ConcatProperties DEF Stream, Wires
<1>2. Upward \in Seq(Upstream)
  BY <1>1, ConcatProperties DEF Upward, Wires
<1>3. remoteBuf \o fromCamera \in Seq(Downstream) /\ <<>> \in Seq(Downstream)
  BY ConcatProperties, EmptySeq DEF Wires
<1>4. Downward \in Seq(Downstream)
  BY <1>3, ConcatProperties DEF Downward, Wires
<1> QED
  BY <1>1, <1>2, <1>4

LEMMA WaysTypedNext ==
  ASSUME Wires'
  PROVE  /\ Stream' \in Seq(Upstream) /\ Upward' \in Seq(Upstream)
         /\ Downward' \in Seq(Downstream)
<1>1. Stream' \in Seq(Upstream)
  BY ConcatProperties DEF Stream, Wires
<1>2. Upward' \in Seq(Upstream)
  BY <1>1, ConcatProperties DEF Upward, Wires
<1>3. (remoteBuf \o fromCamera)' \in Seq(Downstream) /\ <<>> \in Seq(Downstream)
  BY ConcatProperties, EmptySeq DEF Wires
<1>4. Downward' \in Seq(Downstream)
  BY <1>3, ConcatProperties DEF Downward, Wires
<1> QED
  BY <1>1, <1>2, <1>4

LEMMA AlikeSelf == \A s : Alike(s, s)
BY DEF Alike

\* What the proxy reads from the client is on its way to the camera as before.
LEMMA ClientForwards ==
  ASSUME TypeOK, Flow, ProxyReadsClient
  PROVE  /\ Alike(Upward', Upward)
         /\ mode' \notin {"AUTH_RESPONDING", "INJECTING"} => Upward' = Upward
         /\ mode' \in {"AUTH_RESPONDING", "INJECTING"} =>
              mode' = mode /\ (Signed(toCamera) => Signed(toCamera'))
<1>0. Wires /\ Phases
  BY TypeOKIs
<1>t. /\ clientBuf \in Seq(Upstream) /\ fromClient \in Seq(Upstream)
      /\ toCamera \in Seq(Upstream)
  BY <1>0 DEF Wires
<1>1. PICK n \in Chunks(fromClient) : ClientEffect(n)
  BY ClientEffects
<1> DEFINE chunk == Upto(fromClient, n)
           left  == After(fromClient, n)
           buf   == clientBuf \o chunk
           end   == FindRtspMessageEnd(buf)
<1>2. fromClient' = left /\ UNCHANGED <<client, taken, sent, said>>
  BY <1>1 DEF ClientEffect, ClientData, sessionVars
<1>3. n \in 0..Len(fromClient)
  BY <1>t, LenProperties DEF Chunks
<1>4. chunk \in Seq(Upstream) /\ left \in Seq(Upstream) /\ buf \in Seq(Upstream)
  BY <1>t, <1>3, Read
<1>5. buf \o left = Stream
  BY <1>t, <1>3, Rejoined DEF Stream
<1>6. ASSUME Upward' = Upward, mode' \notin {"AUTH_RESPONDING", "INJECTING"}
      PROVE  /\ Alike(Upward', Upward)
             /\ mode' \notin {"AUTH_RESPONDING", "INJECTING"} => Upward' = Upward
             /\ mode' \in {"AUTH_RESPONDING", "INJECTING"} =>
                  mode' = mode /\ (Signed(toCamera) => Signed(toCamera'))
  BY <1>6, AlikeSelf
<1>7. CASE /\ ClientData({"PASSTHROUGH"}, n)
           /\ toCamera' = toCamera \o chunk
           /\ UNCHANGED <<mode, clientBuf, pending>>
  <2>1. mode = "PASSTHROUGH" /\ mode' = "PASSTHROUGH"
    BY <1>7 DEF ClientData
  <2>2. clientBuf = <<>> /\ clientBuf' = <<>>
    BY <1>0, <1>7, <2>1 DEF Phases
  <2>3. Upward' = (toCamera \o chunk) \o (<<>> \o left)
    BY <1>2, <1>7, <2>1, <2>2 DEF Upward, Challenged, Stream
  <2>4. Upward = toCamera \o (<<>> \o fromClient)
    BY <2>1, <2>2 DEF Upward, Challenged, Stream
  <2> HIDE DEF chunk, left
  <2>5. <<>> \o left = left /\ <<>> \o fromClient = fromClient
    BY <1>t, <1>4, ConcatEmptySeq
  <2>6. (toCamera \o chunk) \o left = toCamera \o fromClient
    BY <1>t, <1>3, Rejoined DEF chunk, left
  <2>7. Upward' = Upward
    BY <2>3, <2>4, <2>5, <2>6
  <2> QED
    BY <1>6, <2>1, <2>7
<1>8. CASE /\ ClientData({"AUTH_NEED", "AUTH_RESPONDING", "DETECTING"}, n)
           /\ clientBuf' = buf
           /\ UNCHANGED <<mode, toCamera, pending>>
  <2>1. Stream' = buf \o left
    BY <1>2, <1>8 DEF Stream
  <2>2. Stream' = Stream
    BY <1>5, <2>1
  <2>3. Upward' = Upward
    BY <1>2, <1>8, <2>2 DEF Upward, Challenged
  <2>4. Signed(toCamera) => Signed(toCamera')
    BY <1>8
  <2> QED
    BY <1>8, <2>3, <2>4, AlikeSelf
<1>9. CASE /\ ClientData({"DETECTING"}, n)
           /\ mode' = "PASSTHROUGH"
           /\ toCamera' = toCamera \o buf
           /\ clientBuf' = <<>>
  <2>1. mode = "DETECTING" /\ mode' = "PASSTHROUGH"
    BY <1>9 DEF ClientData
  <2>2. Upward' = (toCamera \o buf) \o (<<>> \o left)
    BY <1>2, <1>9, <2>1 DEF Upward, Challenged, Stream
  <2>3. Upward = toCamera \o Stream
    BY <2>1 DEF Upward, Challenged
  <2> HIDE DEF buf, left
  <2>4. <<>> \o left = left
    BY <1>4, ConcatEmptySeq
  <2>5. (toCamera \o buf) \o left = toCamera \o (buf \o left)
    BY <1>t, <1>4, UnitsRegrouped
  <2>6. Upward' = Upward
    BY <1>5, <2>2, <2>3, <2>4, <2>5
  <2> QED
    BY <1>6, <2>1, <2>6
<1>10. CASE /\ ClientData({"DETECTING"}, n)
            /\ end > 0
            /\ mode' = "AUTH_NEED"
            /\ toCamera' = toCamera \o Upto(buf, end)
            /\ clientBuf' = After(buf, end)
  <2> HIDE DEF chunk, left, buf
  <2>1. mode = "DETECTING" /\ mode' = "AUTH_NEED" /\ end > 0
    BY <1>10 DEF ClientData
  <2> DEFINE req == Upto(buf, end)
  <2>2. req \in Seq(Upstream) /\ Len(req) = end /\ end \in 1..Len(buf)
    BY <1>4, <2>1, FirstMessage
  <2>3. toCamera' # <<>>
    <3>1. Len(toCamera \o req) = Len(toCamera) + Len(req) /\ Len(toCamera) \in Nat
      BY <1>t, <2>2, Joined
    <3>2. Len(toCamera \o req) # 0
      BY <2>1, <2>2, <3>1
    <3> QED
      BY <1>10, <3>2, EmptySeq
  <2>4. Upward' = (toCamera \o req) \o (After(buf, end) \o left)
    BY <1>2, <1>10, <2>3 DEF Upward, Challenged, Stream
  <2>5. Upward = toCamera \o (buf \o left)
    BY <1>5, <2>1 DEF Upward, Challenged
  <2>6. end \in 0..Len(buf)
    BY <1>4, <2>2, LenProperties
  <2> HIDE DEF end
  <2>7. (toCamera \o req) \o (After(buf, end) \o left) = toCamera \o (buf \o left)
    BY <1>t, <1>4, <2>6, ForwardedAsIs
  <2>8. Upward' = Upward
    BY <2>4, <2>5, <2>7
  <2> QED
    BY <1>6, <2>1, <2>8
<1>11. CASE /\ ClientData({"INJECTING"}, n)
            /\ toCamera' = toCamera \o Injected(buf)
            /\ clientBuf' = Incomplete(buf)
            /\ UNCHANGED mode
  <2> HIDE DEF chunk, left, buf
  <2> DEFINE e == LastEnd(buf)
             x == Injected(buf)
  <2>1. mode = "INJECTING" /\ mode' = "INJECTING"
    BY <1>11 DEF ClientData
  <2>2. /\ x \in Seq(Upstream) /\ e \in 0..Len(buf) /\ Alike(x, Upto(buf, e))
        /\ Incomplete(buf) = After(buf, e)
    BY <1>4, InjectedIs, InjectedAlike, LastEndIs
  <2>3. Upward' = (toCamera \o x) \o (After(buf, e) \o left)
    BY <1>2, <1>11, <2>1, <2>2 DEF Upward, Challenged, Stream
  <2>4. Upward = toCamera \o (buf \o left)
    BY <1>5, <2>1 DEF Upward, Challenged
  <2>5. Signed(x)
    <3>1. Paired(buf \o left)
      BY <1>5, <2>1 DEF Flow
    <3> QED
      BY <1>4, <3>1, InjectedIsSigned
  <2> HIDE DEF e, x
  <2>6. Alike((toCamera \o x) \o (After(buf, e) \o left), toCamera \o (buf \o left))
    BY <1>t, <1>4, <2>2, Forwarded
  <2>7. Alike(Upward', Upward)
    BY <2>3, <2>4, <2>6
  <2>8. Signed(toCamera) => Signed(toCamera \o x)
    BY <1>t, <2>2, <2>5, SignedConcat
  <2>9. toCamera' = toCamera \o x
    BY <1>11 DEF x
  <2>10. Signed(toCamera) => Signed(toCamera')
    BY <2>8, <2>9
  <2> QED
    BY <2>1, <2>7, <2>10
<1> QED
  BY <1>1, <1>7, <1>8, <1>9, <1>10, <1>11 DEF ClientEffect

\* The first complete message on its way from the camera is the challenge: it is
\* all there is.
LEMMA ChallengeIs ==
  ASSUME NEW buf \in Seq(Downstream), NEW left \in Seq(Downstream),
         IsChallenge(buf \o left), NEW end, end = FindRtspMessageEnd(buf), end > 0
  PROVE  /\ end = 2 /\ Len(buf) = 2 /\ left = <<>> /\ After(buf, end) = <<>>
         /\ ParseResponseStatus(Upto(buf, end)) = "401"
         /\ ParseDigestChallenge(Upto(buf, end))
<1> DEFINE d == buf \o left
           r == Upto(buf, end)
<1>1. /\ Len(buf) \in Nat /\ Len(left) \in Nat /\ Len(d) = Len(buf) + Len(left)
      /\ \A i \in 1..Len(buf) : d[i] = buf[i]
  BY Joined
<1>2. Len(d) = 2 /\ d[1].part = "line" /\ d[2].part = "end" /\ d[2].header = "digest"
  BY DEF IsChallenge
<1> HIDE DEF d
<1>3. /\ end \in 1..Len(buf) /\ buf[end].part = "end"
      /\ r \in Seq(Downstream) /\ Len(r) = end /\ end \in 0..Len(buf)
  BY FirstMessage, LenProperties
<1>4. end # 1
  BY <1>1, <1>2, <1>3
<1>5. end = 2 /\ Len(buf) = 2 /\ Len(left) = 0
  <2>1. Len(buf) + Len(left) = 2 /\ Len(buf) \in Nat /\ Len(left) \in Nat
    BY <1>1, <1>2
  <2>2. end \in Nat /\ 1 <= end /\ end <= Len(buf)
    BY <1>3
  <2>3. \A e, a, b \in Nat :
          a + b = 2 /\ 1 <= e /\ e <= a /\ e # 1 => e = 2 /\ a = 2 /\ b = 0
    OBVIOUS
  <2> QED
    BY <1>4, <2>1, <2>2, <2>3
<1>6. left = <<>>
  BY <1>5, EmptySeq
<1>7. /\ Len(After(buf, end)) = 0 /\ After(buf, end) \in Seq(Downstream)
      /\ \A j \in 1..end : r[j] = buf[j]
  <2>1. /\ After(buf, end) \in Seq(Downstream) /\ Len(After(buf, end)) = Len(buf) - end
        /\ \A j \in 1..end : r[j] = buf[j]
    BY <1>3, Cut
  <2>2. Len(buf) - end = 0
    BY <1>5
  <2> QED
    BY <2>1, <2>2
<1>8. After(buf, end) = <<>>
  BY <1>7, EmptySeq
<1>9. 1 \in 1..end /\ 2 \in 1..end /\ 1 \in 1..Len(buf) /\ 2 \in 1..Len(buf)
  BY <1>5
<1>10. r[1].part = "line" /\ r[2].header = "digest"
  BY <1>1, <1>2, <1>7, <1>9
<1> HIDE DEF r
<1>11. r # <<>> /\ r[Len(r)].header = "digest"
  BY <1>3, <1>5, <1>10, EmptySeq
<1>12. Head(r) = r[1]
  BY <1>11, <1>3
<1>13. ParseResponseStatus(r) = "401" /\ ParseDigestChallenge(r)
  BY <1>10, <1>11, <1>12 DEF ParseResponseStatus, ParseDigestChallenge, ParsesAsMessage
<1> QED
  BY <1>5, <1>6, <1>8, <1>13 DEF r

\* An answer that is no challenge, and says what the camera said in w.
IsAnswer(resp, w) ==
  /\ ~ParseDigestChallenge(resp)
  /\ \E k \in 1..Len(w) : w[k].kind = "answer" /\ w[k].ok = (resp[Len(resp)].header = "ok")

\* What has come from the camera after all that was told before it.
LEMMA ArrivedIs ==
  ASSUME NEW d \in Seq(Downstream), NEW buf \in Seq(Downstream),
         NEW left \in Seq(Downstream), NEW w, Tells(d \o (buf \o left), w),
         NEW end, end = FindRtspMessageEnd(buf), end > 0
  PROVE  IsAnswer(Upto(buf, end), w)
<1> DEFINE t == buf \o left
           s == d \o t
<1>1. /\ Len(buf) \in Nat /\ Len(left) \in Nat /\ Len(t) = Len(buf) + Len(left)
      /\ \A i \in 1..Len(buf) : t[i] = buf[i]
      /\ t \in Seq(Downstream)
  BY Joined
<1>2. /\ end \in 1..Len(buf) /\ buf[end].part = "end"
      /\ Len(Upto(buf, end)) = end /\ Upto(buf, end)[end] = buf[end]
  BY FirstMessage
<1>3. Tells(s, w)
  OBVIOUS
<1> HIDE DEF t
<1>4. /\ Len(d) \in Nat /\ Len(s) = Len(d) + Len(t)
      /\ \A i \in 1..Len(t) : s[Len(d) + i] = t[i]
  <2>1. t \in Seq(Downstream)
    BY <1>1
  <2> QED
    BY <2>1, Joined
<1> HIDE DEF s
<1> DEFINE i == Len(d) + end
<1>5. /\ i \in 1..Len(s) /\ i \in Nat /\ 0 < i /\ Len(s) \in Nat /\ i \in 0..Len(s)
      /\ end \in 1..Len(t)
  BY <1>1, <1>2, <1>4
<1>6. s[i] = buf[end]
  BY <1>1, <1>2, <1>4, <1>5
<1> HIDE DEF i
<1>7. s[i].part # "line"
  BY <1>2, <1>6
<1>8. Message(s[i]) = w[Complete(s, i)] /\ s[i].header # "digest"
  BY <1>3, <1>5, <1>7 DEF Tells
<1>9. Complete(s, i) \in 1..Len(w)
  <2>1. Complete(s, i) <= Complete(s, Len(s)) /\ Complete(s, 0) = 0
    BY <1>5, CompleteIs
  <2>2. Complete(s, 0) < Complete(s, i) /\ Complete(s, i) \in Nat
    BY <1>5, <1>7, CompleteGrows, CompleteIs
  <2>3. Complete(s, Len(s)) = Len(w) /\ Complete(s, Len(s)) \in Nat
    BY <1>3, <1>5, CompleteIs DEF Tells
  <2> QED
    BY <2>1, <2>2, <2>3
<1>10. /\ w[Complete(s, i)].kind = "answer"
       /\ w[Complete(s, i)].ok = (buf[end].header = "ok")
  <2>1. w[Complete(s, i)] =
          [kind |-> "answer", id |-> buf[end].id, ok |-> buf[end].header = "ok"]
    BY <1>2, <1>6, <1>8 DEF Message
  <2> QED
    BY <2>1
<1>11. ~ParseDigestChallenge(Upto(buf, end))
  BY <1>2, <1>6, <1>8 DEF ParseDigestChallenge
<1> QED
  BY <1>2, <1>9, <1>10, <1>11 DEF IsAnswer

\* The first complete message from the camera while the first request is kept is
\* its challenge, and nothing else, or an answer, and then it asks for none.
LEMMA ReplyIs ==
  ASSUME TypeOK, DownInv, Dance, Granted, NEW n \in RemoteChunks, mode = "AUTH_NEED",
         FindRtspMessageEnd(remoteBuf \o Upto(fromCamera, n)) > 0
  PROVE  LET buf  == remoteBuf \o Upto(fromCamera, n)
             end  == FindRtspMessageEnd(buf)
             resp == Upto(buf, end)
         IN  \/ /\ Asked /\ ParseResponseStatus(resp) = "401"
                /\ ParseDigestChallenge(resp)
                /\ After(buf, end) = <<>> /\ After(fromCamera, n) = <<>>
             \/ /\ Settled /\ ~ParseDigestChallenge(resp)
                /\ ParseResponseStatus(resp) = "401" => camera = "basic"
<1>0. Wires
  BY TypeOKIs
<1>t. /\ remoteBuf \in Seq(Downstream) /\ fromCamera \in Seq(Downstream)
      /\ received \in Seq(Downstream)
  BY <1>0 DEF Wires
<1> DEFINE buf  == remoteBuf \o Upto(fromCamera, n)
           left == After(fromCamera, n)
           end  == FindRtspMessageEnd(buf)
           resp == Upto(buf, end)
<1>1. n \in 0..Len(fromCamera)
  BY DEF RemoteChunks
<1>2. buf \in Seq(Downstream) /\ left \in Seq(Downstream)
  BY <1>t, <1>1, Read
<1>3. buf \o left = remoteBuf \o fromCamera
  BY <1>t, <1>1, Rejoined
<1>4. end > 0
  OBVIOUS
<1> HIDE DEF buf, left
<1>5. end \in 1..Len(buf) /\ Len(resp) = end /\ Len(buf) \in Nat
  BY <1>2, <1>4, FirstMessage, LenProperties
<1>6. ~Asking
  <2> SUFFICES ASSUME Asking PROVE FALSE
    OBVIOUS
  <2>1. remoteBuf \o fromCamera = <<>>
    BY <1>t, ConcatEmptySeq DEF Asking
  <2>2. buf = <<>>
    BY <1>2, <1>3, <2>1, ConcatEqualIffEmpty
  <2>3. Len(buf) = 0
    BY <1>2, <2>2, EmptySeq
  <2> QED
    BY <1>5, <2>3
<1>7. CASE Asked
  <2>1. IsChallenge(buf \o left)
    BY <1>3, <1>7 DEF Asked
  <2> HIDE DEF end
  <2>2. end = FindRtspMessageEnd(buf)
    BY DEF end
  <2>3. /\ left = <<>> /\ After(buf, end) = <<>>
        /\ ParseResponseStatus(Upto(buf, end)) = "401"
        /\ ParseDigestChallenge(Upto(buf, end))
    BY <1>2, <1>4, <2>1, <2>2, ChallengeIs
  <2> QED
    BY <1>7, <2>3 DEF buf, end, left
<1>8. CASE Settled
  <2>1. ~Challenged
    BY <1>8 DEF Challenged, Settled
  <2>2. Tells(received \o (buf \o left), said)
    BY <1>3, <2>1 DEF DownInv, Downward
  <2>3. IsAnswer(resp, said)
    BY <1>t, <1>2, <1>4, <2>2, ArrivedIs
  <2> HIDE DEF end, resp
  <2>4. /\ ~ParseDigestChallenge(resp)
        /\ \E k \in 1..Len(said) : said[k].kind = "answer"
            /\ said[k].ok = (resp[Len(resp)].header = "ok")
    BY <2>3 DEF IsAnswer
  <2>5. ASSUME ParseResponseStatus(resp) = "401" PROVE camera = "basic"
    <3>1. resp[Len(resp)].header \in {"digest", "refusal"}
      BY <2>5 DEF ParseResponseStatus
    <3>2. resp[Len(resp)].header # "ok"
      BY <3>1
    <3>3. PICK k \in 1..Len(said) : said[k].kind = "answer"
            /\ said[k].ok = (resp[Len(resp)].header = "ok")
      BY <2>4
    <3>4. ~said[k].ok
      BY <3>2, <3>3
    <3>5. said[k].ok = Accepts
      BY <3>3 DEF Granted
    <3>6. ~Accepts
      BY <3>4, <3>5
    <3> QED
      BY <1>8, <3>6 DEF Accepts, Settled
  <2> QED
    BY <1>8, <2>4, <2>5 DEF buf, end, resp
<1> QED
  BY <1>6, <1>7, <1>8 DEF Dance

\* What the proxy reads from the camera: what is on its way stays as it is, on
\* either side, and the dance goes on.
LEMMA CameraForwards ==
  ASSUME TypeOK, Flow, DownInv, Dance, Granted, ProxyReadsCamera
  PROVE  /\ Alike(Upward', Upward)
         /\ mode' \notin {"AUTH_RESPONDING", "INJECTING"} => Upward' = Upward
         /\ mode' \in {"AUTH_RESPONDING", "INJECTING"} =>
              ((mode # "AUTH_NEED" => Signed(toCamera)) => Signed(toCamera'))
         /\ Downward' = Downward
         /\ Dance'
<1>0. Wires /\ Phases
  BY TypeOKIs
<1>t. /\ clientBuf \in Seq(Upstream) /\ fromClient \in Seq(Upstream)
      /\ toCamera \in Seq(Upstream) /\ pending \in Seq(Upstream)
      /\ remoteBuf \in Seq(Downstream) /\ fromCamera \in Seq(Downstream)
      /\ received \in Seq(Downstream) /\ Stream \in Seq(Upstream)
  BY <1>0, WaysTyped DEF Wires
<1>1. PICK n \in RemoteChunks : CameraEffect(n)
  BY CameraEffects
<1> DEFINE chunk == Upto(fromCamera, n)
           left  == After(fromCamera, n)
           buf   == remoteBuf \o chunk
           end   == FindRtspMessageEnd(buf)
<1>2. /\ fromCamera' = left
      /\ UNCHANGED <<client, camera, fromClient, taken, sent, said>>
  BY <1>1 DEF CameraEffect
<1>3. n \in 0..Len(fromCamera)
  BY DEF RemoteChunks
<1>4. chunk \in Seq(Downstream) /\ left \in Seq(Downstream) /\ buf \in Seq(Downstream)
  BY <1>t, <1>3, Read
<1>5. buf \o left = remoteBuf \o fromCamera
  BY <1>t, <1>3, Rejoined
<1>6. <<>> \o left = left /\ <<>> \o fromCamera = fromCamera
  <2> HIDE DEF left
  <2> QED
    BY <1>t, <1>4, ConcatEmptySeq
<1>7. <<>> \o fromClient = fromClient
  BY <1>t, ConcatEmptySeq
<1>8. (received \o buf) \o left = received \o (remoteBuf \o fromCamera)
  <2> HIDE DEF buf, left
  <2>1. (received \o buf) \o left = received \o (buf \o left)
    <3>1. /\ received \in Seq(Downstream) /\ buf \in Seq(Downstream)
          /\ left \in Seq(Downstream)
      BY <1>t, <1>4
    <3> QED
      BY <3>1, ConcatAssociative
  <2> QED
    BY <1>5, <2>1
<1>9. ASSUME fromCamera = <<>> PROVE chunk = <<>> /\ left = <<>>
  <2>1. Len(fromCamera) = 0
    BY <1>9, EmptySeq
  <2>2. Len(chunk) = n /\ Len(left) = Len(fromCamera) - n
    BY <1>t, <1>3, Cut
  <2>3. n = 0
    BY <1>3, <2>1
  <2>4. Len(chunk) = 0 /\ Len(left) = 0
    BY <2>1, <2>2, <2>3
  <2> HIDE DEF chunk, left
  <2> QED
    BY <1>4, <2>4, EmptySeq
<1> DEFINE Same == /\ Alike(Upward', Upward)
                   /\ mode' \notin {"AUTH_RESPONDING", "INJECTING"} => Upward' = Upward
           Goes == mode' \in {"AUTH_RESPONDING", "INJECTING"} =>
                     ((mode # "AUTH_NEED" => Signed(toCamera)) => Signed(toCamera'))
<1>10. ASSUME UNCHANGED <<mode, clientBuf, pending, toCamera>>,
              ~(mode' = "AUTH_RESPONDING" /\ mode = "AUTH_NEED")
       PROVE  Same /\ Goes
  <2>1. Stream' = Stream
    BY <1>2, <1>10 DEF Stream
  <2>2. Upward' = Upward
    BY <1>2, <1>10, <2>1 DEF Upward, Challenged
  <2> QED
    BY <1>10, <2>2, AlikeSelf
<1>11. CASE /\ mode \in {"DETECTING", "PASSTHROUGH", "INJECTING"}
            /\ received' = received \o chunk
            /\ UNCHANGED <<mode, clientBuf, remoteBuf, pending, challenge, toCamera>>
  <2>1. remoteBuf = <<>> /\ remoteBuf' = <<>>
    BY <1>0, <1>11 DEF Phases
  <2>2. Downward' = (received \o chunk) \o (<<>> \o left)
    BY <1>2, <1>11, <2>1 DEF Downward, Challenged
  <2>3. Downward = received \o (<<>> \o fromCamera)
    BY <1>11, <2>1 DEF Downward, Challenged
  <2>4. (received \o chunk) \o left = received \o fromCamera
    BY <1>t, <1>3, Rejoined
  <2>5. Downward' = Downward
    BY <1>6, <2>2, <2>3, <2>4
  <2>6. mode = "DETECTING" => Quiet' /\ fromCamera' = <<>>
    <3>1. ASSUME mode = "DETECTING" PROVE Quiet' /\ fromCamera' = <<>>
      <4>1. Quiet /\ fromCamera = <<>>
        BY <3>1 DEF Dance
      <4>2. received' = <<>> \o <<>> /\ fromCamera' = <<>>
        BY <1>2, <1>9, <1>11, <4>1 DEF Quiet
      <4>3. <<>> \o <<>> = <<>>
        BY <1>9, <1>4, <4>1, ConcatEmptySeq
      <4> QED
        BY <1>2, <4>1, <4>2, <4>3 DEF Quiet
    <3> QED
      BY <3>1
  <2>7. Dance'
    BY <1>2, <1>11, <2>1, <2>6 DEF Dance
  <2> QED
    BY <1>10, <1>11, <2>5, <2>7
<1>12. CASE /\ mode \in {"AUTH_NEED", "AUTH_RESPONDING"}
            /\ remoteBuf' = buf
            /\ UNCHANGED <<mode, clientBuf, pending, challenge, toCamera, received>>
  <2>1. remoteBuf' \o fromCamera' = remoteBuf \o fromCamera
    BY <1>2, <1>5, <1>12
  <2>2. Downward' = Downward
    BY <1>2, <1>12, <2>1 DEF Downward, Challenged
  <2>3. Asking => Asking'
    <3>1. ASSUME Asking PROVE Asking'
      <4>1. remoteBuf = <<>> /\ chunk = <<>> /\ left = <<>>
        BY <1>9, <3>1 DEF Asking
      <4>2. buf = <<>> \o <<>>
        BY <4>1
      <4>3. <<>> \o <<>> = <<>>
        BY <1>4, <4>1, ConcatEmptySeq
      <4>4. remoteBuf' = <<>> /\ fromCamera' = <<>>
        BY <1>2, <1>12, <4>1, <4>2, <4>3
      <4> QED
        BY <1>2, <1>12, <3>1, <4>4 DEF Asking, Quiet
    <3> QED
      BY <3>1
  <2>4. Asked => Asked'
    BY <1>2, <1>12, <2>1 DEF Asked, Quiet, IsChallenge
  <2>5. Settled => Settled'
    BY <1>2, <1>12 DEF Settled
  <2>6. Dance'
    BY <1>2, <1>12, <2>3, <2>4, <2>5 DEF Dance
  <2> QED
    BY <1>10, <1>12, <2>2, <2>6
<1>13. CASE /\ mode = "AUTH_NEED" /\ end > 0
            /\ mode' = "AUTH_RESPONDING"
            /\ toCamera' = toCamera \o InjectAuthHeader(pending)
            /\ remoteBuf' = After(buf, end)
            /\ UNCHANGED <<clientBuf, pending, received>>
            /\ ParseDigestChallenge(Upto(buf, end))
  <2>1. Asked /\ After(buf, end) = <<>> /\ left = <<>>
    BY <1>13, ReplyIs
  <2>2. Challenged /\ toCamera = <<>>
    BY <1>13, <2>1 DEF Challenged, Asked, Quiet
  <2>3. ~Challenged'
    BY <1>13 DEF Challenged
  <2> DEFINE p == InjectAuthHeader(pending)
  <2>4. p \in Seq(Upstream) /\ Alike(p, pending) /\ Signed(p)
    <3>1. Ends(pending) = {Len(pending)}
      BY <1>0, <1>13 DEF Phases
    <3> QED
      BY <1>t, <3>1, InjectAuthIs
  <2>5. toCamera' = p
    <3> HIDE DEF p
    <3>1. <<>> \o p = p
      BY <2>4, ConcatEmptySeq
    <3> QED
      BY <1>13, <2>2, <3>1 DEF p
  <2> HIDE DEF p
  <2>6. Stream' = Stream
    BY <1>2, <1>13 DEF Stream
  <2>7. Upward = pending \o Stream /\ Upward' = p \o Stream
    BY <2>2, <2>3, <2>5, <2>6 DEF Upward
  <2>8. Alike(Upward', Upward)
    <3>1. Alike(p \o Stream, pending \o Stream)
      BY <1>t, <2>4, AlikeBehind
    <3> QED
      BY <2>7, <3>1
  <2>9. Signed(toCamera')
    BY <2>4, <2>5
  <2>10. Downward' = Downward
    <3>1. Downward' = received \o (<<>> \o <<>>) /\ Downward = received \o <<>>
      BY <1>2, <1>13, <2>1, <2>2, <2>3 DEF Downward
    <3>2. <<>> \o <<>> = <<>>
      BY <1>4, <2>1, ConcatEmptySeq
    <3> QED
      BY <3>1, <3>2
  <2>11. Dance'
    <3>1. camera' \in {"digest", "refuses"}
      BY <1>2, <2>1 DEF Asked
    <3> QED
      BY <1>13, <3>1 DEF Dance
  <2> QED
    BY <1>13, <2>8, <2>9, <2>10, <2>11
<1>14. ASSUME mode' # "AUTH_NEED" \/ taken' # <<>>, mode # "AUTH_NEED" \/ taken # <<>>,
              received' = received \o buf, remoteBuf' = <<>>
       PROVE  Downward' = Downward
  <2>1. Downward' = (received \o buf) \o (<<>> \o left)
    BY <1>2, <1>14 DEF Downward, Challenged
  <2>2. Downward = received \o (remoteBuf \o fromCamera)
    BY <1>14 DEF Downward, Challenged
  <2> QED
    BY <1>6, <1>8, <2>1, <2>2
<1>15. CASE /\ mode = "AUTH_NEED" /\ end > 0
            /\ mode' = "PASSTHROUGH"
            /\ received' = received \o buf
            /\ remoteBuf' = <<>>
            /\ toCamera' = toCamera \o clientBuf
            /\ clientBuf' = <<>>
            /\ ParseResponseStatus(Upto(buf, end)) = "401"
            /\ ~ParseDigestChallenge(Upto(buf, end))
  <2>1. Settled /\ camera = "basic"
    BY <1>15, ReplyIs
  <2>2. taken # <<>>
    BY <2>1 DEF Settled
  <2>3. Downward' = Downward
    BY <1>14, <1>15, <2>2
  <2>4. Upward' = (toCamera \o clientBuf) \o (<<>> \o fromClient)
    BY <1>2, <1>15 DEF Upward, Challenged, Stream
  <2>5. Upward = toCamera \o (clientBuf \o fromClient)
    BY <2>2 DEF Upward, Challenged, Stream
  <2>6. (toCamera \o clientBuf) \o fromClient = toCamera \o (clientBuf \o fromClient)
    BY <1>t, ConcatAssociative
  <2>7. Upward' = Upward
    BY <1>7, <2>4, <2>5, <2>6
  <2>8. Dance'
    BY <1>2, <1>15, <2>1 DEF Dance
  <2> QED
    BY <1>15, <2>3, <2>7, <2>8, AlikeSelf
<1>16. CASE /\ mode = "AUTH_RESPONDING"
            /\ mode' = "INJECTING"
            /\ received' = received \o buf
            /\ remoteBuf' = <<>>
            /\ toCamera' = toCamera \o Injected(clientBuf)
            /\ clientBuf' = Incomplete(clientBuf)
  <2> DEFINE e == LastEnd(clientBuf)
             x == Injected(clientBuf)
  <2>1. Downward' = Downward
    BY <1>14, <1>16
  <2>2. /\ x \in Seq(Upstream) /\ e \in 0..Len(clientBuf) /\ Alike(x, Upto(clientBuf, e))
        /\ Incomplete(clientBuf) = After(clientBuf, e)
    BY <1>t, InjectedIs, InjectedAlike, LastEndIs
  <2>3. Upward' = (toCamera \o x) \o (After(clientBuf, e) \o fromClient)
    BY <1>2, <1>16, <2>2 DEF Upward, Challenged, Stream
  <2>4. Upward = toCamera \o (clientBuf \o fromClient)
    BY <1>16 DEF Upward, Challenged, Stream
  <2>5. Signed(x)
    <3>1. Paired(clientBuf \o fromClient)
      BY <1>16 DEF Flow, Stream
    <3> QED
      BY <1>t, <3>1, InjectedIsSigned
  <2>d. toCamera' = toCamera \o x
    BY <1>16
  <2> HIDE DEF e, x
  <2>6. Alike((toCamera \o x) \o (After(clientBuf, e) \o fromClient),
              toCamera \o (clientBuf \o fromClient))
    BY <1>t, <2>2, Forwarded
  <2>7. Alike(Upward', Upward)
    BY <2>3, <2>4, <2>6
  <2>8. Signed(toCamera) => Signed(toCamera \o x)
    BY <1>t, <2>2, <2>5, SignedConcat
  <2>9. Signed(toCamera) => Signed(toCamera')
    BY <2>8, <2>d
  <2>10. Dance'
    BY <1>2, <1>16 DEF Dance
  <2> QED
    BY <1>16, <2>1, <2>7, <2>9, <2>10
<1>17. CASE /\ mode = "AUTH_NEED" /\ end > 0
            /\ received' = received \o buf
            /\ remoteBuf' = <<>>
            /\ UNCHANGED <<mode, clientBuf, pending, challenge, toCamera>>
            /\ ParseResponseStatus(Upto(buf, end)) # "401"
  <2>1. Settled
    BY <1>17, ReplyIs
  <2>2. taken # <<>> /\ Settled'
    BY <1>2, <1>17, <2>1 DEF Settled
  <2>3. Downward' = Downward
    BY <1>2, <1>14, <1>17, <2>2
  <2>4. Dance'
    BY <1>2, <1>17, <2>2 DEF Dance
  <2> QED
    BY <1>10, <1>17, <2>3, <2>4
<1> QED
  BY <1>1, <1>11, <1>12, <1>13, <1>15, <1>16, <1>17 DEF CameraEffect

LEMMA HeadersKept ==
  ASSUME NEW s \in Seq(Upstream), NEW e \in 0..Len(s)
  PROVE  (Signed(s) => Signed(After(s, e))) /\ (Bare(s) => Bare(After(s, e)))
<1> DEFINE r == After(s, e)
<1>1. Len(r) = Len(s) - e /\ Len(s) \in Nat /\ \A j \in 1..(Len(s) - e) : r[j] = s[e + j]
  BY Cut, LenProperties
<1> HIDE DEF r
<1>2. \A j \in 1..Len(r) : e + j \in 1..Len(s) /\ r[j] = s[e + j]
  BY <1>1
<1>3. (Signed(s) => Signed(r)) /\ (Bare(s) => Bare(r))
  BY <1>2 DEF Signed, Bare
<1> QED
  BY <1>3 DEF r

LEMMA BareConcat ==
  ASSUME NEW s \in Seq(Upstream), NEW q \in Seq(Upstream), Bare(s), Bare(q)
  PROVE  Bare(s \o q)
<1> DEFINE r == s \o q
<1>1. /\ \A i \in 1..Len(s) : r[i] = s[i]
      /\ \A i \in 1..Len(q) : r[Len(s) + i] = q[i]
      /\ \A i \in 1..Len(r) : i \in 1..Len(s) \/ \E j \in 1..Len(q) : i = Len(s) + j
  BY Joined
<1> HIDE DEF r
<1>2. ASSUME NEW i \in 1..Len(r) PROVE r[i].header = "none"
  <2>1. CASE i \in 1..Len(s)
    BY <1>1, <2>1 DEF Bare
  <2>2. CASE \E j \in 1..Len(q) : i = Len(s) + j
    BY <1>1, <2>2 DEF Bare
  <2> QED
    BY <1>1, <2>1, <2>2
<1>3. Bare(r)
  BY <1>2 DEF Bare
<1> QED
  BY <1>3 DEF r

\* The headers of the first of some requests.
LEMMA PrefixHeaders ==
  ASSUME NEW s \in Seq(Upstream), NEW q \in Seq(Upstream)
  PROVE  (Signed(s \o q) => Signed(s)) /\ (Bare(s \o q) => Bare(s))
<1> DEFINE r == s \o q
<1>1. \A i \in 1..Len(s) : i \in 1..Len(r) /\ r[i] = s[i]
  <2>1. /\ Len(r) = Len(s) + Len(q) /\ Len(s) \in Nat /\ Len(q) \in Nat
        /\ \A i \in 1..Len(s) : r[i] = s[i]
    BY Joined
  <2> HIDE DEF r
  <2> QED
    BY <2>1
<1> HIDE DEF r
<1>2. (Signed(r) => Signed(s)) /\ (Bare(r) => Bare(s))
  BY <1>1 DEF Signed, Bare
<1> QED
  BY <1>2 DEF r

\* What the camera does with a request: it names its challenge while the first
\* request is asked, and no other time; its answer is the one it grants.
AnswerEffect(id, v) ==
  /\ fromCamera' = fromCamera \o <<Unit("line", id, "none"), Unit("end", id, v)>>
  /\ \/ /\ v = "digest" /\ mode = "AUTH_NEED" /\ Asking
        /\ camera \in {"digest", "refuses"}
        /\ UNCHANGED <<taken, said>>
     \/ /\ v \in {"ok", "refusal"} /\ (v = "ok") = Accepts
        /\ mode = "AUTH_NEED" => Asking /\ camera \in {"basic", "open"}
        /\ taken' = Append(taken, Session!Request(id))
        /\ said' = Append(said, Session!Answer(id))

LEMMA AnswerIs ==
  ASSUME TypeOK, Flow, UpInv, Heads, Dance, CameraAnswers
  PROVE  /\ toCamera # <<>> /\ toCamera[1].part = "line"
         /\ 2 \in 1..Len(toCamera) /\ toCamera[2].part = "end"
         /\ toCamera[2].id = Len(taken) + 1
         /\ Len(taken) + 1 \in 1..Len(sent)
         /\ sent[Len(taken) + 1] = Session!Request(Len(taken) + 1)
         /\ FindRtspMessageEnd(toCamera) = 2
         /\ toCamera' = After(toCamera, 2)
         /\ UNCHANGED <<client, camera, mode, clientBuf, remoteBuf, pending, fromClient,
                        received, sent>>
         /\ \E v : AnswerEffect(Len(taken) + 1, v)
<1>0. Wires /\ History /\ Phases
  BY TypeOKIs
<1>t. /\ toCamera \in Seq(Upstream) /\ Stream \in Seq(Upstream)
      /\ Len(taken) \in Nat /\ Len(sent) \in Nat
  BY <1>0, WaysTyped, LenProperties DEF Wires, History
<1> DEFINE end     == FindRtspMessageEnd(toCamera)
           request == Upto(toCamera, end)
           id      == Head(request).id
           v       == Verdict(id, request)
           next    == Len(taken) + 1
<1>1. /\ toCamera # <<>> /\ Head(toCamera).part = "line" /\ end > 0
      /\ toCamera' = After(toCamera, end)
      /\ fromCamera' = fromCamera \o <<Unit("line", id, "none"), Unit("end", id, v)>>
      /\ IF v = "digest" /\ id = 1
         THEN UNCHANGED <<taken, said>>
         ELSE /\ taken' = Append(taken, Session!Request(id))
              /\ said' = Append(said, Session!Answer(id))
  BY DEF CameraAnswers
<1>u. UNCHANGED <<client, camera, mode, clientBuf, remoteBuf, pending, fromClient,
                  received, sent>>
  BY DEF CameraAnswers, proxyVars
<1>2. Upward = toCamera \o Stream
  BY <1>1 DEF Upward, Challenged
<1>h. toCamera[1].part = "line"
  BY <1>t, <1>1
<1>3. /\ toCamera[1].id = next /\ next \in 1..Len(sent)
      /\ end = 2 /\ 2 \in 1..Len(toCamera)
      /\ toCamera[2].part = "end" /\ toCamera[2].id = next
      /\ Upward[2] = toCamera[2] /\ 2 \in 1..Len(Upward)
  <2>1. Linked(toCamera \o Stream, Len(taken), Len(sent))
    BY <1>2 DEF UpInv
  <2> QED
    BY <1>t, <1>1, <1>2, <1>h, <2>1, NextIs
<1>4. sent[next] = Session!Request(next)
  <2>1. /\ sent[Upward[2].id] = IF Upward[2].part = "data"
                                THEN Session!Data(Upward[2].id)
                                ELSE Session!Request(Upward[2].id)
    BY <1>3 DEF UpInv, Genuine
  <2>2. Upward[2].id = next /\ Upward[2].part = "end"
    BY <1>3
  <2> QED
    BY <2>1, <2>2
<1>5. /\ request \in Seq(Upstream) /\ Len(request) = 2
      /\ \A j \in 1..2 : request[j] = toCamera[j]
  <2>1. 2 \in 0..Len(toCamera)
    BY <1>3
  <2>2. /\ Upto(toCamera, 2) \in Seq(Upstream) /\ Len(Upto(toCamera, 2)) = 2
        /\ \A j \in 1..2 : Upto(toCamera, 2)[j] = toCamera[j]
    BY <1>t, <2>1, Cut
  <2> QED
    BY <1>3, <2>2
<1>6. id = next
  <2> HIDE DEF request
  <2>0. 1 \in 1..2
    OBVIOUS
  <2>3. Len(request) # 0
    BY <1>5
  <2>1. request # <<>>
    BY <2>3, EmptySeq
  <2>2. Head(request) = request[1]
    BY <1>5, <2>1
  <2> QED
    BY <1>3, <1>5, <2>0, <2>1, <2>2
<1>7. DOMAIN request = 1..2 /\ 1 \in 1..Len(toCamera)
  <2> HIDE DEF request
  <2> QED
    BY <1>3, <1>5, LenProperties
<1>8. Signed(toCamera) => HasAuthorizationHeader(request)
  <2>1. Signed(toCamera) => toCamera[2].header = "authorization"
    BY <1>3 DEF Signed
  <2> HIDE DEF request
  <2>2. 2 \in 1..2 /\ request[2] = toCamera[2]
    BY <1>5
  <2> QED
    BY <1>7, <2>1, <2>2 DEF HasAuthorizationHeader
<1>9. Bare(toCamera) => ~HasAuthorizationHeader(request)
  <2>1. Bare(toCamera) => toCamera[1].header = "none" /\ toCamera[2].header = "none"
    BY <1>3, <1>7 DEF Bare
  <2> HIDE DEF request
  <2>2. \A j \in 1..2 : (j = 1 \/ j = 2) /\ request[j] = toCamera[j]
    BY <1>5
  <2> QED
    BY <1>7, <2>1, <2>2 DEF HasAuthorizationHeader
<1> HIDE DEF request, end
<1>10. HasAuthorizationHeader(request) \in BOOLEAN
  BY DEF HasAuthorizationHeader
<1>11. client \in {"plain", "own"} /\ camera \in AllCameras /\ mode \in Modes
  BY <1>0, ClientsAssumption, CamerasAssumption DEF Phases
<1>12. mode # "DETECTING"
  BY <1>1 DEF Dance
<1>13. mode = "AUTH_NEED" => Asking
  BY <1>1 DEF Dance, Asked, Settled
<1>14. /\ client = "own" => Signed(toCamera)
       /\ client # "own" /\ mode \in {"AUTH_NEED", "PASSTHROUGH"} => Bare(toCamera)
       /\ mode \in {"AUTH_RESPONDING", "INJECTING"} => Signed(toCamera)
  BY <1>t, <1>2, PrefixHeaders DEF Heads
<1>v. v = Verdict(next, request)
  BY <1>6
<1> HIDE DEF v, id
<1>15. ASSUME v \in {"ok", "refusal"}, (v = "ok") = Accepts,
              mode = "AUTH_NEED" => Asking /\ camera \in {"basic", "open"}
       PROVE  AnswerEffect(next, v)
  <2>1. v # "digest"
    BY <1>15
  <2> QED
    BY <1>1, <1>6, <1>15, <2>1 DEF AnswerEffect
<1>20. AnswerEffect(next, v)
  <2>1. CASE client = "own"
    <3>1. HasAuthorizationHeader(request)
      BY <1>8, <1>14, <2>1
    <3>2. v = IF camera = "refuses" THEN "refusal" ELSE "ok"
      BY <1>v, <3>1 DEF Verdict
    <3>3. Accepts <=> camera # "refuses"
      BY <1>11, <2>1 DEF Accepts, AllCameras
    <3>4. mode # "AUTH_NEED"
      BY <2>1 DEF Flow
    <3>5. v \in {"ok", "refusal"} /\ (v = "ok") = Accepts
      <4>1. CASE camera = "refuses"
        BY <3>2, <3>3, <4>1
      <4>2. CASE camera # "refuses"
        BY <3>2, <3>3, <4>2 DEF Accepts
      <4> QED
        BY <4>1, <4>2
    <3> QED
      BY <1>15, <3>4, <3>5
  <2>2. CASE client # "own" /\ mode \in {"AUTH_RESPONDING", "INJECTING"}
    <3>1. HasAuthorizationHeader(request)
      BY <1>8, <1>14, <2>2
    <3>2. v = IF camera = "refuses" THEN "refusal" ELSE "ok"
      BY <1>v, <3>1 DEF Verdict
    <3>3. camera \in {"digest", "refuses"}
      BY <2>2 DEF Dance
    <3>4. v \in {"ok", "refusal"} /\ (v = "ok") = Accepts
      BY <2>2, <3>2, <3>3 DEF Accepts
    <3> QED
      BY <1>15, <2>2, <3>4
  <2>3. CASE client # "own" /\ mode = "PASSTHROUGH"
    <3>1. ~HasAuthorizationHeader(request)
      BY <1>9, <1>14, <2>3
    <3>2. camera = "basic"
      BY <2>3 DEF Dance
    <3>3. v = "refusal"
      BY <1>v, <3>1, <3>2 DEF Verdict
    <3>4. v \in {"ok", "refusal"} /\ (v = "ok") = Accepts
      BY <2>3, <3>2, <3>3 DEF Accepts
    <3> QED
      BY <1>15, <2>3, <3>4
  <2>4. CASE client # "own" /\ mode = "AUTH_NEED"
    <3>1. ~HasAuthorizationHeader(request)
      BY <1>9, <1>14, <2>4
    <3>2. Asking /\ taken = <<>>
      BY <1>13, <2>4 DEF Asking, Quiet
    <3>3. next = 1
      <4>1. Len(taken) = 0
        BY <3>2, EmptySeq
      <4> QED
        BY <4>1
    <3>4. CASE camera = "open"
      <4>1. v = "ok"
        BY <1>v, <3>1, <3>3, <3>4 DEF Verdict
      <4>2. v \in {"ok", "refusal"} /\ (v = "ok") = Accepts
        BY <3>4, <4>1 DEF Accepts
      <4> QED
        BY <1>15, <3>2, <3>4, <4>2
    <3>5. CASE camera = "basic"
      <4>1. v = "refusal"
        BY <1>v, <3>1, <3>5 DEF Verdict
      <4>2. v \in {"ok", "refusal"} /\ (v = "ok") = Accepts
        BY <2>4, <3>5, <4>1 DEF Accepts
      <4> QED
        BY <1>15, <3>2, <3>5, <4>2
    <3>6. CASE camera \in {"digest", "refuses"}
      <4>1. v = "digest"
        BY <1>v, <3>1, <3>6 DEF Verdict
      <4>2. AnswerEffect(next, v)
        BY <1>1, <1>6, <2>4, <3>2, <3>3, <3>6, <4>1 DEF AnswerEffect
      <4> QED
        BY <4>2
    <3> QED
      BY <1>11, <3>4, <3>5, <3>6 DEF AllCameras
  <2> QED
    BY <1>11, <1>12, <2>1, <2>2, <2>3, <2>4 DEF Modes
<1>21. \E w : AnswerEffect(next, w)
  BY <1>20
<1> QED
  BY <1>1, <1>3, <1>4, <1>h, <1>u, <1>21 DEF end

--------------------------------------------------------------------------------
(* The invariant of the session, step by step *)

Dialogue == UpInv /\ DownInv /\ Heads /\ Dance /\ Granted

\* The first request in a buffer whose units are those of the stream.
LEMMA FirstOfStream ==
  ASSUME NEW buf \in Seq(Upstream), NEW left \in Seq(Upstream),
         NEW end, end = FindRtspMessageEnd(buf), end > 0
  PROVE  /\ Bare(buf \o left) => ~HasAuthorizationHeader(Upto(buf, end))
         /\ Paired(buf \o left) => Upto(buf, end)[1].part = "line"
         /\ Upto(buf, end) \in Seq(Upstream) /\ Upto(buf, end) # <<>>
<1> DEFINE s == buf \o left
           req == Upto(buf, end)
<1>1. /\ end \in 1..Len(buf) /\ req \in Seq(Upstream) /\ Len(req) = end
  BY FirstMessage
<1>2. /\ Len(buf) \in Nat /\ Len(left) \in Nat /\ Len(s) = Len(buf) + Len(left)
      /\ \A i \in 1..Len(buf) : s[i] = buf[i]
      /\ s \in Seq(Upstream)
  BY Joined
<1>3. end \in 0..Len(buf)
  BY <1>1
<1>4. \A i \in 1..end : req[i] = buf[i]
  BY <1>3, Cut
<1> HIDE DEF s, req
<1>5. \A i \in 1..Len(req) : i \in 1..Len(s) /\ req[i] = s[i]
  BY <1>1, <1>2, <1>4
<1>6. DOMAIN req = 1..Len(req) /\ 1 \in 1..Len(req) /\ Len(s) # 0 /\ Len(req) # 0
  BY <1>1, <1>2, LenProperties
<1>7. s # <<>> /\ req # <<>>
  BY <1>6, EmptySeq
<1>8. Bare(s) => ~HasAuthorizationHeader(req)
  BY <1>5, <1>6 DEF Bare, HasAuthorizationHeader
<1>9. Paired(s) => req[1].part = "line"
  BY <1>5, <1>6, <1>7 DEF Paired
<1> QED
  BY <1>1, <1>7, <1>8, <1>9 DEF s, req

LEMMA DanceReadsClient ==
  ASSUME TypeOK, Flow, Flow', Heads, Dance, ProxyReadsClient
  PROVE  /\ Dance' /\ Challenged' = Challenged
         /\ mode \in {"AUTH_RESPONDING", "INJECTING"} => mode' = mode
         /\ UNCHANGED <<client, camera, remoteBuf, fromCamera, received, sent, taken, said>>
<1>0. Wires /\ Phases
  BY TypeOKIs
<1>t. /\ clientBuf \in Seq(Upstream) /\ fromClient \in Seq(Upstream)
      /\ toCamera \in Seq(Upstream) /\ Stream \in Seq(Upstream)
  BY <1>0, WaysTyped DEF Wires
<1>1. PICK n \in Chunks(fromClient) : ClientEffect(n)
  BY ClientEffects
<1> DEFINE chunk == Upto(fromClient, n)
           left  == After(fromClient, n)
           buf   == clientBuf \o chunk
           end   == FindRtspMessageEnd(buf)
           req   == Upto(buf, end)
<1>2. UNCHANGED <<client, camera, remoteBuf, fromCamera, received, sent, taken, said>>
  BY <1>1 DEF ClientEffect, ClientData, sessionVars
<1>3. n \in 0..Len(fromClient)
  BY <1>t, LenProperties DEF Chunks
<1>4. chunk \in Seq(Upstream) /\ left \in Seq(Upstream) /\ buf \in Seq(Upstream)
  BY <1>t, <1>3, Read
<1>5. buf \o left = Stream
  BY <1>t, <1>3, Rejoined DEF Stream
<1>6. ASSUME ClientData({"DETECTING"}, n), end > 0
      PROVE  /\ mode = "DETECTING" /\ toCamera = <<>>
             /\ client # "own" => ~HasAuthorizationHeader(req)
             /\ client # "own" => req[1].part = "line"
             /\ req \in Seq(Upstream) /\ req # <<>>
  <2>1. mode = "DETECTING" /\ toCamera = <<>>
    BY <1>6 DEF ClientData, Dance
  <2>2. client # "own" => Paired(Stream)
    BY <2>1 DEF Flow
  <2>3. client # "own" => Bare(Stream)
    <3>1. Upward = <<>> \o Stream
      BY <2>1 DEF Upward, Challenged
    <3>2. Upward = Stream
      BY <1>t, <3>1, ConcatEmptySeq
    <3> QED
      BY <2>1, <3>2 DEF Heads
  <2> HIDE DEF buf, left
  <2>4. end = FindRtspMessageEnd(buf) /\ end > 0
    BY <1>6
  <2> HIDE DEF end
  <2>5. /\ Bare(buf \o left) => ~HasAuthorizationHeader(req)
        /\ Paired(buf \o left) => req[1].part = "line"
        /\ req \in Seq(Upstream) /\ req # <<>>
    BY <1>4, <2>4, FirstOfStream
  <2> QED
    BY <1>5, <2>1, <2>2, <2>3, <2>5
<1> DEFINE Kept == /\ Dance' /\ Challenged' = Challenged
                   /\ mode \in {"AUTH_RESPONDING", "INJECTING"} => mode' = mode
<1>7. ASSUME UNCHANGED <<mode, toCamera, pending>> PROVE Kept
  <2>1. Challenged' = Challenged
    BY <1>2, <1>7 DEF Challenged
  <2>2. Asking' = Asking
    BY <1>2, <1>7 DEF Asking, Quiet
  <2>3. Asked' = Asked
    BY <1>2, <1>7 DEF Asked, Quiet, IsChallenge
  <2>4. Settled' = Settled
    BY <1>2, <1>7 DEF Settled
  <2>5. Quiet' = Quiet
    BY <1>2 DEF Quiet
  <2>6. Dance'
    BY <1>2, <1>7, <2>2, <2>3, <2>4, <2>5 DEF Dance
  <2> QED
    BY <1>7, <2>1, <2>6
<1>8. ASSUME ClientData({"PASSTHROUGH"}, n) \/ ClientData({"INJECTING"}, n), UNCHANGED mode
      PROVE  Kept
  <2>1. mode \in {"PASSTHROUGH", "INJECTING"}
    BY <1>8 DEF ClientData
  <2>2. Dance'
    BY <1>2, <1>8, <2>1 DEF Dance
  <2>3. Challenged' = Challenged
    BY <1>8, <2>1 DEF Challenged
  <2> QED
    BY <1>8, <2>2, <2>3
<1>9. ASSUME ClientData({"DETECTING"}, n), end > 0, HasAuthorizationHeader(req),
             mode' = "PASSTHROUGH"
      PROVE  Kept
  <2>1. mode = "DETECTING" /\ client = "own"
    BY <1>6, <1>9
  <2>2. Dance'
    BY <1>2, <1>9, <2>1 DEF Dance
  <2>3. Challenged' = Challenged
    BY <1>9, <2>1 DEF Challenged
  <2> QED
    BY <2>1, <2>2, <2>3
<1>10. ASSUME ClientData({"DETECTING"}, n), end > 0,
              mode' = "AUTH_NEED", pending' = req, toCamera' = toCamera \o req
       PROVE  Kept
  <2>1. mode = "DETECTING" /\ toCamera = <<>> /\ req \in Seq(Upstream) /\ req # <<>>
    BY <1>6, <1>10
  <2>2. client # "own"
    BY <1>2, <1>10 DEF Flow
  <2>3. req[1].part = "line"
    BY <1>6, <1>10, <2>2
  <2>4. toCamera' = req
    <3> HIDE DEF req
    <3>1. <<>> \o req = req
      BY <2>1, ConcatEmptySeq
    <3> QED
      BY <1>10, <2>1, <3>1
  <2> HIDE DEF req
  <2>5. Quiet /\ remoteBuf = <<>> /\ fromCamera = <<>>
    BY <2>1 DEF Dance
  <2>6. Asking'
    BY <1>2, <1>10, <2>1, <2>3, <2>4, <2>5 DEF Asking, Quiet
  <2>7. Dance'
    BY <1>10, <2>6 DEF Dance
  <2>8. Challenged' = Challenged
    BY <2>1, <2>4 DEF Challenged
  <2> QED
    BY <2>1, <2>7, <2>8
<1>11. Kept
  BY <1>1, <1>7, <1>8, <1>9, <1>10 DEF ClientEffect
<1> QED
  BY <1>2, <1>11

LEMMA ReadsClientKeeps ==
  ASSUME TypeOK, TypeOK', Flow, Flow', Dialogue, ProxyReadsClient
  PROVE  Dialogue'
<1>1. UpInv /\ DownInv /\ Heads /\ Dance /\ Granted
  BY DEF Dialogue
<1>2. Wires /\ Wires' /\ History /\ Phases'
  BY TypeOKIs
<1>3. Upward \in Seq(Upstream) /\ Upward' \in Seq(Upstream)
  BY <1>2, WaysTyped, WaysTypedNext
<1>4. /\ Alike(Upward', Upward)
      /\ mode' \notin {"AUTH_RESPONDING", "INJECTING"} => Upward' = Upward
      /\ mode' \in {"AUTH_RESPONDING", "INJECTING"} =>
           mode' = mode /\ (Signed(toCamera) => Signed(toCamera'))
  BY ClientForwards
<1>5. /\ Dance' /\ Challenged' = Challenged
      /\ mode \in {"AUTH_RESPONDING", "INJECTING"} => mode' = mode
      /\ UNCHANGED <<client, camera, remoteBuf, fromCamera, received, sent, taken, said>>
  BY <1>1, DanceReadsClient
<1>6. UpInv'
  <2>1. Linked(Upward', Len(taken), Len(sent)) /\ Genuine(Upward', sent)
    BY <1>1, <1>3, <1>4, LinkedAlike DEF UpInv
  <2> QED
    BY <1>5, <2>1 DEF UpInv, Linked, Genuine
<1>7. DownInv'
  <2>1. Downward' = Downward
    BY <1>5 DEF Downward
  <2>2. Tells(Downward', said')
    BY <1>1, <1>5, <2>1 DEF DownInv
  <2> QED
    BY <2>2 DEF DownInv, Tells
<1>8. Heads'
  <2>1. ASSUME client' = "own" PROVE Signed(Upward)'
    <3>1. mode' \notin {"AUTH_RESPONDING", "INJECTING"}
      BY <2>1 DEF Flow
    <3>2. Signed(Upward) /\ Upward' = Upward
      BY <1>1, <1>4, <1>5, <2>1, <3>1 DEF Heads
    <3> QED
      BY <3>2 DEF Signed
  <2>2. ASSUME client' # "own", mode' \in {"DETECTING", "AUTH_NEED", "PASSTHROUGH"}
        PROVE  Bare(Upward)'
    <3>1. mode \notin {"AUTH_RESPONDING", "INJECTING"}
      BY <1>5, <2>2
    <3>2. mode \in {"DETECTING", "AUTH_NEED", "PASSTHROUGH"}
      <4>1. mode \in Modes
        BY TypeOKIs DEF Phases
      <4> QED
        BY <3>1, <4>1 DEF Modes
    <3>3. Bare(Upward) /\ Upward' = Upward
      BY <1>1, <1>4, <1>5, <2>2, <3>2 DEF Heads
    <3> QED
      BY <3>3 DEF Bare
  <2>3. ASSUME mode' \in {"AUTH_RESPONDING", "INJECTING"} PROVE Signed(toCamera)'
    <3>1. Signed(toCamera')
      BY <1>1, <1>4, <2>3 DEF Heads
    <3> QED
      BY <3>1 DEF Signed
  <2> QED
    BY <2>1, <2>2, <2>3 DEF Heads
<1>9. Granted'
  BY <1>1, <1>5 DEF Granted, Accepts
<1> QED
  BY <1>5, <1>6, <1>7, <1>8, <1>9 DEF Dialogue

LEMMA ReadsCameraKeeps ==
  ASSUME TypeOK, TypeOK', Flow, Flow', Dialogue, ProxyReadsCamera
  PROVE  Dialogue'
<1>1. UpInv /\ DownInv /\ Heads /\ Dance /\ Granted
  BY DEF Dialogue
<1>2. Wires /\ Wires' /\ History /\ Phases
  BY TypeOKIs
<1>3. Upward \in Seq(Upstream) /\ Upward' \in Seq(Upstream)
  BY <1>2, WaysTyped, WaysTypedNext
<1>4. /\ Alike(Upward', Upward)
      /\ mode' \notin {"AUTH_RESPONDING", "INJECTING"} => Upward' = Upward
      /\ mode' \in {"AUTH_RESPONDING", "INJECTING"} =>
           ((mode # "AUTH_NEED" => Signed(toCamera)) => Signed(toCamera'))
      /\ Downward' = Downward
      /\ Dance'
  BY <1>1, CameraForwards
<1>5. PICK n \in RemoteChunks : CameraEffect(n)
  BY CameraEffects
<1>6. /\ UNCHANGED <<client, camera, sent, taken, said>>
      /\ mode \in {"AUTH_RESPONDING", "INJECTING"} =>
           mode' \in {"AUTH_RESPONDING", "INJECTING"}
      /\ mode' \in {"AUTH_RESPONDING", "INJECTING"} =>
           mode \in {"AUTH_NEED", "AUTH_RESPONDING", "INJECTING"}
  BY <1>5 DEF CameraEffect
<1>7. UpInv'
  <2>1. Linked(Upward', Len(taken), Len(sent)) /\ Genuine(Upward', sent)
    BY <1>1, <1>3, <1>4, LinkedAlike DEF UpInv
  <2> QED
    BY <1>6, <2>1 DEF UpInv, Linked, Genuine
<1>8. DownInv'
  <2>1. Tells(Downward', said')
    BY <1>1, <1>4, <1>6 DEF DownInv
  <2> QED
    BY <2>1 DEF DownInv, Tells
<1>9. Heads'
  <2>1. ASSUME client' = "own" PROVE Signed(Upward)'
    <3>1. mode' \notin {"AUTH_RESPONDING", "INJECTING"}
      BY <2>1 DEF Flow
    <3>2. Signed(Upward) /\ Upward' = Upward
      BY <1>1, <1>4, <1>6, <2>1, <3>1 DEF Heads
    <3> QED
      BY <3>2 DEF Signed
  <2>2. ASSUME client' # "own", mode' \in {"DETECTING", "AUTH_NEED", "PASSTHROUGH"}
        PROVE  Bare(Upward)'
    <3>1. mode \notin {"AUTH_RESPONDING", "INJECTING"}
      BY <1>6, <2>2
    <3>2. mode \in {"DETECTING", "AUTH_NEED", "PASSTHROUGH"}
      BY <1>2, <3>1 DEF Phases, Modes
    <3>3. Bare(Upward) /\ Upward' = Upward
      BY <1>1, <1>4, <1>6, <2>2, <3>2 DEF Heads
    <3> QED
      BY <3>3 DEF Bare
  <2>3. ASSUME mode' \in {"AUTH_RESPONDING", "INJECTING"} PROVE Signed(toCamera)'
    <3>1. mode # "AUTH_NEED" => Signed(toCamera)
      BY <1>1, <1>6, <2>3 DEF Heads
    <3>2. Signed(toCamera')
      BY <1>4, <2>3, <3>1
    <3> QED
      BY <3>2 DEF Signed
  <2> QED
    BY <2>1, <2>2, <2>3 DEF Heads
<1>10. Granted'
  BY <1>1, <1>6 DEF Granted, Accepts
<1> QED
  BY <1>4, <1>7, <1>8, <1>9, <1>10 DEF Dialogue

\* What the client sends goes behind what is on its way.
LEMMA SendKeeps ==
  ASSUME TypeOK, Dialogue,
         NEW q \in Seq(Upstream), q # <<>>, NEW m \in Messages,
         Linked(q, Len(sent), Len(sent) + 1), Genuine(q, Append(sent, m)),
         client = "own" => Signed(q), client # "own" => Bare(q),
         fromClient' = fromClient \o q, sent' = Append(sent, m),
         UNCHANGED <<client, camera, mode, clientBuf, remoteBuf, pending, toCamera,
                     fromCamera, received, taken, said>>
  PROVE  Dialogue'
<1>0. Wires /\ History
  BY TypeOKIs
<1>1. UpInv /\ DownInv /\ Heads /\ Dance /\ Granted
  BY DEF Dialogue
<1>t. /\ clientBuf \in Seq(Upstream) /\ fromClient \in Seq(Upstream)
      /\ (IF Challenged THEN pending ELSE toCamera) \in Seq(Upstream)
      /\ Upward \in Seq(Upstream) /\ Stream \in Seq(Upstream)
      /\ sent \in Seq(Messages) /\ Len(sent) \in Nat /\ Len(taken) \in Nat
  BY <1>0, WaysTyped, LenProperties DEF Wires, History
<1>2. Challenged' = Challenged
  BY DEF Challenged
<1>3. Upward' = Upward \o q
  <2> DEFINE x == IF Challenged THEN pending ELSE toCamera
  <2>1. Stream' = Stream \o q
    <3>1. (clientBuf \o fromClient) \o q = clientBuf \o (fromClient \o q)
      <4>1. /\ clientBuf \in Seq(Upstream) /\ fromClient \in Seq(Upstream)
            /\ q \in Seq(Upstream)
        BY <1>t
      <4> QED
        BY <4>1, UnitsRegrouped
    <3> QED
      BY <3>1 DEF Stream
  <2>2. Upward' = x \o (Stream \o q)
    BY <1>2, <2>1 DEF Upward
  <2>3. Upward = x \o Stream
    BY DEF Upward
  <2>4. x \in Seq(Upstream)
    BY <1>t
  <2> HIDE DEF x
  <2>5. (x \o Stream) \o q = x \o (Stream \o q)
    BY <1>t, <2>4, UnitsRegrouped
  <2> QED
    BY <2>2, <2>3, <2>5
<1>4. UpInv'
  <2>1. Linked(Upward, Len(taken), Len(sent)) /\ Genuine(Upward, sent)
    BY <1>1 DEF UpInv
  <2>2. Linked(Upward \o q, Len(taken), Len(sent) + 1)
    BY <1>t, <2>1, LinkedMore
  <2>3. Genuine(Upward \o q, Append(sent, m))
    BY <1>t, <2>1, GenuineMore
  <2>4. Len(sent') = Len(sent) + 1
    BY <1>t, AppendProperties
  <2>5. Linked(Upward', Len(taken'), Len(sent')) /\ Genuine(Upward', sent')
    BY <1>3, <2>2, <2>3, <2>4
  <2> QED
    BY <2>5 DEF UpInv, Linked, Genuine
<1>5. DownInv'
  <2>1. Tells(Downward', said')
    BY <1>1, <1>2 DEF DownInv, Downward
  <2> QED
    BY <2>1 DEF DownInv, Tells
<1>6. Heads'
  <2>1. client = "own" => Signed(Upward \o q)
    BY <1>1, <1>t, SignedConcat DEF Heads
  <2>2. client # "own" /\ mode \in {"DETECTING", "AUTH_NEED", "PASSTHROUGH"} =>
          Bare(Upward \o q)
    BY <1>1, <1>t, BareConcat DEF Heads
  <2>3. client' = "own" => Signed(Upward)'
    BY <1>3, <2>1 DEF Signed
  <2>4. client' # "own" /\ mode' \in {"DETECTING", "AUTH_NEED", "PASSTHROUGH"} =>
          Bare(Upward)'
    BY <1>3, <2>2 DEF Bare
  <2>5. mode' \in {"AUTH_RESPONDING", "INJECTING"} => Signed(toCamera)'
    BY <1>1 DEF Heads, Signed
  <2> QED
    BY <2>3, <2>4, <2>5 DEF Heads
<1>7. Dance'
  BY <1>1 DEF Dance, Asking, Asked, Settled, Quiet, IsChallenge
<1>8. Granted'
  BY <1>1 DEF Granted, Accepts
<1> QED
  BY <1>4, <1>5, <1>6, <1>7, <1>8 DEF Dialogue

LEMMA ClientStepKeeps ==
  ASSUME TypeOK, Dialogue, ClientStep, "plain" \notin DataFrom
  PROVE  Dialogue'
<1>0. History /\ Phases
  BY TypeOKIs
<1>t. sent \in Seq(Messages) /\ Len(sent) \in Nat
  BY <1>0, LenProperties DEF History
<1> DEFINE id == Len(sent) + 1
<1>1. id \in Nat /\ id \in 1..(Len(sent) + 1)
  BY <1>t
<1>2. CASE ClientSendsRequest
  <2> DEFINE h == IF client = "own" THEN "authorization" ELSE "none"
             a == Unit("line", id, "none")
             b == Unit("end", id, h)
             q == <<a, b>>
             m == Session!Request(id)
             w == Append(sent, m)
  <2>1. /\ sent' = w /\ fromClient' = fromClient \o q
        /\ UNCHANGED <<client, camera, mode, clientBuf, remoteBuf, pending, toCamera,
                       fromCamera, received, taken, said>>
    BY <1>2 DEF ClientSendsRequest, proxyVars
  <2>2. h = "authorization" \/ h = "none"
    OBVIOUS
  <2>3. (client = "own" => h = "authorization") /\ (client # "own" => h = "none")
    OBVIOUS
  <2>4. /\ a.part = "line" /\ a.id = id /\ a.header = "none"
        /\ b.part = "end" /\ b.id = id /\ b.header = h
    BY DEF Unit
  <2> HIDE DEF h
  <2>5. a \in Upstream /\ b \in Upstream /\ m \in Messages
    BY <1>1, <2>2, UnitsAreTyped
  <2> HIDE DEF m
  <2>6. w[id] = m
    BY <1>t, <2>5, AppendProperties
  <2> HIDE DEF a, b, w
  <2>7. /\ q \in Seq(Upstream) /\ Len(q) = 2 /\ q # <<>>
        /\ q[1] = a /\ q[2] = b
    BY <2>5
  <2> HIDE DEF q
  <2>8. \A i \in 1..2 : i = 1 \/ i = 2
    OBVIOUS
  <2>9. \A i \in 1 .. 2 - 1 : i = 1
    OBVIOUS
  <2>10. Linked(q, Len(sent), Len(sent) + 1)
    BY <1>1, <2>4, <2>7, <2>8, <2>9 DEF Linked
  <2>11. Genuine(q, w)
    <3>1. \A i \in 1..Len(q) : q[i].part # "data" /\ q[i].id = id
      BY <2>4, <2>7, <2>8
    <3> QED
      BY <2>6, <3>1 DEF Genuine, m
  <2>12. (client = "own" => Signed(q)) /\ (client # "own" => Bare(q))
    BY <2>3, <2>4, <2>7, <2>8 DEF Signed, Bare
  <2> QED
    BY <2>1, <2>5, <2>7, <2>10, <2>11, <2>12, SendKeeps DEF w
<1>3. CASE ClientSendsData
  <2> DEFINE a == Unit("data", id, "none")
             q == <<a>>
             m == Session!Data(id)
             w == Append(sent, m)
  <2>1. /\ sent' = w /\ fromClient' = Append(fromClient, a)
        /\ UNCHANGED <<client, camera, mode, clientBuf, remoteBuf, pending, toCamera,
                       fromCamera, received, taken, said>>
    BY <1>3 DEF ClientSendsData, proxyVars
  <2>2. client = "own"
    BY <1>3, ClientsAssumption DEF ClientSendsData
  <2>3. a.part = "data" /\ a.id = id
    BY DEF Unit
  <2>4. a \in Upstream /\ m \in Messages
    BY <1>1, UnitsAreTyped
  <2> HIDE DEF m
  <2>5. w[id] = m
    BY <1>t, <2>4, AppendProperties
  <2> HIDE DEF a, w
  <2>6. q \in Seq(Upstream) /\ Len(q) = 1 /\ q # <<>> /\ q[1] = a
    BY <2>4
  <2>7. fromClient' = fromClient \o q
    <3>1. fromClient \in Seq(Upstream)
      BY TypeOKIs DEF Wires
    <3> QED
      BY <2>1, <2>4, <3>1, AppendIsConcat
  <2> HIDE DEF q
  <2>8. (\A i \in 1..1 : i = 1) /\ 1 .. 1 - 1 = {}
    OBVIOUS
  <2>9. Linked(q, Len(sent), Len(sent) + 1)
    BY <1>1, <2>3, <2>6, <2>8 DEF Linked
  <2>10. Genuine(q, w)
    BY <2>3, <2>5, <2>6, <2>8 DEF Genuine, m
  <2>11. Signed(q)
    BY <2>3, <2>6, <2>8 DEF Signed
  <2> QED
    BY <2>1, <2>2, <2>4, <2>6, <2>7, <2>9, <2>10, <2>11, SendKeeps DEF w
<1> QED
  BY <1>2, <1>3 DEF ClientStep

\* The camera takes the next message: what is behind it stays on its way.
LEMMA TakeKeeps ==
  ASSUME TypeOK, UpInv, Heads, toCamera # <<>>,
         NEW e \in 1..Len(toCamera), toCamera[e].part # "line",
         toCamera[e].id = Len(taken) + 1, toCamera' = After(toCamera, e),
         NEW m \in Messages, taken' = Append(taken, m),
         UNCHANGED <<client, mode, clientBuf, pending, fromClient, sent>>
  PROVE  UpInv' /\ Heads' /\ ~Challenged /\ ~Challenged'
<1>0. Wires /\ History
  BY TypeOKIs
<1>t. /\ toCamera \in Seq(Upstream) /\ Stream \in Seq(Upstream)
      /\ taken \in Seq(Messages) /\ Len(sent) \in Nat /\ Len(taken) \in Nat
  BY <1>0, WaysTyped, LenProperties DEF Wires, History
<1>1. ~Challenged
  BY DEF Challenged
<1>2. Len(taken') = Len(taken) + 1 /\ Len(taken') # 0
  BY <1>t, AppendProperties
<1>3. taken' # <<>>
  <2>1. taken' \in Seq(Messages)
    BY <1>t, AppendProperties
  <2> QED
    BY <1>2, <2>1, EmptySeq
<1>4. ~Challenged'
  BY <1>3 DEF Challenged
<1> DEFINE up == toCamera \o Stream
<1>5. Upward = up
  BY <1>1 DEF Upward
<1>6. /\ up \in Seq(Upstream) /\ e \in 1..Len(up) /\ e \in 0..Len(up)
      /\ up[e] = toCamera[e] /\ e \in 0..Len(toCamera)
  <2>1. /\ Len(toCamera) \in Nat /\ Len(Stream) \in Nat /\ up \in Seq(Upstream)
        /\ Len(up) = Len(toCamera) + Len(Stream)
        /\ \A i \in 1..Len(toCamera) : up[i] = toCamera[i]
    BY <1>t, Joined
  <2> HIDE DEF up
  <2> QED
    BY <2>1
<1>7. Upward' = After(up, e)
  <2>1. Upward' = After(toCamera, e) \o Stream
    BY <1>4 DEF Upward, Stream
  <2>2. After(toCamera, e) \o Stream = After(toCamera \o Stream, e)
    BY <1>t, <1>6, AfterConcat
  <2> QED
    BY <2>1, <2>2
<1> HIDE DEF up
<1>8. UpInv'
  <2>1. Linked(up, Len(taken), Len(sent)) /\ Genuine(up, sent)
    BY <1>5 DEF UpInv
  <2>2. Linked(After(up, e), up[e].id, Len(sent)) /\ Genuine(After(up, e), sent)
    BY <1>t, <1>6, <2>1, LinkedAfter
  <2>3. Linked(Upward', Len(taken'), Len(sent)) /\ Genuine(Upward', sent)
    BY <1>2, <1>6, <1>7, <2>2
  <2> QED
    BY <2>3 DEF UpInv, Linked, Genuine
<1>9. Heads'
  <2>1. (Signed(up) => Signed(After(up, e))) /\ (Bare(up) => Bare(After(up, e)))
    BY <1>6, HeadersKept
  <2>2. Signed(toCamera) => Signed(After(toCamera, e))
    BY <1>t, <1>6, HeadersKept
  <2>3. client' = "own" => Signed(Upward)'
    BY <1>5, <1>7, <2>1 DEF Heads, Signed
  <2>4. client' # "own" /\ mode' \in {"DETECTING", "AUTH_NEED", "PASSTHROUGH"} =>
          Bare(Upward)'
    BY <1>5, <1>7, <2>1 DEF Heads, Bare
  <2>5. mode' \in {"AUTH_RESPONDING", "INJECTING"} => Signed(toCamera)'
    BY <2>2 DEF Heads, Signed
  <2> QED
    BY <2>3, <2>4, <2>5 DEF Heads
<1> QED
  BY <1>1, <1>4, <1>8, <1>9

LEMMA TakesDataIs ==
  ASSUME TypeOK, UpInv, CameraTakesData
  PROVE  /\ toCamera # <<>> /\ 1 \in 1..Len(toCamera) /\ toCamera[1].part = "data"
         /\ toCamera[1].id = Len(taken) + 1 /\ Len(taken) + 1 \in 1..Len(sent)
         /\ toCamera' = After(toCamera, 1)
         /\ sent[Len(taken) + 1] = Session!Data(Len(taken) + 1)
         /\ taken' = Append(taken, Session!Data(Len(taken) + 1))
         /\ UNCHANGED <<client, camera, mode, clientBuf, remoteBuf, pending, fromClient,
                        fromCamera, received, sent, said>>
<1>0. Wires /\ History
  BY TypeOKIs
<1>t. /\ toCamera \in Seq(Upstream) /\ Stream \in Seq(Upstream)
      /\ Len(sent) \in Nat /\ Len(taken) \in Nat
  BY <1>0, WaysTyped, LenProperties DEF Wires, History
<1>1. /\ toCamera # <<>> /\ Head(toCamera).part = "data"
      /\ toCamera' = Tail(toCamera)
      /\ taken' = Append(taken, Session!Data(Head(toCamera).id))
      /\ UNCHANGED <<client, camera, mode, clientBuf, remoteBuf, pending, fromClient,
                     fromCamera, received, sent, said>>
  BY DEF CameraTakesData, proxyVars
<1>2. Upward = toCamera \o Stream
  BY <1>1 DEF Upward, Challenged
<1>3. /\ toCamera[1].id = Len(taken) + 1 /\ Len(taken) + 1 \in 1..Len(sent)
      /\ Len(toCamera) \in Nat /\ 1 \in 1..Len(toCamera)
      /\ (toCamera \o Stream)[1] = toCamera[1]
  <2>1. Linked(toCamera \o Stream, Len(taken), Len(sent))
    BY <1>2 DEF UpInv
  <2> QED
    BY <1>t, <1>1, <2>1, NextIs
<1>4. Head(toCamera) = toCamera[1]
  BY <1>t, <1>1
<1>5. toCamera' = After(toCamera, 1)
  BY <1>1, <1>t DEF After
<1>6. sent[Len(taken) + 1] = Session!Data(Len(taken) + 1)
  <2>1. 1 \in 1..Len(Upward) /\ Upward[1] = toCamera[1]
    <3>1. Len(toCamera \o Stream) = Len(toCamera) + Len(Stream) /\ Len(Stream) \in Nat
      BY <1>t, Joined
    <3> QED
      BY <1>2, <1>3, <3>1
  <2>2. sent[Upward[1].id] = IF Upward[1].part = "data"
                             THEN Session!Data(Upward[1].id)
                             ELSE Session!Request(Upward[1].id)
    BY <2>1 DEF UpInv, Genuine
  <2>3. Upward[1].id = Len(taken) + 1 /\ Upward[1].part = "data"
    BY <1>1, <1>3, <1>4, <2>1
  <2> QED
    BY <2>2, <2>3
<1> QED
  BY <1>1, <1>3, <1>4, <1>5, <1>6

LEMMA TakesDataKeeps ==
  ASSUME TypeOK, Dialogue, CameraTakesData
  PROVE  Dialogue'
<1>0. UpInv /\ DownInv /\ Heads /\ Dance /\ Granted
  BY DEF Dialogue
<1>l. Len(taken) + 1 \in Nat
  BY TypeOKIs, LenProperties DEF History
<1>1. /\ toCamera # <<>> /\ 1 \in 1..Len(toCamera) /\ toCamera[1].part = "data"
      /\ toCamera[1].id = Len(taken) + 1 /\ toCamera' = After(toCamera, 1)
      /\ taken' = Append(taken, Session!Data(Len(taken) + 1))
      /\ UNCHANGED <<client, camera, mode, clientBuf, remoteBuf, pending, fromClient,
                     fromCamera, received, sent, said>>
  BY <1>0, TakesDataIs
<1>2. Session!Data(Len(taken) + 1) \in Messages
  BY <1>l, UnitsAreTyped
<1>3. UpInv' /\ Heads' /\ ~Challenged /\ ~Challenged'
  BY <1>0, <1>1, <1>2, TakeKeeps
<1>4. DownInv'
  <2>1. Tells(Downward', said')
    BY <1>0, <1>1, <1>3 DEF DownInv, Downward
  <2> QED
    BY <2>1 DEF DownInv, Tells
<1>5. Dance'
  <2>1. mode # "DETECTING" /\ mode # "AUTH_NEED"
    BY <1>0, <1>1 DEF Dance, Asking, Asked, Settled
  <2> QED
    BY <1>0, <1>1, <2>1 DEF Dance
<1>6. Granted'
  BY <1>0, <1>1 DEF Granted, Accepts
<1> QED
  BY <1>3, <1>4, <1>5, <1>6 DEF Dialogue

LEMMA PushesKeeps ==
  ASSUME TypeOK, Dialogue, CameraPushes
  PROVE  Dialogue'
<1>0. UpInv /\ DownInv /\ Heads /\ Dance /\ Granted
  BY DEF Dialogue
<1>w. Wires /\ History
  BY TypeOKIs
<1>t. /\ remoteBuf \in Seq(Downstream) /\ fromCamera \in Seq(Downstream)
      /\ received \in Seq(Downstream) /\ said \in Seq(Sayings) /\ Len(said) \in Nat
      /\ Downward \in Seq(Downstream)
  BY <1>w, WaysTyped, LenProperties DEF Wires, History
<1> DEFINE id == Len(said) + 1
           u  == Unit("data", id, "none")
           f  == Session!Frame(id)
<1>1. /\ Accepts /\ said # <<>> /\ said' = Append(said, f)
      /\ fromCamera' = Append(fromCamera, u)
      /\ UNCHANGED <<client, camera, mode, clientBuf, remoteBuf, pending, fromClient,
                     toCamera, received, sent, taken>>
  <2>1. f.id = id
    BY DEF Session!Frame
  <2> QED
    BY <2>1 DEF CameraPushes, proxyVars
<1>2. id \in Nat
  BY <1>t
<1>3. /\ u \in Downstream /\ f \in Sayings /\ Message(u) = f /\ f.kind = "frame"
      /\ u.part = "data" /\ u.header = "none"
  BY <1>2, UnitsAreTyped DEF Unit, Message, Session!Frame
<1> HIDE DEF id, u, f
<1>4. ~Quiet
  BY <1>1 DEF Quiet
<1>5. mode # "DETECTING" /\ (mode = "AUTH_NEED" => Settled)
  BY <1>0, <1>4 DEF Dance, Asking, Asked
<1>6. ~Challenged /\ ~Challenged'
  BY <1>1, <1>5 DEF Challenged, Settled
<1>7. UpInv' /\ Heads'
  <2>1. Upward' = Upward
    BY <1>1, <1>6 DEF Upward, Stream
  <2> QED
    BY <1>0, <1>1, <2>1 DEF UpInv, Linked, Genuine, Heads, Signed, Bare
<1>8. DownInv'
  <2>1. Downward = received \o (remoteBuf \o fromCamera)
    BY <1>6 DEF Downward
  <2>2. Downward' = received \o (remoteBuf \o Append(fromCamera, u))
    BY <1>1, <1>6 DEF Downward
  <2>3. remoteBuf \o Append(fromCamera, u) = Append(remoteBuf \o fromCamera, u)
    BY <1>3, <1>t, BehindIs
  <2>4. remoteBuf \o fromCamera \in Seq(Downstream)
    BY <1>t, ConcatProperties
  <2> DEFINE way == remoteBuf \o fromCamera
  <2>5. received \o Append(way, u) = Append(received \o way, u)
    <3>1. way \in Seq(Downstream)
      BY <2>4
    <3> HIDE DEF way
    <3> QED
      BY <1>3, <1>t, <3>1, BehindIs
  <2>6. Downward' = Append(Downward, u)
    BY <2>1, <2>2, <2>3, <2>5
  <2>7. Tells(Downward, said)
    BY <1>0 DEF DownInv
  <2>8. Tells(Append(Downward, u), Append(said, Message(u)))
    BY <1>3, <1>t, <2>7, TellsMore
  <2>9. Tells(Downward', said')
    BY <1>1, <1>3, <2>6, <2>8
  <2> QED
    BY <2>9 DEF DownInv, Tells
<1>9. Dance'
  BY <1>0, <1>1, <1>5 DEF Dance, Settled
<1>10. Granted'
  <2>1. /\ Len(said') = Len(said) + 1 /\ said'[Len(said) + 1] = f
        /\ \A k \in 1..Len(said) : said'[k] = said[k]
    BY <1>1, <1>3, <1>t, AppendProperties
  <2>2. ASSUME NEW k \in 1..Len(said'), said'[k].kind = "answer"
        PROVE  said'[k].ok = Accepts
    <3>1. k # Len(said) + 1
      BY <1>3, <2>1, <2>2
    <3>2. k \in 1..Len(said)
      BY <1>t, <2>1, <3>1
    <3> QED
      BY <1>0, <2>1, <2>2, <3>2 DEF Granted
  <2> QED
    BY <1>1, <2>2 DEF Granted, Accepts
<1> QED
  BY <1>7, <1>8, <1>9, <1>10 DEF Dialogue

LEMMA AnswersKeeps ==
  ASSUME TypeOK, Flow, Dialogue, CameraAnswers
  PROVE  Dialogue'
<1>0. UpInv /\ DownInv /\ Heads /\ Dance /\ Granted
  BY DEF Dialogue
<1>w. Wires /\ History /\ Phases
  BY TypeOKIs
<1>t. /\ remoteBuf \in Seq(Downstream) /\ fromCamera \in Seq(Downstream)
      /\ received \in Seq(Downstream) /\ said \in Seq(Sayings) /\ Len(said) \in Nat
      /\ toCamera \in Seq(Upstream) /\ Downward \in Seq(Downstream)
      /\ Len(taken) + 1 \in Nat /\ Len(toCamera) \in Nat /\ Stream \in Seq(Upstream)
  BY <1>w, WaysTyped, LenProperties DEF Wires, History
<1> DEFINE id == Len(taken) + 1
           a  == Unit("line", id, "none")
           m  == Session!Request(id)
           r  == Session!Answer(id)
<1>1. /\ toCamera # <<>> /\ toCamera[1].part = "line"
      /\ 2 \in 1..Len(toCamera) /\ toCamera[2].part = "end" /\ toCamera[2].id = id
      /\ toCamera' = After(toCamera, 2)
      /\ UNCHANGED <<client, camera, mode, clientBuf, remoteBuf, pending, fromClient,
                     received, sent>>
      /\ \E v : AnswerEffect(id, v)
  BY <1>0, AnswerIs
<1>2. PICK v : AnswerEffect(id, v)
  BY <1>1
<1> DEFINE b == Unit("end", id, v)
<1>3. /\ fromCamera' = fromCamera \o <<a, b>>
      /\ v \in {"ok", "refusal", "digest"}
  BY <1>2 DEF AnswerEffect
<1>4. /\ a \in Downstream /\ a.part = "line" /\ b \in Downstream /\ b.part = "end"
      /\ b.header = v /\ b.id = id /\ m \in Messages /\ r \in Sayings
  BY <1>3, <1>t, UnitsAreTyped DEF Unit
<1>5. ~Challenged /\ mode # "DETECTING"
  BY <1>0, <1>1 DEF Challenged, Dance
<1>6. ASSUME mode = "AUTH_NEED", Asking PROVE toCamera' = <<>>
  <2>1. toCamera = pending /\ Ends(toCamera) = {Len(toCamera)}
    BY <1>6, <1>w DEF Asking, Phases
  <2>2. 2 \in Ends(toCamera)
    BY <1>1, <1>t, EndsAre
  <2>3. Len(toCamera) = 2
    BY <2>1, <2>2
  <2>4. /\ After(toCamera, 2) \in Seq(Upstream)
        /\ Len(After(toCamera, 2)) = Len(toCamera) - 2
    <3>1. 2 \in 0..Len(toCamera)
      BY <2>3
    <3> QED
      BY <1>t, <3>1, Cut
  <2>5. Len(After(toCamera, 2)) = 0
    BY <2>3, <2>4
  <2> QED
    BY <1>1, <2>4, <2>5, EmptySeq
<1> DEFINE Named == /\ v = "digest" /\ mode = "AUTH_NEED" /\ Asking
                    /\ camera \in {"digest", "refuses"}
                    /\ UNCHANGED <<taken, said>>
           Said  == /\ v \in {"ok", "refusal"} /\ (v = "ok") = Accepts
                    /\ mode = "AUTH_NEED" => Asking /\ camera \in {"basic", "open"}
                    /\ taken' = Append(taken, m)
                    /\ said' = Append(said, r)
<1>7. Named \/ Said
  BY <1>2 DEF AnswerEffect
<1> HIDE DEF id, a, b, m, r
<1>8. ASSUME Named PROVE Dialogue'
  <2>1. Quiet /\ remoteBuf = <<>> /\ fromCamera = <<>> /\ toCamera = pending
    BY <1>8 DEF Asking
  <2>2. toCamera' = <<>>
    BY <1>6, <1>8
  <2>3. Quiet' /\ Challenged'
    BY <1>1, <1>8, <2>1, <2>2 DEF Quiet, Challenged
  <2>4. Upward' = Upward
    BY <1>1, <1>5, <2>1, <2>3 DEF Upward, Stream
  <2>5. UpInv'
    BY <1>0, <1>1, <1>8, <2>4 DEF UpInv, Linked, Genuine
  <2>6. Heads'
    BY <1>0, <1>1, <1>8, <2>4 DEF Heads, Signed, Bare
  <2>e. <<>> \in Seq(Downstream) /\ <<>> \o <<>> = <<>>
    BY <1>t, <2>1, ConcatEmptySeq
  <2>7. Downward' = Downward
    <3>1. Downward = <<>> \o (<<>> \o <<>>)
      BY <1>5, <2>1 DEF Downward, Quiet
    <3>2. Downward' = <<>> \o <<>>
      BY <2>3 DEF Downward, Quiet
    <3> QED
      BY <2>e, <3>1, <3>2
  <2>8. DownInv'
    <3>1. Tells(Downward', said')
      BY <1>0, <1>8, <2>7 DEF DownInv
    <3> QED
      BY <3>1 DEF DownInv, Tells
  <2>9. IsChallenge(remoteBuf \o fromCamera)'
    <3> DEFINE p == <<a, b>>
    <3>1. p \in Seq(Downstream) /\ Len(p) = 2 /\ p[1] = a /\ p[2] = b
      BY <1>4
    <3> HIDE DEF p
    <3>2. remoteBuf' \o fromCamera' = <<>> \o (<<>> \o p)
      BY <1>1, <1>3, <2>1 DEF p
    <3>3. <<>> \o p = p
      BY <3>1, ConcatEmptySeq
    <3>4. remoteBuf' \o fromCamera' = p
      BY <3>2, <3>3
    <3> QED
      BY <1>4, <1>8, <3>1, <3>4 DEF IsChallenge
  <2>10. Asked'
    BY <1>1, <1>8, <2>2, <2>3, <2>9 DEF Asked
  <2>11. Dance'
    BY <1>1, <1>8, <2>10 DEF Dance
  <2>12. Granted'
    BY <1>0, <1>1, <1>8 DEF Granted, Accepts
  <2> QED
    BY <2>5, <2>6, <2>8, <2>11, <2>12 DEF Dialogue
<1>9. ASSUME Said PROVE Dialogue'
  <2>1. UpInv' /\ Heads' /\ ~Challenged'
    <3>1. toCamera[2].part # "line" /\ toCamera[2].id = Len(taken) + 1
      BY <1>1 DEF id
    <3> QED
      BY <1>0, <1>1, <1>4, <1>9, <3>1, TakeKeeps
  <2>2. taken' # <<>>
    <3>1. taken \in Seq(Messages)
      BY <1>w DEF History
    <3> QED
      BY <1>4, <1>9, <3>1, AppendProperties
  <2>3. Dance'
    <3>1. mode = "AUTH_NEED" => Settled'
      BY <1>1, <1>6, <1>9, <2>2 DEF Settled
    <3> QED
      BY <1>0, <1>1, <1>5, <3>1 DEF Dance
  <2>4. r.kind = "answer" /\ r.ok = Accepts /\ Message(b) = r
    <3>1. Message(b) = [kind |-> "answer", id |-> id, ok |-> v = "ok"]
      BY <1>4 DEF Message
    <3>2. r = [kind |-> "answer", id |-> id, ok |-> Accepts]
      BY DEF r, Session!Answer
    <3> QED
      BY <1>9, <3>1, <3>2
  <2>5. Granted'
    <3>1. /\ Len(said') = Len(said) + 1 /\ said'[Len(said) + 1] = r
          /\ \A k \in 1..Len(said) : said'[k] = said[k]
      BY <1>4, <1>9, <1>t, AppendProperties
    <3>2. ASSUME NEW k \in 1..Len(said'), said'[k].kind = "answer"
          PROVE  said'[k].ok = Accepts
      <4>1. CASE k = Len(said) + 1
        BY <2>4, <3>1, <4>1
      <4>2. CASE k # Len(said) + 1
        <5>1. k \in 1..Len(said)
          BY <1>t, <3>1, <4>2
        <5> QED
          BY <1>0, <3>1, <3>2, <5>1 DEF Granted
      <4> QED
        BY <4>1, <4>2
    <3> QED
      BY <1>1, <3>2 DEF Granted, Accepts
  <2>6. DownInv'
    <3> DEFINE way == remoteBuf \o fromCamera
    <3>1. /\ way \in Seq(Downstream)
          /\ remoteBuf \o (fromCamera \o <<a, b>>) = Append(Append(way, a), b)
      <4>1. /\ remoteBuf \in Seq(Downstream) /\ fromCamera \in Seq(Downstream)
            /\ a \in Downstream /\ b \in Downstream
        BY <1>4, <1>t
      <4>2. way \in Seq(Downstream)
        BY <4>1, ConcatProperties
      <4>3. remoteBuf \o (fromCamera \o <<a, b>>) = Append(Append(way, a), b)
        BY <4>1, BehindIs
      <4> QED
        BY <4>2, <4>3
    <3>2. Downward = received \o way
      BY <1>5 DEF Downward
    <3>3. Downward' = received \o Append(Append(way, a), b)
      <4>1. Downward' = received \o (remoteBuf \o fromCamera')
        BY <1>1, <2>1 DEF Downward
      <4> QED
        BY <1>3, <3>1, <4>1
    <3> HIDE DEF way
    <3>4. /\ Append(way, a) \in Seq(Downstream)
          /\ received \o Append(way, a) = Append(received \o way, a)
      <4>1. way \in Seq(Downstream) /\ a \in Downstream /\ received \in Seq(Downstream)
        BY <1>4, <1>t, <3>1
      <4>2. Append(way, a) \in Seq(Downstream)
        BY <4>1, AppendProperties
      <4>3. received \o Append(way, a) = Append(received \o way, a)
        BY <4>1, BehindIs
      <4> QED
        BY <4>2, <4>3
    <3> DEFINE one == Append(way, a)
    <3>5. received \o Append(one, b) = Append(received \o one, b)
      <4>1. one \in Seq(Downstream)
        BY <3>4
      <4> HIDE DEF one
      <4> QED
        BY <1>4, <1>t, <4>1, BehindIs
    <3>6. Downward' = Append(Append(Downward, a), b)
      BY <3>2, <3>3, <3>4, <3>5
    <3>7. Tells(Append(Downward, a), said)
      BY <1>0, <1>4, <1>t, TellsLine DEF DownInv
    <3> DEFINE d == Append(Downward, a)
    <3>8. d \in Seq(Downstream) /\ Tells(d, said)
      BY <1>4, <1>t, <3>7, AppendProperties
    <3> HIDE DEF d
    <3>9. Tells(Append(d, b), Append(said, Message(b)))
      <4>1. b.part # "line" /\ b.header # "digest" /\ Message(b) \in Sayings
        BY <1>4, <1>9, <2>4
      <4> QED
        BY <1>4, <1>t, <3>8, <4>1, TellsMore
    <3>10. Tells(Downward', said')
      BY <1>9, <2>4, <3>6, <3>9 DEF d
    <3> QED
      BY <3>10 DEF DownInv, Tells
  <2> QED
    BY <2>1, <2>3, <2>5, <2>6 DEF Dialogue
<1> QED
  BY <1>7, <1>8, <1>9

--------------------------------------------------------------------------------
(* The session is implemented *)

\* What the invariants stand for: what the client has heard is the beginning of
\* what was said.
LEMMA HeardIs ==
  ASSUME Wires, History, DownInv
  PROVE  /\ Complete(received, Len(received)) \in 0..Len(said)
         /\ Heard = SubSeq(said, 1, Complete(received, Len(received)))
         /\ Len(Heard) = Complete(received, Len(received))
<1> DEFINE rest == IF Challenged THEN <<>> ELSE remoteBuf \o fromCamera
           n    == Complete(received, Len(received))
<1>1. /\ received \in Seq(Downstream) /\ remoteBuf \o fromCamera \in Seq(Downstream)
      /\ <<>> \in Seq(Downstream) /\ said \in Seq(Sayings) /\ Len(said) \in Nat
  BY ConcatProperties, EmptySeq, LenProperties DEF Wires, History
<1>2. rest \in Seq(Downstream) /\ Tells(received \o rest, said)
  BY <1>1 DEF DownInv, Downward
<1> HIDE DEF rest
<1>3. n \in 0..Len(said) /\ Told(received) = SubSeq(said, 1, n)
  BY <1>1, <1>2, ToldIs
<1>4. Heard = SubSeq(said, 1, n)
  BY <1>3, HeardIsTold
<1> HIDE DEF n
<1>5. Len(SubSeq(said, 1, n)) = n
  <2>1. \A i \in 1..n : said[i] \in Sayings
    BY <1>1, <1>3, ElementOfSeq
  <2>2. n \in Nat /\ Len(SubSeq(said, 1, n)) = IF 1 <= n THEN n - 1 + 1 ELSE 0
    BY <1>1, <1>3, <2>1, SubSeqProperties
  <2> QED
    BY <2>2
<1> QED
  BY <1>3, <1>4, <1>5 DEF n

\* The same in the next state.
LEMMA HeardIsNext ==
  ASSUME Wires', History', DownInv'
  PROVE  /\ Complete(received', Len(received')) \in 0..Len(said')
         /\ Heard' = SubSeq(said', 1, Complete(received', Len(received')))
<1> DEFINE rest == IF Challenged' THEN <<>> ELSE remoteBuf' \o fromCamera'
           n    == Complete(received', Len(received'))
<1>1. /\ received' \in Seq(Downstream) /\ remoteBuf' \o fromCamera' \in Seq(Downstream)
      /\ <<>> \in Seq(Downstream) /\ said' \in Seq(Sayings)
  BY ConcatProperties, EmptySeq DEF Wires, History
<1>2. Tells(received' \o rest, said')
  BY DEF DownInv, Downward, Tells
<1>3. rest \in Seq(Downstream)
  BY <1>1
<1> HIDE DEF rest
<1>4. n \in 0..Len(said') /\ Told(received') = SubSeq(said', 1, n)
  BY <1>1, <1>2, <1>3, ToldIs
<1> QED
  BY <1>4, HeardIsTold

\* What is written to the client makes it hear more, or nothing yet.
LEMMA HearsStep ==
  ASSUME TypeOK, TypeOK', Dialogue, Dialogue', ProxyReadsCamera
  PROVE  Session!ClientHears \/ UNCHANGED Session!vars
<1>0. Wires /\ History /\ Wires' /\ History' /\ DownInv /\ DownInv'
  BY TypeOKIs DEF Dialogue
<1>t. received \in Seq(Downstream) /\ Len(said) \in Nat /\ remoteBuf \in Seq(Downstream)
  BY <1>0, LenProperties DEF Wires, History
<1>1. PICK n \in RemoteChunks : CameraEffect(n)
  BY CameraEffects
<1> DEFINE chunk == Upto(fromCamera, n)
<1>2. /\ chunk \in Seq(Downstream) /\ remoteBuf \o chunk \in Seq(Downstream)
  <2>1. n \in 0..Len(fromCamera) /\ fromCamera \in Seq(Downstream)
    BY <1>0 DEF RemoteChunks, Wires
  <2> QED
    BY <1>t, <2>1, Read
<1>3. UNCHANGED <<client, camera, sent, taken, said>>
  BY <1>1 DEF CameraEffect
<1>4. \/ received' = received
      \/ received' = received \o chunk
      \/ received' = received \o (remoteBuf \o chunk)
  BY <1>1 DEF CameraEffect
<1>5. \E x \in Seq(Downstream) : received' = received \o x
  <2>1. received \o <<>> = received /\ <<>> \in Seq(Downstream)
    BY <1>t, ConcatEmptySeq, EmptySeq
  <2> HIDE DEF chunk
  <2> QED
    BY <1>2, <1>4, <2>1
<1> DEFINE a == Complete(received, Len(received))
           b == Complete(received', Len(received'))
<1>6. a \in Nat /\ b \in Nat /\ a <= b
  <2>1. PICK x \in Seq(Downstream) : received' = received \o x
    BY <1>5
  <2>2. /\ Len(received) \in Nat /\ Len(x) \in Nat
        /\ Len(received') = Len(received) + Len(x)
        /\ \A i \in 1..Len(received) : received'[i] = received[i]
    BY <1>t, <2>1, Joined
  <2>3. Complete(received', Len(received)) = a
    BY <2>2, CompletePrefix
  <2>4. Len(received') \in Nat /\ Len(received) \in 0..Len(received')
    BY <2>2
  <2>5. Complete(received', Len(received)) <= b /\ b \in Nat /\ a \in Nat
    BY <2>2, <2>4, CompleteIs
  <2> QED
    BY <2>3, <2>5
<1>7. a \in 0..Len(said) /\ Heard = SubSeq(said, 1, a) /\ Len(Heard) = a
  BY <1>0, HeardIs
<1>8. b \in 0..Len(said) /\ Heard' = SubSeq(said, 1, b)
  BY <1>0, <1>3, HeardIsNext
<1>9. Accepts' = Accepts
  BY <1>3 DEF Accepts
<1> HIDE DEF a, b
<1>10. CASE a = b
  <2>1. Heard' = Heard
    BY <1>7, <1>8, <1>10
  <2> QED
    BY <1>3, <1>9, <2>1 DEF Session!vars
<1>11. CASE a # b
  <2>1. b \in Len(Heard) + 1 .. Len(said)
    BY <1>6, <1>7, <1>8, <1>11, <1>t
  <2> QED
    BY <1>3, <1>8, <1>9, <2>1 DEF Session!ClientHears
<1> QED
  BY <1>10, <1>11

LEMMA HeardStays ==
  ASSUME UNCHANGED <<client, camera, received>>
  PROVE  UNCHANGED <<Accepts, Heard>>
BY DEF Accepts, Heard

\* Every step of the proxy and the two ends is one of the session, or none.
LEMMA SessionStep ==
  ASSUME TypeOK, TypeOK', Flow, Dialogue, Dialogue', [Next]_vars
  PROVE  [Session!Next]_(Session!vars)
<1>0. UpInv /\ DownInv /\ Heads /\ Dance /\ Granted
  BY DEF Dialogue
<1>t. Len(taken) \in Nat /\ Len(sent) \in Nat
  BY TypeOKIs, LenProperties DEF History
<1>1. CASE ClientStep
  <2>1. /\ UNCHANGED <<client, camera, received, taken, said>>
        /\ \/ sent' = Append(sent, Session!Request(Len(sent) + 1))
           \/ sent' = Append(sent, Session!Data(Len(sent) + 1))
    BY <1>1 DEF ClientStep, ClientSendsRequest, ClientSendsData
  <2>2. UNCHANGED <<Accepts, Heard>>
    BY <2>1, HeardStays
  <2>3. Session!ClientSends
    BY <2>1, <2>2 DEF Session!ClientSends
  <2> QED
    BY <2>3 DEF Session!Next
<1>2. CASE ProxyReadsClient
  <2>1. UNCHANGED <<client, camera, received, sent, taken, said>>
    <3>1. PICK n \in Chunks(fromClient) : ClientEffect(n)
      BY <1>2, ClientEffects
    <3> QED
      BY <3>1 DEF ClientEffect, ClientData, sessionVars
  <2>2. UNCHANGED <<Accepts, Heard>>
    BY <2>1, HeardStays
  <2> QED
    BY <2>1, <2>2 DEF Session!vars
<1>3. CASE ProxyReadsCamera
  BY <1>3, HearsStep DEF Session!Next
<1> DEFINE id == Len(taken) + 1
<1>4. ASSUME id \in 1..Len(sent), UNCHANGED <<client, camera, received, sent>>,
             NEW m, sent[id] = m, taken' = Append(taken, m),
             said' = IF m.kind = "request" THEN Append(said, Session!Answer(m.id))
                     ELSE said
      PROVE  [Session!Next]_(Session!vars)
  <2>1. UNCHANGED <<Accepts, Heard>>
    BY <1>4, HeardStays
  <2>2. Len(taken) < Len(sent)
    BY <1>4, <1>t
  <2>3. Session!CameraTakes
    BY <1>4, <2>1, <2>2 DEF Session!CameraTakes
  <2> QED
    BY <2>3 DEF Session!Next
<1>5. CASE CameraAnswers
  <2>1. /\ id \in 1..Len(sent) /\ sent[id] = Session!Request(id)
        /\ UNCHANGED <<client, camera, received, sent>>
        /\ \E v : AnswerEffect(id, v)
    BY <1>0, <1>5, AnswerIs
  <2>2. \/ UNCHANGED <<taken, said>>
        \/ /\ taken' = Append(taken, Session!Request(id))
           /\ said' = Append(said, Session!Answer(id))
    BY <2>1 DEF AnswerEffect
  <2>3. Session!Request(id).kind = "request" /\ Session!Request(id).id = id
    BY DEF Session!Request
  <2>4. CASE UNCHANGED <<taken, said>>
    <3>1. UNCHANGED <<Accepts, Heard>>
      BY <2>1, HeardStays
    <3> QED
      BY <2>1, <2>4, <3>1 DEF Session!vars
  <2>5. CASE /\ taken' = Append(taken, Session!Request(id))
             /\ said' = Append(said, Session!Answer(id))
    BY <1>4, <2>1, <2>3, <2>5
  <2> QED
    BY <2>2, <2>4, <2>5
<1>6. CASE CameraTakesData
  <2>1. /\ id \in 1..Len(sent) /\ sent[id] = Session!Data(id)
        /\ taken' = Append(taken, Session!Data(id))
        /\ UNCHANGED <<client, camera, received, sent, said>>
    BY <1>0, <1>6, TakesDataIs
  <2>2. Session!Data(id).kind # "request"
    BY DEF Session!Data
  <2> QED
    BY <1>4, <2>1, <2>2
<1>7. CASE CameraPushes
  <2>1. /\ said' = Append(said, Session!Frame(Len(said) + 1))
        /\ UNCHANGED <<client, camera, received, sent, taken>>
    BY <1>7 DEF CameraPushes
  <2>2. UNCHANGED <<Accepts, Heard>>
    BY <2>1, HeardStays
  <2>3. Session!CameraPushes
    BY <2>1, <2>2 DEF Session!CameraPushes
  <2> QED
    BY <2>3 DEF Session!Next
<1>8. CASE UNCHANGED vars
  <2>1. UNCHANGED <<client, camera, received, sent, taken, said>>
    BY <1>8 DEF vars, sessionVars
  <2>2. UNCHANGED <<Accepts, Heard>>
    BY <2>1, HeardStays
  <2> QED
    BY <2>1, <2>2 DEF Session!vars
<1> QED
  BY <1>1, <1>2, <1>3, <1>5, <1>6, <1>7, <1>8 DEF Next, CameraStep

LEMMA DialogueStep ==
  ASSUME TypeOK, TypeOK', Flow, Flow', Dialogue, [Next]_vars, "plain" \notin DataFrom
  PROVE  Dialogue'
<1>1. CASE ClientStep
  BY <1>1, ClientStepKeeps
<1>2. CASE ProxyReadsClient
  BY <1>2, ReadsClientKeeps
<1>3. CASE ProxyReadsCamera
  BY <1>3, ReadsCameraKeeps
<1>4. CASE CameraAnswers
  BY <1>4, AnswersKeeps
<1>5. CASE CameraTakesData
  BY <1>5, TakesDataKeeps
<1>6. CASE CameraPushes
  BY <1>6, PushesKeeps
<1>7. CASE UNCHANGED vars
  <2>1. UNCHANGED <<client, camera, mode, clientBuf, remoteBuf, pending, fromClient,
                    toCamera, fromCamera, received, sent, taken, said>>
    BY <1>7 DEF vars, proxyVars, sessionVars
  <2>2. UNCHANGED <<Upward, Downward>>
    BY <2>1 DEF Upward, Downward, Challenged, Stream
  <2>3. UpInv' /\ DownInv'
    <3>1. Linked(Upward', Len(taken'), Len(sent')) /\ Genuine(Upward', sent')
      BY <2>1, <2>2 DEF Dialogue, UpInv
    <3>2. Tells(Downward', said')
      BY <2>1, <2>2 DEF Dialogue, DownInv
    <3> QED
      BY <3>1, <3>2 DEF UpInv, Linked, Genuine, DownInv, Tells
  <2>4. Heads'
    BY <2>1, <2>2 DEF Dialogue, Heads, Signed, Bare
  <2>5. Dance'
    BY <2>1 DEF Dialogue, Dance, Asking, Asked, Settled, Quiet, IsChallenge
  <2>6. Granted'
    BY <2>1 DEF Dialogue, Granted, Accepts
  <2> QED
    BY <2>3, <2>4, <2>5, <2>6 DEF Dialogue
<1> QED
  BY <1>1, <1>2, <1>3, <1>4, <1>5, <1>6, <1>7 DEF Next, CameraStep

LEMMA DialogueInit == Init => Dialogue /\ Session!Init
<1> SUFFICES ASSUME Init PROVE Dialogue /\ Session!Init
  OBVIOUS
<1>1. /\ mode = "DETECTING" /\ clientBuf = <<>> /\ remoteBuf = <<>> /\ pending = <<>>
      /\ fromClient = <<>> /\ toCamera = <<>> /\ fromCamera = <<>> /\ received = <<>>
      /\ sent = <<>> /\ taken = <<>> /\ said = <<>>
  BY DEF Init
<1>2. <<>> \o <<>> = <<>> /\ Len(<<>>) = 0 /\ 1..0 = {} /\ 1 .. 0 - 1 = {}
  BY ConcatEmptySeq, EmptySeq
<1>3. Upward = <<>> /\ Downward = <<>>
  BY <1>1, <1>2 DEF Upward, Downward, Stream, Challenged
<1>4. UpInv
  BY <1>1, <1>2, <1>3 DEF UpInv, Linked, Genuine
<1>5. DownInv
  <2>1. Complete(<<>>, 0) = 0
    BY CompleteIs
  <2> QED
    BY <1>1, <1>2, <1>3, <2>1 DEF DownInv, Tells
<1>6. Heads
  BY <1>1, <1>2, <1>3 DEF Heads, Signed, Bare
<1>7. Dance
  BY <1>1 DEF Dance, Quiet
<1>8. Granted
  BY <1>1, <1>2 DEF Granted
<1>9. Heard = <<>>
  <2>1. Wires /\ History
    BY InitTyped, TypeOKIs
  <2>2. /\ Complete(received, Len(received)) \in 0..Len(said)
        /\ Heard = SubSeq(said, 1, Complete(received, Len(received)))
    BY <1>5, <2>1, HeardIs
  <2>3. Heard = SubSeq(<<>>, 1, 0)
    BY <1>1, <1>2, <2>2
  <2>4. SubSeq(<<>>, 1, 0) = <<>>
    BY SubSeqEmpty
  <2> QED
    BY <2>3, <2>4
<1>10. Session!Init
  BY <1>1, <1>9 DEF Session!Init, Accepts
<1> QED
  BY <1>4, <1>5, <1>6, <1>7, <1>8, <1>10 DEF Dialogue

\* The proxy does what the header of rtsp_auth.ts promises: however the bytes are
\* cut into chunks and however far the client runs ahead, each message reaches the
\* camera once and in order, and the client hears every answer and frame once and
\* in order, never the challenge; a client without credentials sends requests only.
THEOREM ProxyImplementsSession ==
  ASSUME "plain" \notin DataFrom
  PROVE  Spec => ImplementsSession
<1>1. Init => TypeOK /\ Flow /\ Dialogue /\ Session!Init
  BY InitTyped, FlowInit, DialogueInit
<1>2. TypeOK /\ Flow /\ [Next]_vars => Flow'
  BY FlowStep
<1>3. TypeOK /\ TypeOK' /\ Flow /\ Flow' /\ Dialogue /\ [Next]_vars => Dialogue'
  BY DialogueStep
<1>4. TypeOK /\ TypeOK' /\ Flow /\ Dialogue /\ Dialogue' /\ [Next]_vars =>
        [Session!Next]_(Session!vars)
  BY SessionStep
<1> QED
  BY <1>1, <1>2, <1>3, <1>4, TypeCorrect, PTL DEF Spec, ImplementsSession, Session!Spec
================================================================================
