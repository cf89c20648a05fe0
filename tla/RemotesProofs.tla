---------------------------- MODULE RemotesProofs ----------------------------
(* Proofs about the components of MCRemotes, for every value of the            *)
(* constants. In each of its behaviours one component runs while the others    *)
(* stand still, so a step of Next is a step of that component or leaves its    *)
(* variables alone.                                                            *)
EXTENDS MCRemotes, FiniteSetTheorems, SequenceTheorems, TLAPS

-----------------------------------------------------------------------------
(* PlayoutBuffer: what is buffered increases, and every frame handed out is    *)
(* below it or, quiet, the foremost frame that was repeated.                   *)

Units(f) == {f[i] : i \in DOMAIN f}
Silent(f, speech) == Units(f) \cap speech = {}
Front(q) == SubSeq(q, 1, Frame)

InTurn(f, g, speech) ==
    \/ f = g /\ Silent(f, speech)
    \/ \A u \in Units(f), v \in Units(g) : u < v
Passed(f, q, speech) ==
    \/ \A u \in Units(f) : \A i \in 1..Len(q) : u < q[i]
    \/ Frame <= Len(q) /\ f = Front(q) /\ Silent(f, speech)

\* Of a buffer q, frames o that were handed out, units t that were trimmed, w that were
\* written, and of those the speech and the ones that did not fit.
PlayInv(q, o, t, w, speech, full) ==
    /\ q \in Seq(Nat) /\ o \in Seq(Seq(Nat)) /\ w \in Nat
    /\ speech \subseteq 1..w /\ full \subseteq 1..w /\ t \subseteq 1..w /\ t \cap speech = {}
    /\ \A i \in 1..Len(q) : q[i] \in 1..w /\ q[i] \notin full
    /\ \A i, j \in 1..Len(q) : i < j => q[i] < q[j]
    /\ \A k \in 1..Len(o) : /\ \A u \in Units(o[k]) : u \in 1..w /\ u \notin full
                            /\ Passed(o[k], q, speech)
    /\ \A k, l \in 1..Len(o) : k < l => InTurn(o[k], o[l], speech)
    /\ \A u \in 1..w : \/ u \in full \/ u \in t
                       \/ \E i \in 1..Len(q) : q[i] = u
                       \/ \E k \in 1..Len(o) : u \in Units(o[k])

LEMMA FrameIs == Frame \in Nat /\ Frame >= 1
  BY RemotesAssumption

LEMMA SeqFacts ==
    ASSUME NEW S, NEW q \in Seq(S)
    PROVE  Len(q) \in Nat /\ DOMAIN q = 1..Len(q) /\ \A i \in 1..Len(q) : q[i] \in S
  BY LenProperties, ElementOfSeq

\* The first k of a buffer, and the rest.
LEMMA Splits ==
    ASSUME NEW q \in Seq(Nat), NEW k \in 0..Len(q)
    PROVE  /\ SubSeq(q, 1, k) \in Seq(Nat) /\ Len(SubSeq(q, 1, k)) = k
           /\ \A i \in 1..k : SubSeq(q, 1, k)[i] = q[i]
           /\ SubSeq(q, k + 1, Len(q)) \in Seq(Nat)
           /\ Len(SubSeq(q, k + 1, Len(q))) = Len(q) - k
           /\ \A i \in 1..(Len(q) - k) : SubSeq(q, k + 1, Len(q))[i] = q[k + i]
           /\ Units(SubSeq(q, 1, k)) = {q[i] : i \in 1..k}
<1>1. Len(q) \in Nat /\ k \in Nat /\ \A i \in 1..Len(q) : q[i] \in Nat
  BY SeqFacts
<1>2. /\ SubSeq(q, 1, k) \in Seq(Nat) /\ Len(SubSeq(q, 1, k)) = k
      /\ \A i \in 1..k : SubSeq(q, 1, k)[i] = q[i]
  <2>1. \A i \in 1..k : q[i] \in Nat
    BY <1>1
  <2>2. /\ SubSeq(q, 1, k) \in Seq(Nat)
        /\ Len(SubSeq(q, 1, k)) = IF 1 <= k THEN k - 1 + 1 ELSE 0
        /\ \A i \in 1..(k - 1 + 1) : SubSeq(q, 1, k)[i] = q[1 + i - 1]
    BY <1>1, <2>1, SubSeqProperties
  <2> QED
    BY <1>1, <2>2
<1>3. /\ SubSeq(q, k + 1, Len(q)) \in Seq(Nat)
      /\ Len(SubSeq(q, k + 1, Len(q))) = Len(q) - k
      /\ \A i \in 1..(Len(q) - k) : SubSeq(q, k + 1, Len(q))[i] = q[k + i]
  <2>1. \A i \in (k + 1)..Len(q) : q[i] \in Nat
    BY <1>1
  <2>2. /\ SubSeq(q, k + 1, Len(q)) \in Seq(Nat)
        /\ Len(SubSeq(q, k + 1, Len(q))) = IF k + 1 <= Len(q) THEN Len(q) - (k + 1) + 1 ELSE 0
        /\ \A i \in 1..(Len(q) - (k + 1) + 1) : SubSeq(q, k + 1, Len(q))[i] = q[k + 1 + i - 1]
    BY <1>1, <2>1, SubSeqProperties
  <2> QED
    BY <1>1, <2>2
<1>4. Units(SubSeq(q, 1, k)) = {q[i] : i \in 1..k}
  <2>1. DOMAIN SubSeq(q, 1, k) = 1..k
    BY <1>2, SeqFacts
  <2> QED
    BY <1>2, <2>1 DEF Units
<1> QED
  BY <1>2, <1>3, <1>4

LEMMA HandedOut ==
    ASSUME NEW o \in Seq(Seq(Nat)), NEW f \in Seq(Nat)
    PROVE  /\ Append(o, f) \in Seq(Seq(Nat)) /\ Len(Append(o, f)) = Len(o) + 1 /\ Len(o) \in Nat
           /\ Append(o, f)[Len(o) + 1] = f
           /\ \A k \in 1..Len(o) : Append(o, f)[k] = o[k]
  BY AppendProperties, SeqFacts

LEMMA Trimming ==
    ASSUME NEW q, NEW o, NEW t, NEW w, NEW speech, NEW full, PlayInv(q, o, t, w, speech, full),
           Frame <= Len(q), Silent(Front(q), speech)
    PROVE  PlayInv(SubSeq(q, Frame + 1, Len(q)), o, t \cup Units(Front(q)), w, speech, full)
<1> DEFINE p == SubSeq(q, Frame + 1, Len(q))
           n == Len(q) - Frame
<1>1. q \in Seq(Nat) /\ Len(q) \in Nat /\ w \in Nat /\ Frame \in 0..Len(q) /\ n \in Nat
  BY FrameIs, SeqFacts DEF PlayInv
<1>2. /\ p \in Seq(Nat) /\ Len(p) = n /\ \A i \in 1..n : p[i] = q[Frame + i]
      /\ Units(Front(q)) = {q[i] : i \in 1..Frame}
  BY <1>1, Splits DEF Front
<1>3. /\ \A i \in 1..n : Frame + i \in 1..Len(q)
      /\ \A i \in 1..Len(q) : i \in 1..Frame \/ i - Frame \in 1..n
      /\ \A i \in 1..Frame : i \in 1..Len(q)
  BY <1>1, FrameIs
<1> HIDE DEF p, n
<1>4. \A i \in 1..Len(p) : p[i] \in 1..w /\ p[i] \notin full
  BY <1>2, <1>3 DEF PlayInv
<1>5. \A i, j \in 1..Len(p) : i < j => p[i] < p[j]
  <2> SUFFICES ASSUME NEW i \in 1..n, NEW j \in 1..n, i < j PROVE p[i] < p[j]
    BY <1>2
  <2>1. Frame + i \in 1..Len(q) /\ Frame + j \in 1..Len(q)
    BY <1>3
  <2>3. i \in Nat /\ j \in Nat /\ Frame \in Nat
    BY <1>1, FrameIs
  <2>2. Frame + i < Frame + j
    BY <2>3
  <2> QED
    BY <1>2, <2>1, <2>2 DEF PlayInv
<1>6. ASSUME NEW k \in 1..Len(o) PROVE \A u \in Units(o[k]) : \A i \in 1..Len(p) : u < p[i]
  <2> SUFFICES ASSUME NEW u \in Units(o[k]), NEW i \in 1..n PROVE u < q[Frame + i]
    BY <1>2
  <2>1. Frame + i \in 1..Len(q)
    BY <1>3
  <2>2. CASE o[k] = Front(q)
    <3>1. PICK j \in 1..Frame : u = q[j]
      BY <1>2, <2>2
    <3>2. j \in 1..Len(q) /\ j < Frame + i
      BY <1>1, <1>3
    <3> QED
      BY <2>1, <3>1, <3>2 DEF PlayInv
  <2>3. CASE o[k] # Front(q)
    BY <2>1, <2>3 DEF PlayInv, Passed
  <2> QED
    BY <2>2, <2>3
<1>7. /\ t \cup Units(Front(q)) \subseteq 1..w
      /\ (t \cup Units(Front(q))) \cap speech = {}
  BY <1>2, <1>3 DEF PlayInv, Silent
<1>8. \A u \in 1..w : \/ u \in full \/ u \in t \cup Units(Front(q))
                      \/ \E i \in 1..Len(p) : p[i] = u
                      \/ \E k \in 1..Len(o) : u \in Units(o[k])
  <2> SUFFICES ASSUME NEW i \in 1..Len(q)
               PROVE  q[i] \in Units(Front(q)) \/ \E j \in 1..Len(p) : p[j] = q[i]
    BY DEF PlayInv
  <2>1. CASE i \in 1..Frame
    BY <1>2, <2>1
  <2>2. CASE i - Frame \in 1..n
    <3>1. Frame + (i - Frame) = i
      BY <1>1
    <3>2. p[i - Frame] = q[i]
      BY <1>2, <2>2, <3>1
    <3> QED
      BY <1>2, <2>2, <3>2
  <2> QED
    BY <1>3, <2>1, <2>2
<1>9. PlayInv(p, o, t \cup Units(Front(q)), w, speech, full)
  BY <1>2, <1>4, <1>5, <1>6, <1>7, <1>8 DEF PlayInv, Passed
<1> QED
  BY <1>9 DEF p

LEMMA Taking ==
    ASSUME NEW q, NEW o, NEW t, NEW w, NEW speech, NEW full, PlayInv(q, o, t, w, speech, full),
           q # <<>>, NEW k, k = (IF Len(q) < Frame THEN Len(q) ELSE Frame)
    PROVE  PlayInv(SubSeq(q, k + 1, Len(q)), Append(o, SubSeq(q, 1, k)), t, w, speech, full)
<1> DEFINE p == SubSeq(q, k + 1, Len(q))
           f == SubSeq(q, 1, k)
           n == Len(q) - k
           m == Append(o, f)
<1>1. /\ q \in Seq(Nat) /\ Len(q) \in Nat /\ w \in Nat /\ k \in 0..Len(q) /\ n \in Nat
      /\ o \in Seq(Seq(Nat)) /\ Len(o) \in Nat /\ k >= 1
      /\ Frame <= Len(q) => k = Frame
  <2>1. /\ q \in Seq(Nat) /\ Len(q) \in Nat /\ w \in Nat /\ Len(q) # 0
        /\ o \in Seq(Seq(Nat)) /\ Len(o) \in Nat
    BY SeqFacts, EmptySeq DEF PlayInv
  <2> QED
    BY <2>1, FrameIs
<1>2. /\ p \in Seq(Nat) /\ Len(p) = n /\ \A i \in 1..n : p[i] = q[k + i]
      /\ f \in Seq(Nat) /\ Units(f) = {q[i] : i \in 1..k}
  BY <1>1, Splits
<1>3. /\ \A i \in 1..n : k + i \in 1..Len(q)
      /\ \A i \in 1..Len(q) : i \in 1..k \/ i - k \in 1..n
      /\ \A i \in 1..k : i \in 1..Len(q)
  <2>1. \A i \in 1..n : k + i \in 1..Len(q)
    <3> SUFFICES ASSUME NEW i \in 1..n PROVE k + i \in 1..Len(q)
      OBVIOUS
    <3>1. n = Len(q) - k /\ Len(q) \in Nat /\ k \in Nat /\ i \in 1..n
      BY <1>1
    <3> QED
      BY <3>1
  <2>2. \A i \in 1..Len(q) : i \in 1..k \/ i - k \in 1..n
    <3> SUFFICES ASSUME NEW i \in 1..Len(q), i \notin 1..k PROVE i - k \in 1..n
      OBVIOUS
    <3>1. n = Len(q) - k /\ Len(q) \in Nat /\ k \in Nat /\ i \in 1..Len(q) /\ i > k
      BY <1>1
    <3> QED
      BY <3>1
  <2>3. \A i \in 1..k : i \in 1..Len(q)
    BY <1>1
  <2> QED
    BY <2>1, <2>2, <2>3
<1>0. /\ m \in Seq(Seq(Nat)) /\ Len(m) = Len(o) + 1 /\ m[Len(o) + 1] = f
      /\ \A l \in 1..Len(o) : m[l] = o[l]
      /\ \A l \in 1..Len(m) : l = Len(o) + 1 \/ l \in 1..Len(o)
  <2>1. /\ m \in Seq(Seq(Nat)) /\ Len(m) = Len(o) + 1 /\ m[Len(o) + 1] = f
        /\ \A l \in 1..Len(o) : m[l] = o[l]
    BY <1>1, <1>2, HandedOut
  <2> QED
    BY <1>1, <2>1
<1>10. Frame <= Len(q) => f = Front(q)
  BY <1>1 DEF Front
<1> HIDE DEF p, n, f, m
<1>4. \A i \in 1..Len(p) : p[i] \in 1..w /\ p[i] \notin full
  BY <1>2, <1>3 DEF PlayInv
<1>5. \A i, j \in 1..Len(p) : i < j => p[i] < p[j]
  <2> SUFFICES ASSUME NEW i \in 1..n, NEW j \in 1..n, i < j PROVE p[i] < p[j]
    BY <1>2
  <2>1. k + i < k + j /\ k + i \in 1..Len(q) /\ k + j \in 1..Len(q)
    BY <1>1, <1>3
  <2> QED
    BY <1>2, <2>1 DEF PlayInv
<1>6. \A u \in Units(f) : (\A i \in 1..Len(p) : u < p[i]) /\ u \in 1..w /\ u \notin full
  <2> SUFFICES ASSUME NEW j \in 1..k
               PROVE  (\A i \in 1..n : q[j] < q[k + i]) /\ q[j] \in 1..w /\ q[j] \notin full
    BY <1>2
  <2>1. \A i \in 1..n : k + i \in 1..Len(q) /\ j < k + i
    BY <1>1, <1>3
  <2>2. j \in 1..Len(q)
    BY <1>3
  <2> QED
    BY <2>1, <2>2 DEF PlayInv
<1>7. ASSUME NEW l \in 1..Len(o)
      PROVE  /\ \A u \in Units(o[l]) : \A i \in 1..Len(p) : u < p[i]
             /\ InTurn(o[l], f, speech)
  <2>1. CASE Frame <= Len(q) /\ o[l] = Front(q) /\ Silent(o[l], speech)
    BY <1>10, <1>6, <2>1 DEF InTurn
  <2>2. CASE \A u \in Units(o[l]) : \A i \in 1..Len(q) : u < q[i]
    BY <1>2, <1>3, <2>2 DEF InTurn
  <2> QED
    BY <2>1, <2>2 DEF PlayInv, Passed
<1>8. \A u \in 1..w : \/ u \in full \/ u \in t
                      \/ \E i \in 1..Len(p) : p[i] = u
                      \/ \E l \in 1..Len(m) : u \in Units(m[l])
  <2>1. /\ Len(o) + 1 \in 1..Len(m) /\ Units(m[Len(o) + 1]) = Units(f)
        /\ \A l \in 1..Len(o) : l \in 1..Len(m) /\ m[l] = o[l]
    BY <1>0, <1>1
  <2> SUFFICES ASSUME NEW i \in 1..Len(q)
               PROVE  q[i] \in Units(f) \/ \E j \in 1..Len(p) : p[j] = q[i]
    BY <2>1 DEF PlayInv
  <2>2. CASE i \in 1..k
    BY <1>2, <2>2
  <2>3. CASE i - k \in 1..n
    <3>1. k + (i - k) = i
      BY <1>1
    <3>2. p[i - k] = q[i]
      BY <1>2, <2>3, <3>1
    <3> QED
      BY <1>2, <2>3, <3>2
  <2> QED
    BY <1>3, <2>2, <2>3
<1>9. \A l \in 1..Len(m) : /\ \A u \in Units(m[l]) : u \in 1..w /\ u \notin full
                           /\ Passed(m[l], p, speech)
  <2> SUFFICES ASSUME NEW l \in 1..Len(m)
               PROVE  /\ \A u \in Units(m[l]) : u \in 1..w /\ u \notin full
                      /\ \A u \in Units(m[l]) : \A i \in 1..Len(p) : u < p[i]
    BY DEF Passed
  <2>1. CASE l = Len(o) + 1
    BY <1>0, <1>6, <2>1
  <2>2. CASE l \in 1..Len(o)
    BY <1>0, <1>7, <2>2 DEF PlayInv
  <2> QED
    BY <1>0, <2>1, <2>2
<1>11. \A i, j \in 1..Len(m) : i < j => InTurn(m[i], m[j], speech)
  <2> SUFFICES ASSUME NEW i \in 1..Len(m), NEW j \in 1..Len(m), i < j
               PROVE  InTurn(m[i], m[j], speech)
    OBVIOUS
  <2>1. i \in 1..Len(o)
    BY <1>0, <1>1
  <2>2. CASE j = Len(o) + 1
    BY <1>0, <1>7, <2>1, <2>2
  <2>3. CASE j \in 1..Len(o)
    BY <1>0, <2>1, <2>3 DEF PlayInv
  <2> QED
    BY <1>0, <2>2, <2>3
<1>12. PlayInv(p, m, t, w, speech, full)
  BY <1>0, <1>2, <1>4, <1>5, <1>8, <1>9, <1>11 DEF PlayInv
<1> QED
  BY <1>12 DEF p, m, f

\* A frame with nothing in it, and the foremost one repeated.
LEMMA Inventing ==
    ASSUME NEW q, NEW o, NEW t, NEW w, NEW speech, NEW full, PlayInv(q, o, t, w, speech, full),
           NEW f \in Seq(Nat),
           Units(f) = {} \/ (Frame <= Len(q) /\ f = Front(q) /\ Silent(f, speech))
    PROVE  PlayInv(q, Append(o, f), t, w, speech, full)
<1> DEFINE m == Append(o, f)
<1>1. /\ m \in Seq(Seq(Nat)) /\ Len(m) = Len(o) + 1 /\ m[Len(o) + 1] = f
      /\ \A l \in 1..Len(o) : m[l] = o[l] /\ l \in 1..Len(m)
      /\ \A l \in 1..Len(m) : l = Len(o) + 1 \/ l \in 1..Len(o)
      /\ Len(o) \in Nat
  <2>1. o \in Seq(Seq(Nat))
    BY DEF PlayInv
  <2>2. /\ m \in Seq(Seq(Nat)) /\ Len(m) = Len(o) + 1 /\ m[Len(o) + 1] = f /\ Len(o) \in Nat
        /\ \A l \in 1..Len(o) : m[l] = o[l]
    BY <2>1, HandedOut
  <2> QED
    BY <2>2
<1> HIDE DEF m
<1>2. Passed(f, q, speech) /\ \A u \in Units(f) : u \in 1..w /\ u \notin full
  <2>1. CASE Units(f) = {}
    BY <2>1 DEF Passed
  <2>2. CASE Frame <= Len(q) /\ f = Front(q) /\ Silent(f, speech)
    <3>1. q \in Seq(Nat) /\ Len(q) \in Nat /\ Frame \in 0..Len(q)
      BY <2>2, FrameIs, SeqFacts DEF PlayInv
    <3>2. Units(f) = {q[i] : i \in 1..Frame} /\ \A i \in 1..Frame : i \in 1..Len(q)
      BY <3>1, <2>2, Splits DEF Front
    <3> QED
      BY <2>2, <3>2 DEF PlayInv, Passed
  <2> QED
    BY <2>1, <2>2
<1>3. ASSUME NEW l \in 1..Len(o) PROVE InTurn(o[l], f, speech)
  <2>1. CASE Units(f) = {}
    BY <2>1 DEF InTurn
  <2>2. CASE Frame <= Len(q) /\ f = Front(q) /\ Silent(f, speech)
    <3>1. q \in Seq(Nat) /\ Len(q) \in Nat /\ Frame \in 0..Len(q)
      BY <2>2, FrameIs, SeqFacts DEF PlayInv
    <3>2. Units(f) = {q[i] : i \in 1..Frame} /\ \A i \in 1..Frame : i \in 1..Len(q)
      BY <3>1, <2>2, Splits DEF Front
    <3> QED
      BY <2>2, <3>2 DEF PlayInv, Passed, InTurn
  <2> QED
    BY <2>1, <2>2
<1>4. \A l \in 1..Len(m) : /\ \A u \in Units(m[l]) : u \in 1..w /\ u \notin full
                           /\ Passed(m[l], q, speech)
  <2> SUFFICES ASSUME NEW l \in 1..Len(m)
               PROVE  /\ \A u \in Units(m[l]) : u \in 1..w /\ u \notin full
                      /\ Passed(m[l], q, speech)
    OBVIOUS
  <2>1. CASE l = Len(o) + 1
    BY <1>1, <1>2, <2>1
  <2>2. CASE l \in 1..Len(o)
    BY <1>1, <2>2 DEF PlayInv
  <2> QED
    BY <1>1, <2>1, <2>2
<1>5. \A i, j \in 1..Len(m) : i < j => InTurn(m[i], m[j], speech)
  <2> SUFFICES ASSUME NEW i \in 1..Len(m), NEW j \in 1..Len(m), i < j
               PROVE  InTurn(m[i], m[j], speech)
    OBVIOUS
  <2>1. i \in 1..Len(o)
    BY <1>1
  <2>2. CASE j = Len(o) + 1
    BY <1>1, <1>3, <2>1, <2>2
  <2>3. CASE j \in 1..Len(o)
    BY <1>1, <2>1, <2>3 DEF PlayInv
  <2> QED
    BY <1>1, <2>2, <2>3
<1>6. \A u \in 1..w : \/ u \in full \/ u \in t
                      \/ \E i \in 1..Len(q) : q[i] = u
                      \/ \E l \in 1..Len(m) : u \in Units(m[l])
  BY <1>1 DEF PlayInv
<1>7. PlayInv(q, m, t, w, speech, full)
  BY <1>1, <1>4, <1>5, <1>6 DEF PlayInv
<1> QED
  BY <1>7 DEF m

LEMMA Adding ==
    ASSUME NEW q \in Seq(Nat), NEW w \in Nat, NEW n \in Nat \ {0}
    PROVE  LET p == q \o [i \in 1..n |-> w + i]
           IN  /\ p \in Seq(Nat) /\ Len(p) = Len(q) + n
               /\ \A i \in 1..Len(q) : p[i] = q[i]
               /\ \A i \in 1..n : p[Len(q) + i] = w + i
<1> DEFINE r == [i \in 1..n |-> w + i]
<1>1. r \in Seq(Nat) /\ Len(r) = n /\ \A i \in 1..n : r[i] = w + i
  OBVIOUS
<1>2. Len(q) \in Nat
  BY SeqFacts
<1> HIDE DEF r
<1>3. /\ q \o r \in Seq(Nat) /\ Len(q \o r) = Len(q) + Len(r)
      /\ \A i \in 1..(Len(q) + Len(r)) : (q \o r)[i] = IF i <= Len(q) THEN q[i] ELSE r[i - Len(q)]
  BY <1>1, ConcatProperties
<1>4. \A i \in 1..Len(q) : (q \o r)[i] = q[i]
  BY <1>1, <1>2, <1>3
<1>5. ASSUME NEW i \in 1..n PROVE (q \o r)[Len(q) + i] = w + i
  <2>1. Len(q) + i \in 1..(Len(q) + Len(r)) /\ ~(Len(q) + i <= Len(q)) /\ Len(q) + i - Len(q) = i
    BY <1>1, <1>2
  <2> QED
    BY <1>1, <1>3, <2>1
<1> QED
  BY <1>1, <1>3, <1>4, <1>5 DEF r

\* What is written follows what was written, and is all of it kept or none.
LEMMA Writing ==
    ASSUME NEW q, NEW o, NEW t, NEW w, NEW speech, NEW full, PlayInv(q, o, t, w, speech, full),
           NEW n \in Nat \ {0}, NEW more \in {speech, speech \cup (w + 1)..(w + n)}
    PROVE  /\ PlayInv(q, o, t, w + n, more, full \cup (w + 1)..(w + n))
           /\ PlayInv(q \o [i \in 1..n |-> w + i], o, t, w + n, more, full)
<1> DEFINE new == (w + 1)..(w + n)
           p == q \o [i \in 1..n |-> w + i]
<1>1. /\ q \in Seq(Nat) /\ o \in Seq(Seq(Nat)) /\ w \in Nat /\ Len(q) \in Nat /\ n \in Nat /\ n >= 1
      /\ w + n \in Nat
  BY SeqFacts DEF PlayInv
<1>2. /\ p \in Seq(Nat) /\ Len(p) = Len(q) + n
      /\ \A i \in 1..Len(q) : p[i] = q[i] /\ i \in 1..Len(p)
      /\ \A i \in 1..n : p[Len(q) + i] = w + i /\ Len(q) + i \in 1..Len(p)
      /\ \A i \in 1..Len(p) : \/ i \in 1..Len(q)
                              \/ i - Len(q) \in 1..n /\ i = Len(q) + (i - Len(q))
  <2>1. /\ p \in Seq(Nat) /\ Len(p) = Len(q) + n
        /\ \A i \in 1..Len(q) : p[i] = q[i]
        /\ \A i \in 1..n : p[Len(q) + i] = w + i
    BY <1>1, Adding
  <2> HIDE DEF p
  <2>2. \A i \in 1..Len(q) : i \in 1..Len(p)
    BY <1>1, <2>1
  <2>3. \A i \in 1..n : Len(q) + i \in 1..Len(p)
    BY <1>1, <2>1
  <2>4. \A i \in 1..Len(p) : \/ i \in 1..Len(q)
                             \/ i - Len(q) \in 1..n /\ i = Len(q) + (i - Len(q))
    <3> SUFFICES ASSUME NEW i \in 1..(Len(q) + n), i \notin 1..Len(q)
                 PROVE  i - Len(q) \in 1..n /\ i = Len(q) + (i - Len(q))
      BY <2>1
    <3> QED
      BY <1>1
  <2> QED
    BY <2>1, <2>2, <2>3, <2>4
<1>3. /\ \A u \in 1..w : u \in 1..(w + n) /\ u \notin new
      /\ new \subseteq 1..(w + n)
      /\ \A u \in 1..(w + n) : u \in 1..w \/ u \in new
      /\ \A i \in 1..n : w + i \in new
      /\ \A u \in new : \E i \in 1..n : u = w + i
  <2>1. ASSUME NEW u \in new PROVE \E i \in 1..n : u = w + i
    <3>1. u - w \in 1..n /\ u = w + (u - w)
      BY <1>1
    <3> QED
      BY <3>1
  <2>2. /\ \A u \in 1..w : u \in 1..(w + n) /\ u \notin new
        /\ new \subseteq 1..(w + n)
    BY <1>1
  <2>3. /\ \A u \in 1..(w + n) : u \in 1..w \/ u \in new
        /\ \A i \in 1..n : w + i \in new
    BY <1>1
  <2> QED
    BY <2>1, <2>2, <2>3
<1>4. ASSUME NEW u \in 1..w, NEW v \in new PROVE u < v
  BY <1>1
<1> HIDE DEF new, p
<1>5. /\ more \subseteq speech \cup new /\ speech \subseteq more
      /\ speech \subseteq 1..w /\ full \subseteq 1..w /\ t \subseteq 1..w /\ t \cap speech = {}
  BY DEF PlayInv, new
<1>6. more \subseteq 1..(w + n) /\ t \subseteq 1..(w + n) /\ t \cap more = {} /\ full \subseteq 1..(w + n)
  BY <1>3, <1>5
<1>7. ASSUME NEW f, Silent(f, speech), \A u \in Units(f) : u \in 1..w
      PROVE  Silent(f, more)
  BY <1>3, <1>5, <1>7 DEF Silent
<1>8. \A k \in 1..Len(o) : \A u \in Units(o[k]) : u \in 1..w /\ u \notin full
  BY DEF PlayInv
<1>9. \A k, l \in 1..Len(o) : k < l => InTurn(o[k], o[l], more)
  <2> SUFFICES ASSUME NEW k \in 1..Len(o), NEW l \in 1..Len(o), k < l
               PROVE  InTurn(o[k], o[l], more)
    OBVIOUS
  <2>1. InTurn(o[k], o[l], speech)
    BY DEF PlayInv
  <2> QED
    BY <1>7, <1>8, <2>1 DEF InTurn
<1>10. \A k \in 1..Len(o) : Passed(o[k], q, more)
  <2> SUFFICES ASSUME NEW k \in 1..Len(o) PROVE Passed(o[k], q, more)
    OBVIOUS
  <2>1. Passed(o[k], q, speech)
    BY DEF PlayInv
  <2> QED
    BY <1>7, <1>8, <2>1 DEF Passed
<1>11. ASSUME Frame <= Len(q) PROVE Frame <= Len(p) /\ Front(p) = Front(q)
  <2>1. Frame \in 0..Len(q) /\ Frame \in 0..Len(p) /\ Frame \in Nat
    BY <1>1, <1>2, <1>11, FrameIs
  <2>2. /\ Front(q) \in Seq(Nat) /\ Len(Front(q)) = Frame
        /\ \A i \in 1..Frame : Front(q)[i] = q[i]
    BY <1>1, <2>1, Splits DEF Front
  <2>3. /\ Front(p) \in Seq(Nat) /\ Len(Front(p)) = Frame
        /\ \A i \in 1..Frame : Front(p)[i] = p[i]
    BY <1>2, <2>1, Splits DEF Front
  <2>4. \A i \in 1..Frame : i \in 1..Len(q)
    BY <1>1, <2>1
  <2>5. \A i \in 1..Frame : Front(p)[i] = Front(q)[i]
    BY <1>2, <2>2, <2>3, <2>4
  <2>6. Front(p) = Front(q)
    BY <2>2, <2>3, <2>5, SeqEqual
  <2> QED
    BY <1>2, <1>11, <2>1, <2>6
<1>12. \A k \in 1..Len(o) : Passed(o[k], p, more)
  <2> SUFFICES ASSUME NEW k \in 1..Len(o) PROVE Passed(o[k], p, more)
    OBVIOUS
  <2>1. Passed(o[k], q, more)
    BY <1>10
  <2>2. CASE Frame <= Len(q) /\ o[k] = Front(q) /\ Silent(o[k], more)
    BY <1>11, <2>2 DEF Passed
  <2>3. CASE \A u \in Units(o[k]) : \A i \in 1..Len(q) : u < q[i]
    <3> SUFFICES ASSUME NEW u \in Units(o[k]), NEW i \in 1..Len(p) PROVE u < p[i]
      BY DEF Passed
    <3>1. CASE i \in 1..Len(q)
      BY <1>2, <2>3, <3>1
    <3>2. CASE i - Len(q) \in 1..n /\ i = Len(q) + (i - Len(q))
      <4>1. p[i] \in new
        BY <1>2, <1>3, <3>2
      <4> QED
        BY <1>4, <1>8, <4>1
    <3> QED
      BY <1>2, <3>1, <3>2
  <2> QED
    BY <2>1, <2>2, <2>3 DEF Passed
<1>13. \A i \in 1..Len(q) : q[i] \in 1..w /\ q[i] \notin full
  BY DEF PlayInv
<1>14. PlayInv(q, o, t, w + n, more, full \cup new)
  <2>1. full \cup new \subseteq 1..(w + n)
    BY <1>3, <1>6
  <2>2. \A i \in 1..Len(q) : q[i] \in 1..(w + n) /\ q[i] \notin full \cup new
    BY <1>3, <1>13
  <2>3. \A k \in 1..Len(o) : /\ \A u \in Units(o[k]) : u \in 1..(w + n) /\ u \notin full \cup new
                             /\ Passed(o[k], q, more)
    BY <1>3, <1>8, <1>10
  <2>4. \A u \in 1..(w + n) : \/ u \in full \cup new \/ u \in t
                              \/ \E i \in 1..Len(q) : q[i] = u
                              \/ \E k \in 1..Len(o) : u \in Units(o[k])
    BY <1>3 DEF PlayInv
  <2>5. \A i, j \in 1..Len(q) : i < j => q[i] < q[j]
    BY DEF PlayInv
  <2> QED
    BY <1>1, <1>6, <1>9, <2>1, <2>2, <2>3, <2>4, <2>5 DEF PlayInv
<1>15. PlayInv(p, o, t, w + n, more, full)
  <2>1. ASSUME NEW i \in 1..Len(p) PROVE p[i] \in 1..(w + n) /\ p[i] \notin full
    <3>1. CASE i \in 1..Len(q)
      BY <1>2, <1>3, <1>13, <3>1
    <3>2. CASE i - Len(q) \in 1..n /\ i = Len(q) + (i - Len(q))
      <4>1. p[i] \in new
        BY <1>2, <1>3, <3>2
      <4> QED
        BY <1>3, <1>5, <4>1
    <3> QED
      BY <1>2, <3>1, <3>2
  <2>2. \A k \in 1..Len(o) : /\ \A u \in Units(o[k]) : u \in 1..(w + n) /\ u \notin full
                             /\ Passed(o[k], p, more)
    BY <1>3, <1>8, <1>12
  <2>3. \A u \in 1..(w + n) : \/ u \in full \/ u \in t
                              \/ \E i \in 1..Len(p) : p[i] = u
                              \/ \E k \in 1..Len(o) : u \in Units(o[k])
    <3> SUFFICES ASSUME NEW u \in 1..(w + n)
                 PROVE  \/ u \in full \/ u \in t
                        \/ \E i \in 1..Len(p) : p[i] = u
                        \/ \E k \in 1..Len(o) : u \in Units(o[k])
      OBVIOUS
    <3>1. CASE u \in new
      <4>1. PICK i \in 1..n : u = w + i
        BY <1>3, <3>1
      <4>2. Len(q) + i \in 1..Len(p) /\ p[Len(q) + i] = u
        BY <1>2, <4>1
      <4> QED
        BY <4>2
    <3>2. CASE u \in 1..w
      BY <1>2, <3>2 DEF PlayInv
    <3> QED
      BY <1>3, <3>1, <3>2
  <2>4. \A i, j \in 1..Len(p) : i < j => p[i] < p[j]
    <3> SUFFICES ASSUME NEW i \in 1..Len(p), NEW j \in 1..Len(p), i < j PROVE p[i] < p[j]
      OBVIOUS
    <3>1. CASE i \in 1..Len(q) /\ j \in 1..Len(q)
      BY <1>2, <3>1 DEF PlayInv
    <3>2. CASE i \in 1..Len(q) /\ j - Len(q) \in 1..n /\ j = Len(q) + (j - Len(q))
      <4>2. p[j] = w + (j - Len(q))
        BY <1>2, <3>2
      <4>1. p[i] \in 1..w /\ p[j] \in new
        BY <1>2, <1>3, <1>13, <3>2, <4>2
      <4> QED
        BY <1>4, <4>1
    <3>3. CASE i - Len(q) \in 1..n /\ j - Len(q) \in 1..n
      <4>1. p[i] = w + (i - Len(q)) /\ p[j] = w + (j - Len(q))
        <5>1. i = Len(q) + (i - Len(q)) /\ j = Len(q) + (j - Len(q))
          BY <1>1
        <5> QED
          BY <1>2, <3>3, <5>1
      <4>2. w \in Nat /\ Len(q) \in Nat /\ i \in Int /\ j \in Int
        BY <1>1
      <4> QED
        BY <4>1, <4>2
    <3>4. ~(i - Len(q) \in 1..n /\ j \in 1..Len(q))
      BY <1>1, <1>2
    <3> QED
      BY <1>2, <3>1, <3>2, <3>3, <3>4
  <2> QED
    BY <1>1, <1>2, <1>6, <1>9, <2>1, <2>2, <2>3, <2>4 DEF PlayInv
<1> QED
  BY <1>14, <1>15 DEF p, new

Handed(o) == UNION {Units(o[i]) : i \in DOMAIN o}

LEMMA Sound ==
    ASSUME NEW q, NEW o, NEW t, NEW w, NEW speech, NEW full, PlayInv(q, o, t, w, speech, full)
    PROVE  /\ speech \ full = (Units(q) \cup Handed(o)) \cap speech
           /\ t \cap speech = {}
           /\ \A i, j \in DOMAIN o : i < j => InTurn(o[i], o[j], speech)
           /\ \A i \in DOMAIN q, u \in Handed(o) : q[i] \in speech => u < q[i]
<1>1. /\ q \in Seq(Nat) /\ Len(q) \in Nat /\ DOMAIN q = 1..Len(q)
      /\ o \in Seq(Seq(Nat)) /\ DOMAIN o = 1..Len(o)
  <2>1. q \in Seq(Nat) /\ o \in Seq(Seq(Nat))
    BY DEF PlayInv
  <2> QED
    BY <2>1, SeqFacts
<1>2. /\ \A u \in Units(q) : u \notin full
      /\ \A u \in Handed(o) : u \notin full
  BY <1>1 DEF PlayInv, Units, Handed
<1>3. \A u \in speech : u \in full \/ u \in Units(q) \/ u \in Handed(o)
  <2> SUFFICES ASSUME NEW u \in speech, u \notin full PROVE u \in Units(q) \/ u \in Handed(o)
    OBVIOUS
  <2>1. u \in 1..w /\ u \notin t
    BY DEF PlayInv
  <2>2. (\E i \in 1..Len(q) : q[i] = u) \/ (\E k \in 1..Len(o) : u \in Units(o[k]))
    BY <2>1 DEF PlayInv
  <2>3. CASE \E i \in 1..Len(q) : q[i] = u
    BY <1>1, <2>3 DEF Units
  <2>4. CASE \E k \in 1..Len(o) : u \in Units(o[k])
    BY <1>1, <2>4 DEF Handed
  <2> QED
    BY <2>2, <2>3, <2>4
<1>4. speech \ full = (Units(q) \cup Handed(o)) \cap speech
  BY <1>2, <1>3
<1>5. \A i, j \in DOMAIN o : i < j => InTurn(o[i], o[j], speech)
  BY <1>1 DEF PlayInv
<1>6. \A i \in DOMAIN q, u \in Handed(o) : q[i] \in speech => u < q[i]
  <2> SUFFICES ASSUME NEW i \in 1..Len(q), NEW k \in 1..Len(o), NEW u \in Units(o[k]),
                      q[i] \in speech
               PROVE  u < q[i]
    BY <1>1 DEF Handed
  <2>1. CASE \A v \in Units(o[k]) : \A j \in 1..Len(q) : v < q[j]
    BY <2>1
  <2>2. CASE Frame <= Len(q) /\ o[k] = Front(q) /\ Silent(o[k], speech)
    <3>1. Frame \in 0..Len(q)
      BY <1>1, <2>2, FrameIs
    <3>2. Units(o[k]) = {q[j] : j \in 1..Frame}
      BY <1>1, <2>2, <3>1, Splits DEF Front
    <3>3. PICK j \in 1..Frame : u = q[j]
      BY <3>2
    <3>4. i \notin 1..Frame
      BY <2>2, <3>2 DEF Silent
    <3>5. j < i /\ j \in 1..Len(q)
      BY <1>1, <3>1, <3>4
    <3> QED
      BY <3>3, <3>5 DEF PlayInv
  <2> QED
    BY <2>1, <2>2 DEF PlayInv, Passed
<1> QED
  BY <1>4, <1>5, <1>6 DEF PlayInv

-----------------------------------------------------------------------------
(* What the steps of a buffer do to it.                                        *)

Stored == PlayInv(buf, out, trimmed, written, loud, dropped)
Ready  == reader = "take" => Frame <= Len(buf)

Keeps == UNCHANGED <<buf, out, trimmed, written, loud, dropped>>
Adds(n) ==
    /\ written' = written + n /\ UNCHANGED <<out, trimmed>>
    /\ loud' \in {loud, loud \cup (written + 1)..(written + n)}
    /\ \/ buf' = buf /\ dropped' = dropped \cup (written + 1)..(written + n)
       \/ buf' = buf \o [i \in 1..n |-> written + i] /\ dropped' = dropped
Takes(k) ==
    /\ buf # <<>> /\ k = (IF Len(buf) < Frame THEN Len(buf) ELSE Frame)
    /\ out' = Append(out, SubSeq(buf, 1, k)) /\ buf' = SubSeq(buf, k + 1, Len(buf))
    /\ UNCHANGED <<trimmed, written, loud, dropped>>
Invents == out' = Append(out, <<>>) /\ UNCHANGED <<buf, trimmed, written, loud, dropped>>
Plays(left) ==
    /\ \/ left = buf /\ trimmed' = trimmed
       \/ /\ left = SubSeq(buf, Frame + 1, Len(buf)) /\ 2 * Frame <= Len(buf)
          /\ Silent(Front(buf), loud) /\ trimmed' = trimmed \cup Units(Front(buf))
    /\ out' = Append(out, Front(left))
    /\ \/ buf' = left /\ Silent(Front(left), loud)
       \/ buf' = SubSeq(left, Frame + 1, Len(left))
    /\ UNCHANGED <<written, loud, dropped>>

LEMMA KeepsStored == ASSUME Stored, Keeps PROVE Stored'
  BY DEF Stored, Keeps

LEMMA AddsStored ==
    ASSUME Stored, NEW n \in Nat \ {0}, Adds(n) PROVE Stored' /\ Len(buf') >= Len(buf)
<1>1. /\ PlayInv(buf, out, trimmed, written + n, loud', dropped \cup (written + 1)..(written + n))
      /\ PlayInv(buf \o [i \in 1..n |-> written + i], out, trimmed, written + n, loud', dropped)
  <2>1. PlayInv(buf, out, trimmed, written, loud, dropped)
    BY DEF Stored
  <2>2. loud' \in {loud, loud \cup (written + 1)..(written + n)}
    BY DEF Adds
  <2>3. \A more \in {loud, loud \cup (written + 1)..(written + n)} :
           /\ PlayInv(buf, out, trimmed, written + n, more, dropped \cup (written + 1)..(written + n))
           /\ PlayInv(buf \o [i \in 1..n |-> written + i], out, trimmed, written + n, more, dropped)
    BY <2>1, Writing
  <2> QED
    BY <2>2, <2>3
<1>2. Stored'
  BY <1>1 DEF Stored, Adds
<1>3. buf \in Seq(Nat) /\ written \in Nat /\ Len(buf) \in Nat
  BY SeqFacts DEF Stored, PlayInv
<1>4. Len(buf \o [i \in 1..n |-> written + i]) = Len(buf) + n
  BY <1>3, Adding
<1> QED
  BY <1>2, <1>3, <1>4 DEF Adds

LEMMA TakesStored ==
    ASSUME Stored, NEW k, Takes(k)
    PROVE  /\ Stored' /\ Len(buf') <= Len(buf)
           /\ out' = Append(out, SubSeq(buf, 1, k)) /\ SubSeq(buf, 1, k) \in Seq(Nat) \ {<<>>}
<1>1. Stored'
  BY Taking DEF Stored, Takes
<1>2. buf \in Seq(Nat) /\ Len(buf) \in Nat /\ Len(buf) # 0
  BY SeqFacts, EmptySeq DEF Stored, PlayInv, Takes
<1>3. k \in 0..Len(buf) /\ k # 0
  BY <1>2, FrameIs DEF Takes
<1>4. SubSeq(buf, 1, k) \in Seq(Nat) /\ Len(SubSeq(buf, 1, k)) = k
  BY <1>2, <1>3, Splits
<1>5. SubSeq(buf, 1, k) # <<>>
  BY <1>3, <1>4, EmptySeq
<1>6. Len(buf') = Len(buf) - k
  BY <1>2, <1>3, Splits DEF Takes
<1>7. Len(buf') <= Len(buf)
  BY <1>2, <1>3, <1>6
<1> QED
  BY <1>1, <1>4, <1>5, <1>7 DEF Takes

LEMMA InventsStored == ASSUME Stored, Invents PROVE Stored'
<1>1. <<>> \in Seq(Nat) /\ Units(<<>>) = {}
  BY EmptySeq DEF Units
<1>2. PlayInv(buf, out, trimmed, written, loud, dropped)
  BY DEF Stored
<1>3. PlayInv(buf, Append(out, <<>>), trimmed, written, loud, dropped)
  BY <1>1, <1>2, Inventing
<1> QED
  BY <1>3 DEF Stored, Invents

LEMMA PlaysStored ==
    ASSUME Stored, Frame <= Len(buf), NEW left, Plays(left)
    PROVE  /\ Stored' /\ Len(buf') <= Len(buf)
           /\ out' = Append(out, Front(left)) /\ Front(left) \in Seq(Nat) \ {<<>>}
<1>0. buf \in Seq(Nat) /\ Len(buf) \in Nat
  BY SeqFacts DEF Stored, PlayInv
<1>1. /\ PlayInv(left, out, trimmed', written, loud, dropped)
      /\ Frame <= Len(left) /\ Len(left) <= Len(buf)
  <2>1. CASE left = buf /\ trimmed' = trimmed
    BY <1>0, <2>1 DEF Stored
  <2>2. CASE /\ left = SubSeq(buf, Frame + 1, Len(buf)) /\ 2 * Frame <= Len(buf)
             /\ Silent(Front(buf), loud) /\ trimmed' = trimmed \cup Units(Front(buf))
    <3>1. PlayInv(left, out, trimmed', written, loud, dropped)
      BY <2>2, Trimming DEF Stored
    <3>3. Frame \in 0..Len(buf)
      BY <1>0, FrameIs
    <3>4. Len(left) = Len(buf) - Frame
      BY <1>0, <2>2, <3>3, Splits
    <3> QED
      BY <1>0, <2>2, <3>1, <3>4, FrameIs
  <2> QED
    BY <2>1, <2>2 DEF Plays
<1>2. left \in Seq(Nat) /\ Len(left) \in Nat /\ Frame \in 0..Len(left) /\ left # <<>>
  <2>1. left \in Seq(Nat) /\ Len(left) \in Nat
    BY <1>1, SeqFacts DEF PlayInv
  <2> QED
    BY <1>1, <2>1, FrameIs, EmptySeq
<1>3. Front(left) \in Seq(Nat) /\ Len(Front(left)) = Frame
  BY <1>2, Splits DEF Front
<1>4. Front(left) # <<>>
  BY <1>3, FrameIs, EmptySeq
<1>5. Stored'
  <2>1. CASE buf' = left /\ Silent(Front(left), loud)
    BY <1>1, <1>3, <2>1, Inventing DEF Stored, Plays
  <2>2. CASE buf' = SubSeq(left, Frame + 1, Len(left))
    <3>1. Frame = (IF Len(left) < Frame THEN Len(left) ELSE Frame)
      BY <1>1, <1>2, FrameIs
    <3>2. PlayInv(SubSeq(left, Frame + 1, Len(left)), Append(out, SubSeq(left, 1, Frame)), trimmed',
                  written, loud, dropped)
      BY <1>1, <1>2, <3>1, Taking
    <3> QED
      BY <2>2, <3>2 DEF Stored, Plays, Front
  <2> QED
    BY <2>1, <2>2 DEF Plays
<1>6. Len(buf') <= Len(buf)
  <2>1. Len(SubSeq(left, Frame + 1, Len(left))) = Len(left) - Frame
    BY <1>2, Splits
  <2>2. buf' = left \/ buf' = SubSeq(left, Frame + 1, Len(left))
    BY DEF Plays
  <2> QED
    BY <1>0, <1>1, <1>2, <2>1, <2>2, FrameIs
<1> QED
  BY <1>3, <1>4, <1>5, <1>6 DEF Plays

-----------------------------------------------------------------------------
(* The frames that are invented in a row are counted, and none comes first.    *)
Counted(o, c) ==
    \A i \in 1..Len(o) : o[i] = <<>> =>
        \/ Len(o) + 1 - i <= c
        \/ \E j \in i..(i + MaxConceal) : j <= Len(o) /\ o[j] # <<>>
Invented(o, c, any) ==
    /\ Counted(o, c) /\ any \in BOOLEAN
    /\ any => Len(o) >= 1
    /\ Len(o) >= 1 => o[1] # <<>>

LEMMA InventsMore ==
    ASSUME NEW o \in Seq(Seq(Nat)), NEW c \in Nat, NEW any, Invented(o, c, any), any
    PROVE  Invented(Append(o, <<>>), c + 1, any)
<1> DEFINE m == Append(o, <<>>)
<1>1. /\ Len(o) \in Nat /\ Len(m) = Len(o) + 1 /\ m[Len(o) + 1] = <<>>
      /\ \A k \in 1..Len(o) : m[k] = o[k]
  <2>1. <<>> \in Seq(Nat)
    BY EmptySeq
  <2> QED
    BY <2>1, HandedOut
<1> HIDE DEF m
<1>2. Len(o) >= 1 /\ o[1] # <<>> /\ m[1] # <<>>
  BY <1>1 DEF Invented
<1>3. ASSUME NEW i \in 1..Len(m), m[i] = <<>>
      PROVE  \/ Len(m) + 1 - i <= c + 1
             \/ \E j \in i..(i + MaxConceal) : j <= Len(m) /\ m[j] # <<>>
  <2>1. CASE i = Len(o) + 1
    BY <1>1, <2>1
  <2>2. CASE i # Len(o) + 1
    <3>0. i \in 1..Len(o)
      <4>1. Len(o) \in Nat /\ i \in 1..(Len(o) + 1)
        BY <1>1, <1>3
      <4> QED
        BY <4>1, <2>2
    <3>1. i \in 1..Len(o) /\ o[i] = <<>>
      BY <1>1, <1>3, <3>0
    <3>2. CASE Len(o) + 1 - i <= c
      BY <1>1, <3>1, <3>2
    <3>3. CASE \E j \in i..(i + MaxConceal) : j <= Len(o) /\ o[j] # <<>>
      <4>1. PICK j \in i..(i + MaxConceal) : j <= Len(o) /\ o[j] # <<>>
        BY <3>3
      <4>2. MaxConceal \in Nat /\ i \in Nat /\ i >= 1
        BY <1>1, <3>1, RemotesAssumption
      <4>3. j \in 1..Len(o) /\ j <= Len(m)
        BY <1>1, <4>1, <4>2
      <4> QED
        BY <1>1, <4>1, <4>3
    <3> QED
      BY <3>1, <3>2, <3>3 DEF Invented, Counted
  <2> QED
    BY <2>1, <2>2
<1>4. Invented(m, c + 1, any)
  BY <1>1, <1>2, <1>3 DEF Invented, Counted
<1> QED
  BY <1>4 DEF m

LEMMA HandsMore ==
    ASSUME NEW o \in Seq(Seq(Nat)), NEW c \in 0..MaxConceal, NEW any, Invented(o, c, any),
           NEW f \in Seq(Nat) \ {<<>>}, NEW d \in {c, 0}, NEW some \in {any, TRUE}
    PROVE  Invented(Append(o, f), d, some)
<1> DEFINE m == Append(o, f)
<1>0. c \in Nat /\ c <= MaxConceal /\ MaxConceal \in Nat
  BY RemotesAssumption
<1>1. /\ Len(o) \in Nat /\ Len(m) = Len(o) + 1 /\ m[Len(o) + 1] = f /\ f # <<>>
      /\ \A k \in 1..Len(o) : m[k] = o[k]
  BY HandedOut
<1> HIDE DEF m
<1>2. m[1] # <<>>
  <2>1. CASE Len(o) = 0
    BY <1>1, <2>1
  <2>2. CASE Len(o) # 0
    <3>1. 1 \in 1..Len(o) /\ Len(o) >= 1
      BY <1>1, <2>2
    <3> QED
      BY <1>1, <3>1 DEF Invented
  <2> QED
    BY <2>1, <2>2
<1>3. ASSUME NEW i \in 1..Len(m), m[i] = <<>>
      PROVE  \E j \in i..(i + MaxConceal) : j <= Len(m) /\ m[j] # <<>>
  <2>1. i # Len(o) + 1
    BY <1>1, <1>3
  <2>2. i \in 1..Len(o) /\ o[i] = <<>> /\ i \in Nat
    BY <1>1, <1>3, <2>1
  <2>3. CASE Len(o) + 1 - i <= c
    <3>1. Len(o) + 1 \in i..(i + MaxConceal)
      BY <1>0, <1>1, <2>2, <2>3
    <3> QED
      BY <1>1, <3>1
  <2>4. CASE \E j \in i..(i + MaxConceal) : j <= Len(o) /\ o[j] # <<>>
    <3>1. PICK j \in i..(i + MaxConceal) : j <= Len(o) /\ o[j] # <<>>
      BY <2>4
    <3>2. j \in 1..Len(o) /\ j <= Len(m)
      BY <1>0, <1>1, <2>2, <3>1
    <3> QED
      BY <1>1, <3>1, <3>2
  <2> QED
    BY <2>2, <2>3, <2>4 DEF Invented, Counted
<1>4. some \in BOOLEAN /\ Len(m) >= 1
  <2>1. any \in BOOLEAN
    BY DEF Invented
  <2>2. Len(m) >= 1
    BY <1>1
  <2> QED
    BY <2>1, <2>2
<1>5. Invented(m, d, some)
  BY <1>2, <1>3, <1>4 DEF Invented, Counted
<1> QED
  BY <1>5 DEF m

LEMMA Little ==
    ASSUME NEW o \in Seq(Seq(Nat)), NEW c \in 0..MaxConceal, NEW any, Invented(o, c, any)
    PROVE  \A i \in DOMAIN o : o[i] = <<>> =>
               /\ o[1] # <<>>
               /\ \E j \in i..(i + MaxConceal) : j > Len(o) \/ o[j] # <<>>
<1>0. c \in Nat /\ c <= MaxConceal /\ MaxConceal \in Nat
  BY RemotesAssumption
<1>1. Len(o) \in Nat /\ DOMAIN o = 1..Len(o)
  BY SeqFacts
<1> SUFFICES ASSUME NEW i \in 1..Len(o), o[i] = <<>>
             PROVE  /\ o[1] # <<>>
                    /\ \E j \in i..(i + MaxConceal) : j > Len(o) \/ o[j] # <<>>
  BY <1>1
<1>2. o[1] # <<>>
  BY <1>1 DEF Invented
<1>3. CASE Len(o) + 1 - i <= c
  <2>1. Len(o) + 1 \in i..(i + MaxConceal) /\ Len(o) + 1 > Len(o)
    BY <1>0, <1>1, <1>3
  <2> QED
    BY <1>2, <2>1
<1>4. CASE \E j \in i..(i + MaxConceal) : j <= Len(o) /\ o[j] # <<>>
  BY <1>2, <1>4
<1> QED
  BY <1>3, <1>4 DEF Invented, Counted

-----------------------------------------------------------------------------
(* Each step of each kind of buffer: with a lead or without one, and polled.   *)

Ended == reader = "eof" => closed /\ buf = <<>>
Hands ==
    \/ UNCHANGED <<out, conceal, last>>
    \/ out' = Append(out, <<>>) /\ last /\ conceal < MaxConceal /\ conceal' = conceal + 1 /\ last' = last
    \/ \E f \in Seq(Nat) \ {<<>>} : /\ out' = Append(out, f)
                                    /\ conceal' \in {conceal, 0} /\ last' \in {last, TRUE}
Kept(fits) == Stored' /\ Ready' /\ Hands /\ (Len(buf') <= Len(buf) \/ Len(buf') <= fits)

LEMMA BufferIs == Stored => buf \in Seq(Nat) /\ Len(buf) \in Nat /\ written \in Nat
  BY SeqFacts DEF Stored, PlayInv

LEMMA KeepsGood ==
    ASSUME Stored, Keeps, UNCHANGED <<conceal, last>>, reader' = "take" => Frame <= Len(buf), NEW fits
    PROVE  Kept(fits)
<1>1. Stored'
  BY KeepsStored
<1>2. Ready' /\ Hands /\ Len(buf') <= Len(buf)
  BY BufferIs DEF Ready, Hands, Keeps
<1> QED
  BY <1>1, <1>2 DEF Kept

LEMMA TakesGood ==
    ASSUME Stored, NEW k, Takes(k), UNCHANGED <<conceal, last>>, reader' # "take", NEW fits
    PROVE  Kept(fits)
<1>1. Stored' /\ Len(buf') <= Len(buf)
  BY TakesStored
<1>2. Hands
  <2>1. \E f \in Seq(Nat) \ {<<>>} : out' = Append(out, f)
    BY TakesStored
  <2> QED
    BY <2>1 DEF Hands
<1> QED
  BY <1>1, <1>2 DEF Kept, Ready

LEMMA InventsGood ==
    ASSUME Stored, Invents, last, conceal < MaxConceal, conceal' = conceal + 1, last' = last,
           reader' # "take", NEW fits
    PROVE  Kept(fits)
<1>1. Stored'
  BY InventsStored
<1>2. Hands /\ Len(buf') <= Len(buf)
  BY BufferIs DEF Hands, Invents
<1> QED
  BY <1>1, <1>2 DEF Kept, Ready

LEMMA PlaysGood ==
    ASSUME Stored, Frame <= Len(buf), NEW left, Plays(left), conceal' = 0, last' = TRUE,
           reader' # "take", NEW fits
    PROVE  Kept(fits)
<1>1. Stored' /\ Len(buf') <= Len(buf)
  BY PlaysStored
<1>2. Hands
  <2>1. \E f \in Seq(Nat) \ {<<>>} : out' = Append(out, f)
    BY PlaysStored
  <2> QED
    BY <2>1 DEF Hands
<1> QED
  BY <1>1, <1>2 DEF Kept, Ready

LEMMA AddsGood ==
    ASSUME Stored, Ready, NEW n \in Nat \ {0}, Adds(n), UNCHANGED <<conceal, last, reader>>,
           NEW fits, buf' = buf \/ Len(buf) + n <= fits
    PROVE  Kept(fits)
<1>1. Stored' /\ Len(buf') >= Len(buf)
  BY AddsStored
<1>2. buf \in Seq(Nat) /\ Len(buf) \in Nat /\ written \in Nat /\ Len(buf') \in Nat
  <2>1. \A q \in Seq(Nat) : Len(q) \in Nat
    BY SeqFacts
  <2>2. buf' \in Seq(Nat)
    BY <1>1 DEF Stored, PlayInv
  <2> QED
    BY BufferIs, <2>1, <2>2
<1>3. Ready'
  BY <1>1, <1>2, FrameIs DEF Ready
<1>4. Hands
  BY DEF Hands, Adds
<1>5. Len(buf') <= Len(buf) \/ Len(buf') <= fits
  <2>1. CASE buf' = buf
    BY <1>2, <2>1
  <2>2. CASE buf' # buf
    <3>1. buf' = buf \o [i \in 1..n |-> written + i]
      BY <2>2 DEF Adds
    <3>2. Len(buf') = Len(buf) + n
      BY <1>2, <3>1, Adding
    <3> QED
      BY <2>2, <3>2
  <2> QED
    BY <2>1, <2>2
<1> QED
  BY <1>1, <1>3, <1>4, <1>5 DEF Kept

LEMMA WholeBuffer ==
    ASSUME NEW q \in Seq(Nat)
    PROVE  SubSeq(q, 1, Len(q)) = q /\ SubSeq(q, Len(q) + 1, Len(q)) = <<>>
<1>1. Len(q) \in Nat /\ Len(q) \in 0..Len(q)
  BY SeqFacts
<1>2. /\ SubSeq(q, 1, Len(q)) \in Seq(Nat) /\ Len(SubSeq(q, 1, Len(q))) = Len(q)
      /\ \A i \in 1..Len(q) : SubSeq(q, 1, Len(q))[i] = q[i]
      /\ SubSeq(q, Len(q) + 1, Len(q)) \in Seq(Nat)
      /\ Len(SubSeq(q, Len(q) + 1, Len(q))) = Len(q) - Len(q)
  BY <1>1, Splits
<1>3. SubSeq(q, 1, Len(q)) = q
  BY <1>2, SeqEqual
<1>4. Len(SubSeq(q, Len(q) + 1, Len(q))) = 0
  BY <1>1, <1>2
<1> QED
  BY <1>2, <1>3, <1>4, EmptySeq

LEMMA NewUnits ==
    ASSUME NEW w \in Nat, NEW n \in Nat
    PROVE  Units([i \in 1..n |-> w + i]) = (w + 1)..(w + n)
<1>1. ASSUME NEW u \in (w + 1)..(w + n) PROVE u - w \in 1..n /\ u = w + (u - w)
  OBVIOUS
<1>2. ASSUME NEW i \in 1..n PROVE w + i \in (w + 1)..(w + n)
  OBVIOUS
<1>3. Units([i \in 1..n |-> w + i]) = {w + i : i \in 1..n}
  BY DEF Units
<1> QED
  BY <1>1, <1>2, <1>3

LEMMA PlayoutKeeps ==
    ASSUME Stored, Ready, Playout!Next
    PROVE  Kept(Capacity)
<1>0. buf \in Seq(Nat) /\ Len(buf) \in Nat /\ written \in Nat /\ Frame \in Nat /\ Frame >= 1
  BY BufferIs, FrameIs
<1>1. CASE Playout!Read
  <2>1. Keeps /\ UNCHANGED <<conceal, last>> /\ (reader' = "take" => Frame <= Len(buf))
    BY <1>1 DEF Playout!Read, Playout!Goto, Playout!inVars, Playout!runVars, Keeps
  <2> QED
    BY <2>1, KeepsGood
<1>2. CASE Playout!EOF
  <2>1. Keeps /\ UNCHANGED <<conceal, last>> /\ (reader' = "take" => Frame <= Len(buf))
    BY <1>2 DEF Playout!EOF, Playout!Goto, Playout!inVars, Playout!runVars, Keeps
  <2> QED
    BY <2>1, KeepsGood
<1>3. CASE Playout!Warm
  <2>1. Keeps /\ UNCHANGED <<conceal, last>> /\ (reader' = "take" => Frame <= Len(buf))
    BY <1>3 DEF Playout!Warm, Playout!Goto, Playout!inVars, Playout!runVars, Keeps
  <2> QED
    BY <2>1, KeepsGood
<1>4. CASE Playout!Rewarmed
  <2>1. Keeps /\ UNCHANGED <<conceal, last>> /\ (reader' = "take" => Frame <= Len(buf))
    BY <1>4 DEF Playout!Rewarmed, Playout!Goto, Playout!inVars, Playout!runVars, Keeps
  <2> QED
    BY <2>1, KeepsGood
<1>5. CASE Playout!Enough
  <2>1. Keeps /\ UNCHANGED <<conceal, last>> /\ (reader' = "take" => Frame <= Len(buf))
    BY <1>5 DEF Playout!Enough, Playout!Goto, Playout!inVars, Playout!runVars, Keeps
  <2> QED
    BY <2>1, KeepsGood
<1>6. CASE Playout!Close
  <2>1. Keeps /\ UNCHANGED <<conceal, last>> /\ (reader' = "take" => Frame <= Len(buf))
    BY <1>6 DEF Playout!Close, Playout!runVars, Keeps, Ready
  <2> QED
    BY <2>1, KeepsGood
<1>7. CASE \E long \in BOOLEAN : Playout!WaitedShort(long)
  <2>1. Keeps /\ UNCHANGED <<conceal, last>> /\ (reader' = "take" => Frame <= Len(buf))
    BY <1>7 DEF Playout!WaitedShort, Playout!Goto, Playout!inVars, Playout!runVars, Keeps
  <2> QED
    BY <2>1, KeepsGood
<1>8. CASE Playout!PassThrough
  <2> DEFINE k == IF Len(buf) < Frame THEN Len(buf) ELSE Frame
  <2>1. Takes(k) /\ UNCHANGED <<conceal, last>> /\ reader' # "take"
    BY <1>8 DEF Playout!PassThrough, Playout!Returns, Playout!Goto, Playout!Less, Playout!Rest, Playout!inVars, Playout!runVars, Takes
  <2> QED
    BY <2>1, TakesGood
<1>9. CASE Playout!TryRead
  BY <1>9 DEF Playout!TryRead
<1>10. CASE Playout!TailLeft
  <2> DEFINE k == IF Len(buf) < Frame THEN Len(buf) ELSE Frame
  <2>1. k = Len(buf) /\ buf # <<>> /\ SubSeq(buf, 1, k) = buf /\ SubSeq(buf, k + 1, Len(buf)) = <<>>
    <3>1. buf # <<>> /\ Len(buf) < Frame
      BY <1>10 DEF Playout!TailLeft
    <3>2. k = Len(buf)
      BY <3>1
    <3> QED
      BY <1>0, <3>1, <3>2, WholeBuffer
  <2>2. /\ out' = Append(out, buf) /\ buf' = <<>> /\ UNCHANGED <<conceal, last>> /\ reader' # "take"
        /\ UNCHANGED <<trimmed, written, loud, dropped>>
    BY <1>10 DEF Playout!TailLeft, Playout!DrainTail, Playout!Returns, Playout!Goto, Playout!inVars, Playout!runVars
  <2>3. Takes(k)
    BY <2>1, <2>2 DEF Takes
  <2> QED
    BY <2>2, <2>3, TakesGood
<1>11. CASE Playout!Underrun
  <2>1. CASE Playout!Conceals
    <3>1. Invents /\ last /\ conceal < MaxConceal /\ conceal' = conceal + 1 /\ last' = last /\ reader' # "take"
      BY <1>11, <2>1 DEF Playout!Underrun, Playout!Conceals, Playout!Returns, Playout!Goto, Playout!inVars, Invents
    <3> QED
      BY <3>1, InventsGood
  <2>2. CASE ~Playout!Conceals
    <3>1. Keeps /\ UNCHANGED <<conceal, last>> /\ reader' # "take"
      BY <1>11, <2>2 DEF Playout!Underrun, Playout!Goto, Playout!inVars, Keeps
    <3> QED
      BY <3>1, KeepsGood
  <2> QED
    BY <2>1, <2>2
<1>12. CASE Playout!Take
  <2> DEFINE left == IF Playout!Trims THEN Playout!Rest(Frame) ELSE buf
             repeats == /\ insert < MaxInsert /\ Len(left) <= Playout!InsertBelow
                        /\ Playout!Quiet(SubSeq(left, 1, Frame))
  <2>1. Frame <= Len(buf)
    BY <1>12 DEF Playout!Take, Ready
  <2>2. /\ trimmed' = IF Playout!Trims THEN trimmed \cup Playout!ToSet(Playout!Foremost) ELSE trimmed
        /\ out' = Append(out, SubSeq(left, 1, Frame)) /\ reader' = "idle"
        /\ buf' = IF repeats THEN left ELSE SubSeq(left, Frame + 1, Len(left))
        /\ conceal' = 0 /\ last' = TRUE /\ UNCHANGED <<written, loud, dropped>>
    BY <1>12 DEF Playout!Take, Playout!Returns, Playout!Goto, Playout!inVars
  <2>3. \A f : Playout!ToSet(f) = Units(f) /\ (Playout!Quiet(f) <=> Silent(f, loud))
    BY DEF Playout!ToSet, Playout!Quiet, Units, Silent
  <2>4. Playout!Foremost = Front(buf) /\ Playout!Rest(Frame) = SubSeq(buf, Frame + 1, Len(buf))
    BY DEF Playout!Foremost, Playout!Rest, Front
  <2>5. Playout!Trims => 2 * Frame <= Len(buf) /\ Silent(Front(buf), loud)
    <3>1. Lead \in Nat /\ Lead \div 2 \in Int
      BY RemotesAssumption
    <3> DEFINE half == Lead \div 2
    <3>2. Playout!TrimAbove = Lead + (IF half < 2 * Frame THEN 2 * Frame ELSE half)
      BY DEF Playout!TrimAbove
    <3> HIDE DEF half
    <3>3. half \in Int
      BY <3>1 DEF half
    <3>4. Playout!TrimAbove \in Int /\ Playout!TrimAbove >= 2 * Frame
      BY <1>0, <3>1, <3>2, <3>3
    <3>5. Playout!Trims => Len(buf) >= Playout!TrimAbove + Frame /\ Silent(Front(buf), loud)
      BY <2>3, <2>4 DEF Playout!Trims
    <3> QED
      BY <1>0, <3>4, <3>5
  <2>6. repeats => Silent(Front(left), loud)
    BY <2>3 DEF Front
  <2> HIDE DEF repeats
  <2>7. Plays(left)
    <3>1. \/ left = buf /\ trimmed' = trimmed
          \/ /\ left = SubSeq(buf, Frame + 1, Len(buf)) /\ 2 * Frame <= Len(buf)
             /\ Silent(Front(buf), loud) /\ trimmed' = trimmed \cup Units(Front(buf))
      BY <2>2, <2>3, <2>4, <2>5
    <3> HIDE DEF left
    <3> QED
      BY <2>2, <2>6, <3>1 DEF Plays, Front
  <2> HIDE DEF left
  <2> QED
    BY <2>1, <2>2, <2>7, PlaysGood
<1>13. CASE \E n \in 1..Frame, speech \in BOOLEAN : Playout!Write(n, speech)
  <2>1. PICK n \in 1..Frame, speech \in BOOLEAN : Playout!Write(n, speech)
    BY <1>13
  <2>2. n \in Nat \ {0}
    BY <1>0
  <2>3. Playout!Units(n) = [i \in 1..n |-> written + i]
    BY DEF Playout!Units
  <2>4. Playout!ToSet(Playout!Units(n)) = (written + 1)..(written + n)
    <3>1. Playout!ToSet(Playout!Units(n)) = Units(Playout!Units(n))
      BY DEF Playout!ToSet, Units
    <3> QED
      BY <1>0, <2>2, <2>3, <3>1, NewUnits
  <2>5. /\ written' = written + n /\ UNCHANGED <<out, trimmed, conceal, last, reader>>
        /\ loud' \in {loud, loud \cup Playout!ToSet(Playout!Units(n))}
        /\ \/ buf' = buf /\ dropped' = dropped \cup Playout!ToSet(Playout!Units(n))
           \/ buf' = buf \o Playout!Units(n) /\ dropped' = dropped
        /\ buf' = buf \/ ~(Len(buf) + n > Capacity)
    BY <2>1 DEF Playout!Write, Playout!runVars
  <2>6. Adds(n)
    BY <2>3, <2>4, <2>5 DEF Adds
  <2>7. Capacity \in Nat
    BY <1>0, RemotesAssumption
  <2>8. buf' = buf \/ Len(buf) + n <= Capacity
    BY <1>0, <2>2, <2>5, <2>7
  <2> QED
    BY <2>2, <2>5, <2>6, <2>8, AddsGood
<1> QED
  BY <1>1, <1>2, <1>3, <1>4, <1>5, <1>6, <1>7, <1>8, <1>9, <1>10, <1>11, <1>12, <1>13 DEF Playout!Next, Playout!Reads

LEMMA PassingKeeps ==
    ASSUME Stored, Ready, Passing!Next
    PROVE  Kept((Frame + 1))
<1>0. buf \in Seq(Nat) /\ Len(buf) \in Nat /\ written \in Nat /\ Frame \in Nat /\ Frame >= 1
  BY BufferIs, FrameIs
<1>1. CASE Passing!Read
  <2>1. Keeps /\ UNCHANGED <<conceal, last>> /\ (reader' = "take" => Frame <= Len(buf))
    BY <1>1 DEF Passing!Read, Passing!Goto, Passing!inVars, Passing!runVars, Keeps
  <2> QED
    BY <2>1, KeepsGood
<1>2. CASE Passing!EOF
  <2>1. Keeps /\ UNCHANGED <<conceal, last>> /\ (reader' = "take" => Frame <= Len(buf))
    BY <1>2 DEF Passing!EOF, Passing!Goto, Passing!inVars, Passing!runVars, Keeps
  <2> QED
    BY <2>1, KeepsGood
<1>3. CASE Passing!Warm
  <2>1. Keeps /\ UNCHANGED <<conceal, last>> /\ (reader' = "take" => Frame <= Len(buf))
    BY <1>3 DEF Passing!Warm, Passing!Goto, Passing!inVars, Passing!runVars, Keeps
  <2> QED
    BY <2>1, KeepsGood
<1>4. CASE Passing!Rewarmed
  <2>1. Keeps /\ UNCHANGED <<conceal, last>> /\ (reader' = "take" => Frame <= Len(buf))
    BY <1>4 DEF Passing!Rewarmed, Passing!Goto, Passing!inVars, Passing!runVars, Keeps
  <2> QED
    BY <2>1, KeepsGood
<1>5. CASE Passing!Enough
  <2>1. Keeps /\ UNCHANGED <<conceal, last>> /\ (reader' = "take" => Frame <= Len(buf))
    BY <1>5 DEF Passing!Enough, Passing!Goto, Passing!inVars, Passing!runVars, Keeps
  <2> QED
    BY <2>1, KeepsGood
<1>6. CASE Passing!Close
  <2>1. Keeps /\ UNCHANGED <<conceal, last>> /\ (reader' = "take" => Frame <= Len(buf))
    BY <1>6 DEF Passing!Close, Passing!runVars, Keeps, Ready
  <2> QED
    BY <2>1, KeepsGood
<1>7. CASE \E long \in BOOLEAN : Passing!WaitedShort(long)
  <2>1. Keeps /\ UNCHANGED <<conceal, last>> /\ (reader' = "take" => Frame <= Len(buf))
    BY <1>7 DEF Passing!WaitedShort, Passing!Goto, Passing!inVars, Passing!runVars, Keeps
  <2> QED
    BY <2>1, KeepsGood
<1>8. CASE Passing!PassThrough
  <2> DEFINE k == IF Len(buf) < Frame THEN Len(buf) ELSE Frame
  <2>1. Takes(k) /\ UNCHANGED <<conceal, last>> /\ reader' # "take"
    BY <1>8 DEF Passing!PassThrough, Passing!Returns, Passing!Goto, Passing!Less, Passing!Rest, Passing!inVars, Passing!runVars, Takes
  <2> QED
    BY <2>1, TakesGood
<1>9. CASE Passing!TryRead
  BY <1>9 DEF Passing!TryRead
<1>10. CASE Passing!TailLeft
  <2> DEFINE k == IF Len(buf) < Frame THEN Len(buf) ELSE Frame
  <2>1. k = Len(buf) /\ buf # <<>> /\ SubSeq(buf, 1, k) = buf /\ SubSeq(buf, k + 1, Len(buf)) = <<>>
    <3>1. buf # <<>> /\ Len(buf) < Frame
      BY <1>10 DEF Passing!TailLeft
    <3>2. k = Len(buf)
      BY <3>1
    <3> QED
      BY <1>0, <3>1, <3>2, WholeBuffer
  <2>2. /\ out' = Append(out, buf) /\ buf' = <<>> /\ UNCHANGED <<conceal, last>> /\ reader' # "take"
        /\ UNCHANGED <<trimmed, written, loud, dropped>>
    BY <1>10 DEF Passing!TailLeft, Passing!DrainTail, Passing!Returns, Passing!Goto, Passing!inVars, Passing!runVars
  <2>3. Takes(k)
    BY <2>1, <2>2 DEF Takes
  <2> QED
    BY <2>2, <2>3, TakesGood
<1>11. CASE Passing!Underrun
  <2>1. CASE Passing!Conceals
    <3>1. Invents /\ last /\ conceal < MaxConceal /\ conceal' = conceal + 1 /\ last' = last /\ reader' # "take"
      BY <1>11, <2>1 DEF Passing!Underrun, Passing!Conceals, Passing!Returns, Passing!Goto, Passing!inVars, Invents
    <3> QED
      BY <3>1, InventsGood
  <2>2. CASE ~Passing!Conceals
    <3>1. Keeps /\ UNCHANGED <<conceal, last>> /\ reader' # "take"
      BY <1>11, <2>2 DEF Passing!Underrun, Passing!Goto, Passing!inVars, Keeps
    <3> QED
      BY <3>1, KeepsGood
  <2> QED
    BY <2>1, <2>2
<1>12. CASE Passing!Take
  <2> DEFINE left == IF Passing!Trims THEN Passing!Rest(Frame) ELSE buf
             repeats == /\ insert < MaxInsert /\ Len(left) <= Passing!InsertBelow
                        /\ Passing!Quiet(SubSeq(left, 1, Frame))
  <2>1. Frame <= Len(buf)
    BY <1>12 DEF Passing!Take, Ready
  <2>2. /\ trimmed' = IF Passing!Trims THEN trimmed \cup Passing!ToSet(Passing!Foremost) ELSE trimmed
        /\ out' = Append(out, SubSeq(left, 1, Frame)) /\ reader' = "idle"
        /\ buf' = IF repeats THEN left ELSE SubSeq(left, Frame + 1, Len(left))
        /\ conceal' = 0 /\ last' = TRUE /\ UNCHANGED <<written, loud, dropped>>
    BY <1>12 DEF Passing!Take, Passing!Returns, Passing!Goto, Passing!inVars
  <2>3. \A f : Passing!ToSet(f) = Units(f) /\ (Passing!Quiet(f) <=> Silent(f, loud))
    BY DEF Passing!ToSet, Passing!Quiet, Units, Silent
  <2>4. Passing!Foremost = Front(buf) /\ Passing!Rest(Frame) = SubSeq(buf, Frame + 1, Len(buf))
    BY DEF Passing!Foremost, Passing!Rest, Front
  <2>5. Passing!Trims => 2 * Frame <= Len(buf) /\ Silent(Front(buf), loud)
    <3>1. 0 \in Nat /\ 0 \div 2 \in Int
      BY RemotesAssumption
    <3> DEFINE half == 0 \div 2
    <3>2. Passing!TrimAbove = 0 + (IF half < 2 * Frame THEN 2 * Frame ELSE half)
      BY DEF Passing!TrimAbove
    <3> HIDE DEF half
    <3>3. half \in Int
      BY <3>1 DEF half
    <3>4. Passing!TrimAbove \in Int /\ Passing!TrimAbove >= 2 * Frame
      BY <1>0, <3>1, <3>2, <3>3
    <3>5. Passing!Trims => Len(buf) >= Passing!TrimAbove + Frame /\ Silent(Front(buf), loud)
      BY <2>3, <2>4 DEF Passing!Trims
    <3> QED
      BY <1>0, <3>4, <3>5
  <2>6. repeats => Silent(Front(left), loud)
    BY <2>3 DEF Front
  <2> HIDE DEF repeats
  <2>7. Plays(left)
    <3>1. \/ left = buf /\ trimmed' = trimmed
          \/ /\ left = SubSeq(buf, Frame + 1, Len(buf)) /\ 2 * Frame <= Len(buf)
             /\ Silent(Front(buf), loud) /\ trimmed' = trimmed \cup Units(Front(buf))
      BY <2>2, <2>3, <2>4, <2>5
    <3> HIDE DEF left
    <3> QED
      BY <2>2, <2>6, <3>1 DEF Plays, Front
  <2> HIDE DEF left
  <2> QED
    BY <2>1, <2>2, <2>7, PlaysGood
<1>13. CASE \E n \in 1..Frame, speech \in BOOLEAN : Passing!Write(n, speech)
  <2>1. PICK n \in 1..Frame, speech \in BOOLEAN : Passing!Write(n, speech)
    BY <1>13
  <2>2. n \in Nat \ {0}
    BY <1>0
  <2>3. Passing!Units(n) = [i \in 1..n |-> written + i]
    BY DEF Passing!Units
  <2>4. Passing!ToSet(Passing!Units(n)) = (written + 1)..(written + n)
    <3>1. Passing!ToSet(Passing!Units(n)) = Units(Passing!Units(n))
      BY DEF Passing!ToSet, Units
    <3> QED
      BY <1>0, <2>2, <2>3, <3>1, NewUnits
  <2>5. /\ written' = written + n /\ UNCHANGED <<out, trimmed, conceal, last, reader>>
        /\ loud' \in {loud, loud \cup Passing!ToSet(Passing!Units(n))}
        /\ \/ buf' = buf /\ dropped' = dropped \cup Passing!ToSet(Passing!Units(n))
           \/ buf' = buf \o Passing!Units(n) /\ dropped' = dropped
        /\ buf' = buf \/ ~(Len(buf) + n > (Frame + 1))
    BY <2>1 DEF Passing!Write, Passing!runVars
  <2>6. Adds(n)
    BY <2>3, <2>4, <2>5 DEF Adds
  <2>7. (Frame + 1) \in Nat
    BY <1>0, RemotesAssumption
  <2>8. buf' = buf \/ Len(buf) + n <= (Frame + 1)
    BY <1>0, <2>2, <2>5, <2>7
  <2> QED
    BY <2>2, <2>5, <2>6, <2>8, AddsGood
<1> QED
  BY <1>1, <1>2, <1>3, <1>4, <1>5, <1>6, <1>7, <1>8, <1>9, <1>10, <1>11, <1>12, <1>13 DEF Passing!Next, Passing!Reads

LEMMA PolledKeeps ==
    ASSUME Stored, Ready, Polled!Next
    PROVE  Kept((Frame + 1))
<1>0. buf \in Seq(Nat) /\ Len(buf) \in Nat /\ written \in Nat /\ Frame \in Nat /\ Frame >= 1
  BY BufferIs, FrameIs
<1>1. CASE Polled!Read
  <2>1. Keeps /\ UNCHANGED <<conceal, last>> /\ (reader' = "take" => Frame <= Len(buf))
    BY <1>1 DEF Polled!Read, Polled!Goto, Polled!inVars, Polled!runVars, Keeps
  <2> QED
    BY <2>1, KeepsGood
<1>2. CASE Polled!EOF
  <2>1. Keeps /\ UNCHANGED <<conceal, last>> /\ (reader' = "take" => Frame <= Len(buf))
    BY <1>2 DEF Polled!EOF, Polled!Goto, Polled!inVars, Polled!runVars, Keeps
  <2> QED
    BY <2>1, KeepsGood
<1>3. CASE Polled!Warm
  <2>1. Keeps /\ UNCHANGED <<conceal, last>> /\ (reader' = "take" => Frame <= Len(buf))
    BY <1>3 DEF Polled!Warm, Polled!Goto, Polled!inVars, Polled!runVars, Keeps
  <2> QED
    BY <2>1, KeepsGood
<1>4. CASE Polled!Rewarmed
  <2>1. Keeps /\ UNCHANGED <<conceal, last>> /\ (reader' = "take" => Frame <= Len(buf))
    BY <1>4 DEF Polled!Rewarmed, Polled!Goto, Polled!inVars, Polled!runVars, Keeps
  <2> QED
    BY <2>1, KeepsGood
<1>5. CASE Polled!Enough
  <2>1. Keeps /\ UNCHANGED <<conceal, last>> /\ (reader' = "take" => Frame <= Len(buf))
    BY <1>5 DEF Polled!Enough, Polled!Goto, Polled!inVars, Polled!runVars, Keeps
  <2> QED
    BY <2>1, KeepsGood
<1>6. CASE Polled!Close
  <2>1. Keeps /\ UNCHANGED <<conceal, last>> /\ (reader' = "take" => Frame <= Len(buf))
    BY <1>6 DEF Polled!Close, Polled!runVars, Keeps, Ready
  <2> QED
    BY <2>1, KeepsGood
<1>7. CASE \E long \in BOOLEAN : Polled!WaitedShort(long)
  <2>1. Keeps /\ UNCHANGED <<conceal, last>> /\ (reader' = "take" => Frame <= Len(buf))
    BY <1>7 DEF Polled!WaitedShort, Polled!Goto, Polled!inVars, Polled!runVars, Keeps
  <2> QED
    BY <2>1, KeepsGood
<1>8. CASE Polled!PassThrough
  <2> DEFINE k == IF Len(buf) < Frame THEN Len(buf) ELSE Frame
  <2>1. Takes(k) /\ UNCHANGED <<conceal, last>> /\ reader' # "take"
    BY <1>8 DEF Polled!PassThrough, Polled!Returns, Polled!Goto, Polled!Less, Polled!Rest, Polled!inVars, Polled!runVars, Takes
  <2> QED
    BY <2>1, TakesGood
<1>9. CASE Polled!TryRead
  <2>1. CASE Len(buf) >= Frame
    <3>1. buf # <<>> /\ Frame = (IF Len(buf) < Frame THEN Len(buf) ELSE Frame)
      BY <1>0, <2>1, EmptySeq
    <3>2. Takes(Frame) /\ UNCHANGED <<conceal, last>> /\ reader' # "take"
      BY <1>0, <1>9, <2>1, <3>1 DEF Polled!TryRead, Polled!Returns, Polled!Goto, Polled!Foremost, Polled!Rest, Polled!inVars, Polled!runVars, Takes
    <3> QED
      BY <3>2, TakesGood
  <2>2. CASE ~(Len(buf) >= Frame)
    <3>1. Keeps /\ UNCHANGED <<conceal, last>> /\ reader' # "take"
      BY <1>0, <1>9, <2>2 DEF Polled!TryRead, Polled!Goto, Polled!inVars, Polled!runVars, Keeps
    <3> QED
      BY <3>1, KeepsGood
  <2> QED
    BY <2>1, <2>2
<1>10. CASE Polled!TailLeft
  <2> DEFINE k == IF Len(buf) < Frame THEN Len(buf) ELSE Frame
  <2>1. k = Len(buf) /\ buf # <<>> /\ SubSeq(buf, 1, k) = buf /\ SubSeq(buf, k + 1, Len(buf)) = <<>>
    <3>1. buf # <<>> /\ Len(buf) < Frame
      BY <1>10 DEF Polled!TailLeft
    <3>2. k = Len(buf)
      BY <3>1
    <3> QED
      BY <1>0, <3>1, <3>2, WholeBuffer
  <2>2. /\ out' = Append(out, buf) /\ buf' = <<>> /\ UNCHANGED <<conceal, last>> /\ reader' # "take"
        /\ UNCHANGED <<trimmed, written, loud, dropped>>
    BY <1>10 DEF Polled!TailLeft, Polled!DrainTail, Polled!Returns, Polled!Goto, Polled!inVars, Polled!runVars
  <2>3. Takes(k)
    BY <2>1, <2>2 DEF Takes
  <2> QED
    BY <2>2, <2>3, TakesGood
<1>11. CASE Polled!Underrun
  <2>1. CASE Polled!Conceals
    <3>1. Invents /\ last /\ conceal < MaxConceal /\ conceal' = conceal + 1 /\ last' = last /\ reader' # "take"
      BY <1>11, <2>1 DEF Polled!Underrun, Polled!Conceals, Polled!Returns, Polled!Goto, Polled!inVars, Invents
    <3> QED
      BY <3>1, InventsGood
  <2>2. CASE ~Polled!Conceals
    <3>1. Keeps /\ UNCHANGED <<conceal, last>> /\ reader' # "take"
      BY <1>11, <2>2 DEF Polled!Underrun, Polled!Goto, Polled!inVars, Keeps
    <3> QED
      BY <3>1, KeepsGood
  <2> QED
    BY <2>1, <2>2
<1>12. CASE Polled!Take
  <2> DEFINE left == IF Polled!Trims THEN Polled!Rest(Frame) ELSE buf
             repeats == /\ insert < MaxInsert /\ Len(left) <= Polled!InsertBelow
                        /\ Polled!Quiet(SubSeq(left, 1, Frame))
  <2>1. Frame <= Len(buf)
    BY <1>12 DEF Polled!Take, Ready
  <2>2. /\ trimmed' = IF Polled!Trims THEN trimmed \cup Polled!ToSet(Polled!Foremost) ELSE trimmed
        /\ out' = Append(out, SubSeq(left, 1, Frame)) /\ reader' = "idle"
        /\ buf' = IF repeats THEN left ELSE SubSeq(left, Frame + 1, Len(left))
        /\ conceal' = 0 /\ last' = TRUE /\ UNCHANGED <<written, loud, dropped>>
    BY <1>12 DEF Polled!Take, Polled!Returns, Polled!Goto, Polled!inVars
  <2>3. \A f : Polled!ToSet(f) = Units(f) /\ (Polled!Quiet(f) <=> Silent(f, loud))
    BY DEF Polled!ToSet, Polled!Quiet, Units, Silent
  <2>4. Polled!Foremost = Front(buf) /\ Polled!Rest(Frame) = SubSeq(buf, Frame + 1, Len(buf))
    BY DEF Polled!Foremost, Polled!Rest, Front
  <2>5. Polled!Trims => 2 * Frame <= Len(buf) /\ Silent(Front(buf), loud)
    <3>1. 0 \in Nat /\ 0 \div 2 \in Int
      BY RemotesAssumption
    <3> DEFINE half == 0 \div 2
    <3>2. Polled!TrimAbove = 0 + (IF half < 2 * Frame THEN 2 * Frame ELSE half)
      BY DEF Polled!TrimAbove
    <3> HIDE DEF half
    <3>3. half \in Int
      BY <3>1 DEF half
    <3>4. Polled!TrimAbove \in Int /\ Polled!TrimAbove >= 2 * Frame
      BY <1>0, <3>1, <3>2, <3>3
    <3>5. Polled!Trims => Len(buf) >= Polled!TrimAbove + Frame /\ Silent(Front(buf), loud)
      BY <2>3, <2>4 DEF Polled!Trims
    <3> QED
      BY <1>0, <3>4, <3>5
  <2>6. repeats => Silent(Front(left), loud)
    BY <2>3 DEF Front
  <2> HIDE DEF repeats
  <2>7. Plays(left)
    <3>1. \/ left = buf /\ trimmed' = trimmed
          \/ /\ left = SubSeq(buf, Frame + 1, Len(buf)) /\ 2 * Frame <= Len(buf)
             /\ Silent(Front(buf), loud) /\ trimmed' = trimmed \cup Units(Front(buf))
      BY <2>2, <2>3, <2>4, <2>5
    <3> HIDE DEF left
    <3> QED
      BY <2>2, <2>6, <3>1 DEF Plays, Front
  <2> HIDE DEF left
  <2> QED
    BY <2>1, <2>2, <2>7, PlaysGood
<1>13. CASE \E n \in 1..Frame, speech \in BOOLEAN : Polled!Write(n, speech)
  <2>1. PICK n \in 1..Frame, speech \in BOOLEAN : Polled!Write(n, speech)
    BY <1>13
  <2>2. n \in Nat \ {0}
    BY <1>0
  <2>3. Polled!Units(n) = [i \in 1..n |-> written + i]
    BY DEF Polled!Units
  <2>4. Polled!ToSet(Polled!Units(n)) = (written + 1)..(written + n)
    <3>1. Polled!ToSet(Polled!Units(n)) = Units(Polled!Units(n))
      BY DEF Polled!ToSet, Units
    <3> QED
      BY <1>0, <2>2, <2>3, <3>1, NewUnits
  <2>5. /\ written' = written + n /\ UNCHANGED <<out, trimmed, conceal, last, reader>>
        /\ loud' \in {loud, loud \cup Polled!ToSet(Polled!Units(n))}
        /\ \/ buf' = buf /\ dropped' = dropped \cup Polled!ToSet(Polled!Units(n))
           \/ buf' = buf \o Polled!Units(n) /\ dropped' = dropped
        /\ buf' = buf \/ ~(Len(buf) + n > (Frame + 1))
    BY <2>1 DEF Polled!Write, Polled!runVars
  <2>6. Adds(n)
    BY <2>3, <2>4, <2>5 DEF Adds
  <2>7. (Frame + 1) \in Nat
    BY <1>0, RemotesAssumption
  <2>8. buf' = buf \/ Len(buf) + n <= (Frame + 1)
    BY <1>0, <2>2, <2>5, <2>7
  <2> QED
    BY <2>2, <2>5, <2>6, <2>8, AddsGood
<1> QED
  BY <1>1, <1>2, <1>3, <1>4, <1>5, <1>6, <1>7, <1>8, <1>9, <1>10, <1>11, <1>12, <1>13 DEF Polled!Next, Polled!Reads

LEMMA PlayoutEnds == ASSUME Ended, Playout!Next PROVE Ended'
<1>1. CASE Playout!Read
  BY <1>1 DEF Playout!Read, Playout!Goto, Playout!inVars, Ended
<1>2. CASE Playout!EOF
  BY <1>2 DEF Playout!EOF, Playout!Goto, Playout!inVars, Ended
<1>3. CASE Playout!PassThrough
  BY <1>3 DEF Playout!PassThrough, Playout!Returns, Playout!Goto, Playout!inVars, Ended
<1>4. CASE Playout!TryRead
  BY <1>4 DEF Playout!TryRead, Ended
<1>5. CASE Playout!Warm
  BY <1>5 DEF Playout!Warm, Playout!Goto, Playout!inVars, Ended
<1>6. CASE Playout!TailLeft
  BY <1>6 DEF Playout!TailLeft, Playout!DrainTail, Playout!Returns, Playout!Goto, Ended
<1>7. CASE Playout!Underrun
  BY <1>7 DEF Playout!Underrun, Playout!Returns, Playout!Goto, Ended
<1>8. CASE Playout!Rewarmed
  BY <1>8 DEF Playout!Rewarmed, Playout!Goto, Ended
<1>9. CASE Playout!Enough
  BY <1>9 DEF Playout!Enough, Playout!Goto, Ended
<1>10. CASE Playout!Take
  BY <1>10 DEF Playout!Take, Playout!Returns, Playout!Goto, Ended
<1>11. CASE Playout!Close
  BY <1>11 DEF Playout!Close, Ended
<1>12. CASE \E long \in BOOLEAN : Playout!WaitedShort(long)
  BY <1>12 DEF Playout!WaitedShort, Playout!Goto, Ended
<1>13. CASE \E n \in 1..Frame, speech \in BOOLEAN : Playout!Write(n, speech)
  <2>1. ~closed /\ reader' = reader
    BY <1>13 DEF Playout!Write
  <2> QED
    BY <2>1 DEF Ended
<1> QED
  BY <1>1, <1>2, <1>3, <1>4, <1>5, <1>6, <1>7, <1>8, <1>9, <1>10, <1>11, <1>12, <1>13 DEF Playout!Next, Playout!Reads

LEMMA PassingEnds == ASSUME Ended, Passing!Next PROVE Ended'
<1>1. CASE Passing!Read
  BY <1>1 DEF Passing!Read, Passing!Goto, Passing!inVars, Ended
<1>2. CASE Passing!EOF
  BY <1>2 DEF Passing!EOF, Passing!Goto, Passing!inVars, Ended
<1>3. CASE Passing!PassThrough
  BY <1>3 DEF Passing!PassThrough, Passing!Returns, Passing!Goto, Passing!inVars, Ended
<1>4. CASE Passing!TryRead
  BY <1>4 DEF Passing!TryRead, Ended
<1>5. CASE Passing!Warm
  BY <1>5 DEF Passing!Warm, Passing!Goto, Passing!inVars, Ended
<1>6. CASE Passing!TailLeft
  BY <1>6 DEF Passing!TailLeft, Passing!DrainTail, Passing!Returns, Passing!Goto, Ended
<1>7. CASE Passing!Underrun
  BY <1>7 DEF Passing!Underrun, Passing!Returns, Passing!Goto, Ended
<1>8. CASE Passing!Rewarmed
  BY <1>8 DEF Passing!Rewarmed, Passing!Goto, Ended
<1>9. CASE Passing!Enough
  BY <1>9 DEF Passing!Enough, Passing!Goto, Ended
<1>10. CASE Passing!Take
  BY <1>10 DEF Passing!Take, Passing!Returns, Passing!Goto, Ended
<1>11. CASE Passing!Close
  BY <1>11 DEF Passing!Close, Ended
<1>12. CASE \E long \in BOOLEAN : Passing!WaitedShort(long)
  BY <1>12 DEF Passing!WaitedShort, Passing!Goto, Ended
<1>13. CASE \E n \in 1..Frame, speech \in BOOLEAN : Passing!Write(n, speech)
  <2>1. ~closed /\ reader' = reader
    BY <1>13 DEF Passing!Write
  <2> QED
    BY <2>1 DEF Ended
<1> QED
  BY <1>1, <1>2, <1>3, <1>4, <1>5, <1>6, <1>7, <1>8, <1>9, <1>10, <1>11, <1>12, <1>13 DEF Passing!Next, Passing!Reads

\* What of a buffer's state is bounded, apart from what it stores.
Bounded ==
    /\ {closed, warming, last} \subseteq BOOLEAN
    /\ conceal \in 0..MaxConceal /\ insert \in 0..MaxInsert
    /\ reader \in {"idle", "pass", "warm", "level", "short", "rewarm", "take", "eof"}
    /\ written \in 0..MaxUnits

LEMMA PlayoutBounded == ASSUME Bounded, written \in Nat, Playout!Next PROVE Bounded'
<1>0. Frame \in Nat /\ MaxConceal \in Nat /\ MaxInsert \in Nat /\ MaxUnits \in Nat
  BY RemotesAssumption
<1>1. CASE Playout!Read
  BY <1>1 DEF Playout!Read, Playout!Goto, Playout!inVars, Playout!runVars, Bounded
<1>2. CASE Playout!EOF
  BY <1>2 DEF Playout!EOF, Playout!Goto, Playout!inVars, Playout!runVars, Bounded
<1>3. CASE Playout!PassThrough
  BY <1>3 DEF Playout!PassThrough, Playout!Returns, Playout!Goto, Playout!inVars, Playout!runVars, Bounded
<1>4. CASE Playout!TryRead
  BY <1>4 DEF Playout!TryRead, Bounded
<1>5. CASE Playout!Warm
  BY <1>5 DEF Playout!Warm, Playout!Goto, Playout!inVars, Playout!runVars, Bounded
<1>6. CASE Playout!TailLeft
  BY <1>6 DEF Playout!TailLeft, Playout!DrainTail, Playout!Returns, Playout!Goto, Playout!inVars, Playout!runVars, Bounded
<1>7. CASE Playout!Rewarmed
  BY <1>7 DEF Playout!Rewarmed, Playout!Goto, Playout!inVars, Playout!runVars, Bounded
<1>8. CASE Playout!Enough
  BY <1>8 DEF Playout!Enough, Playout!Goto, Playout!inVars, Playout!runVars, Bounded
<1>9. CASE Playout!Close
  BY <1>9 DEF Playout!Close, Playout!runVars, Bounded
<1>10. CASE Playout!Underrun
  <2>1. CASE Playout!Conceals
    <3>1. conceal' = conceal + 1 /\ conceal < MaxConceal /\ reader' = "idle"
          /\ UNCHANGED <<closed, warming, last, insert, written>>
      BY <1>10, <2>1 DEF Playout!Underrun, Playout!Conceals, Playout!Returns, Playout!Goto, Playout!inVars
    <3>2. conceal + 1 \in 0..MaxConceal
      BY <1>0, <3>1 DEF Bounded
    <3> QED
      BY <3>1, <3>2 DEF Bounded
  <2>2. CASE ~Playout!Conceals
    BY <1>10, <2>2 DEF Playout!Underrun, Playout!Goto, Playout!inVars, Bounded
  <2> QED
    BY <2>1, <2>2
<1>11. CASE Playout!Take
  <2>1. /\ conceal' = 0 /\ last' = TRUE /\ reader' = "idle" /\ UNCHANGED <<closed, warming, written>>
        /\ (insert' = insert + 1 /\ insert < MaxInsert) \/ insert' = 0
    BY <1>11 DEF Playout!Take, Playout!Returns, Playout!Goto, Playout!inVars
  <2>2. insert' \in 0..MaxInsert
    BY <1>0, <2>1 DEF Bounded
  <2>3. conceal' \in 0..MaxConceal
    BY <1>0, <2>1
  <2> QED
    BY <2>1, <2>2, <2>3 DEF Bounded
<1>12. CASE \E long \in BOOLEAN : Playout!WaitedShort(long)
  BY <1>12 DEF Playout!WaitedShort, Playout!Goto, Playout!inVars, Playout!runVars, Bounded
<1>13. CASE \E n \in 1..Frame, speech \in BOOLEAN : Playout!Write(n, speech)
  <2>1. PICK n \in 1..Frame, speech \in BOOLEAN : Playout!Write(n, speech)
    BY <1>13
  <2>2. /\ written' = written + n /\ written + n <= MaxUnits
        /\ UNCHANGED <<closed, warming, last, conceal, insert, reader>>
    BY <2>1 DEF Playout!Write, Playout!runVars
  <2>3. written' \in 0..MaxUnits
    BY <1>0, <2>2
  <2> QED
    BY <2>2, <2>3 DEF Bounded
<1> QED
  BY <1>1, <1>2, <1>3, <1>4, <1>5, <1>6, <1>7, <1>8, <1>9, <1>10, <1>11, <1>12, <1>13
  DEF Playout!Next, Playout!Reads

LEMMA HandsCount ==
    ASSUME Stored, Bounded, Invented(out, conceal, last), Hands
    PROVE  Invented(out', conceal', last')
<1>1. out \in Seq(Seq(Nat)) /\ conceal \in Nat /\ conceal \in 0..MaxConceal
  BY RemotesAssumption DEF Stored, PlayInv, Bounded
<1>2. CASE UNCHANGED <<out, conceal, last>>
  BY <1>2
<1>3. CASE /\ out' = Append(out, <<>>) /\ last /\ conceal < MaxConceal
           /\ conceal' = conceal + 1 /\ last' = last
  BY <1>1, <1>3, InventsMore
<1>4. CASE \E f \in Seq(Nat) \ {<<>>} : /\ out' = Append(out, f)
                                        /\ conceal' \in {conceal, 0} /\ last' \in {last, TRUE}
  <2>1. PICK f \in Seq(Nat) \ {<<>>} : /\ out' = Append(out, f)
                                       /\ conceal' \in {conceal, 0} /\ last' \in {last, TRUE}
    BY <1>4
  <2>2. \A d \in {conceal, 0}, some \in {last, TRUE} : Invented(Append(out, f), d, some)
    BY <1>1, HandsMore
  <2> QED
    BY <2>1, <2>2
<1> QED
  BY <1>2, <1>3, <1>4 DEF Hands

-----------------------------------------------------------------------------
PlayedSafely ==
    /\ Stored /\ Ready
    /\ active \in {"playout", "passing"} => Ended
    /\ active = "playout" => Bounded /\ Len(buf) <= Capacity /\ Invented(out, conceal, last)

LEMMA PlaySound == PlayedSafely => PlayoutIsSound
<1> SUFFICES ASSUME PlayedSafely PROVE PlayoutIsSound
  OBVIOUS
<1>1. /\ loud \ dropped = (Units(buf) \cup Handed(out)) \cap loud
      /\ trimmed \cap loud = {}
      /\ \A i, j \in DOMAIN out : i < j => InTurn(out[i], out[j], loud)
      /\ \A i \in DOMAIN buf, u \in Handed(out) : buf[i] \in loud => u < buf[i]
  <2>1. PlayInv(buf, out, trimmed, written, loud, dropped)
    BY DEF PlayedSafely, Stored
  <2> QED
    BY <2>1, Sound
<1>2. ASSUME active = "playout" PROVE Playout!SpeechIsPlayed
  <2>1. \A f : Playout!ToSet(f) = Units(f) /\ (Playout!Quiet(f) <=> Silent(f, loud))
    BY DEF Playout!ToSet, Playout!Quiet, Units, Silent
  <2>2. Playout!Played = Handed(out)
    BY <2>1 DEF Playout!Played, Handed
  <2>3. \A i, j \in DOMAIN out : i < j =>
           \/ out[i] = out[j] /\ Playout!Quiet(out[i])
           \/ \A u \in Playout!ToSet(out[i]), v \in Playout!ToSet(out[j]) : u < v
    BY <1>1, <2>1 DEF InTurn
  <2>4. reader = "eof" => buf = <<>>
    BY <1>2 DEF PlayedSafely, Ended
  <2> QED
    BY <1>1, <2>1, <2>2, <2>3, <2>4 DEF Playout!SpeechIsPlayed
<1>3. ASSUME active = "passing" PROVE Passing!SpeechIsPlayed
  <2>1. \A f : Passing!ToSet(f) = Units(f) /\ (Passing!Quiet(f) <=> Silent(f, loud))
    BY DEF Passing!ToSet, Passing!Quiet, Units, Silent
  <2>2. Passing!Played = Handed(out)
    BY <2>1 DEF Passing!Played, Handed
  <2>3. \A i, j \in DOMAIN out : i < j =>
           \/ out[i] = out[j] /\ Passing!Quiet(out[i])
           \/ \A u \in Passing!ToSet(out[i]), v \in Passing!ToSet(out[j]) : u < v
    BY <1>1, <2>1 DEF InTurn
  <2>4. reader = "eof" => buf = <<>>
    BY <1>3 DEF PlayedSafely, Ended
  <2> QED
    BY <1>1, <2>1, <2>2, <2>3, <2>4 DEF Passing!SpeechIsPlayed
<1>4. ASSUME active = "polled" PROVE Polled!SpeechIsPlayed
  <2>1. \A f : Polled!ToSet(f) = Units(f) /\ (Polled!Quiet(f) <=> Silent(f, loud))
    BY DEF Polled!ToSet, Polled!Quiet, Units, Silent
  <2>2. Polled!Played = Handed(out)
    BY <2>1 DEF Polled!Played, Handed
  <2>3. \A i, j \in DOMAIN out : i < j =>
           \/ out[i] = out[j] /\ Polled!Quiet(out[i])
           \/ \A u \in Polled!ToSet(out[i]), v \in Polled!ToSet(out[j]) : u < v
    BY <1>1, <2>1 DEF InTurn
  <2> QED
    BY <1>1, <2>1, <2>2, <2>3 DEF Polled!SpeechIsPlayed
<1>5. ASSUME active = "playout" PROVE Playout!TypeOK
  <2>1. written \in 0..MaxUnits /\ (loud \cup dropped \cup trimmed) \subseteq 1..written
    BY <1>5 DEF PlayedSafely, Stored, PlayInv, Bounded
  <2>2. (loud \cup dropped \cup trimmed) \subseteq 1..MaxUnits
    BY <2>1, RemotesAssumption
  <2> QED
    BY <1>5, <2>1, <2>2 DEF PlayedSafely, Bounded, Playout!TypeOK
<1>6. ASSUME active = "playout" PROVE Playout!InventsLittle
  <2>1. out \in Seq(Seq(Nat)) /\ conceal \in 0..MaxConceal /\ Invented(out, conceal, last)
    BY <1>6 DEF PlayedSafely, Stored, PlayInv, Bounded
  <2> QED
    BY <2>1, Little DEF Playout!InventsLittle
<1> QED
  BY <1>2, <1>3, <1>4, <1>5, <1>6 DEF PlayoutIsSound

LEMMA PlayInit == Init => PlayedSafely
<1> SUFFICES ASSUME Init PROVE PlayedSafely
  OBVIOUS
<1>1. /\ buf = <<>> /\ out = <<>> /\ trimmed = {} /\ written = 0 /\ loud = {} /\ dropped = {}
      /\ closed = FALSE /\ last = FALSE /\ conceal = 0 /\ insert = 0 /\ reader = "idle"
  BY DEF Init, Playout!Init, Passing!Init
<1>0. warming \in BOOLEAN
  <2>1. warming = (Lead > 0) \/ warming = (0 > 0)
    BY DEF Init, Playout!Init, Passing!Init
  <2>2. (Lead > 0) \in BOOLEAN /\ (0 > 0) \in BOOLEAN
    BY RemotesAssumption
  <2> QED
    BY <2>1, <2>2, Zenon
<1>2. <<>> \in Seq(Nat) /\ <<>> \in Seq(Seq(Nat)) /\ Len(<<>>) = 0
  BY EmptySeq
<1>3. Stored
  BY <1>1, <1>2 DEF Stored, PlayInv
<1>4. Bounded /\ Len(buf) <= Capacity
  <2>1. {closed, warming, last} \subseteq BOOLEAN
    BY <1>0, <1>1
  <2>2. 0 \in 0..MaxConceal /\ 0 \in 0..MaxInsert /\ 0 \in 0..MaxUnits /\ 0 <= Capacity
    BY RemotesAssumption
  <2> QED
    BY <1>1, <1>2, <2>1, <2>2 DEF Bounded
<1>5. Invented(out, conceal, last)
  <2>1. Len(out) = 0 /\ 1..Len(out) = {} /\ last = FALSE
    BY <1>1, <1>2
  <2>2. ~(Len(out) >= 1)
    BY <2>1
  <2> QED
    BY <2>1, <2>2 DEF Invented, Counted
<1> QED
  BY <1>1, <1>3, <1>4, <1>5 DEF PlayedSafely, Ready, Ended

LEMMA PlayStep ==
    PlayedSafely /\ [Next]_<<active, liveKitVars, siprecVars, socketVars, playoutVars, peerVars, sourceVars>>
        => PlayedSafely'
<1> SUFFICES ASSUME PlayedSafely, active' = active,
                    \/ UNCHANGED playoutVars
                    \/ active = "playout" /\ Playout!Next
                    \/ active = "passing" /\ Passing!Next
                    \/ active = "polled" /\ Polled!Next
             PROVE  PlayedSafely'
  BY DEF Next
<1>1. CASE UNCHANGED playoutVars
  BY <1>1 DEF playoutVars, PlayedSafely, Stored, Ready, Ended, Bounded
<1>2. CASE active = "playout" /\ Playout!Next
  <2>1. Kept(Capacity) /\ Ended' /\ Stored
    BY <1>2, PlayoutKeeps, PlayoutEnds DEF PlayedSafely
  <2>2. Bounded /\ Bounded' /\ Len(buf) <= Capacity /\ Invented(out, conceal, last)
    BY <1>2, <2>1, PlayoutBounded, BufferIs DEF PlayedSafely
  <2>3. Invented(out', conceal', last')
    BY <2>1, <2>2, HandsCount DEF Kept
  <2>4. Len(buf') <= Capacity
    <3>1. Len(buf) \in Nat /\ Len(buf') \in Nat /\ Capacity \in Nat
      <4>1. buf' \in Seq(Nat)
        BY <2>1 DEF Kept, Stored, PlayInv
      <4>2. \A q \in Seq(Nat) : Len(q) \in Nat
        BY SeqFacts
      <4> QED
        BY <2>1, <4>1, <4>2, BufferIs, RemotesAssumption
    <3> QED
      BY <2>1, <2>2, <3>1 DEF Kept
  <2> QED
    BY <2>1, <2>2, <2>3, <2>4 DEF PlayedSafely, Kept
<1>3. CASE active = "passing" /\ Passing!Next
  <2>1. Kept(Frame + 1) /\ Ended'
    BY <1>3, PassingKeeps, PassingEnds DEF PlayedSafely
  <2> QED
    BY <1>3, <2>1 DEF PlayedSafely, Kept
<1>4. CASE active = "polled" /\ Polled!Next
  <2>1. Kept(Frame + 1)
    BY <1>4, PolledKeeps DEF PlayedSafely
  <2> QED
    BY <1>4, <2>1 DEF PlayedSafely, Kept
<1> QED
  BY <1>1, <1>2, <1>3, <1>4

(* Speech that a playout buffer accepted is played once and in order, or is    *)
(* waiting to be; only quiet frames are dropped or repeated, what is left at   *)
(* close is played before the end, and no more frames in a row are invented    *)
(* than the bound, with a lead, without one and polled (streambuf.go Write,    *)
(* Read, tryRead, drift.go).                                                   *)
THEOREM PlayoutStaysSound == Spec => []PlayoutIsSound
<1>1. Spec => [](PlayedSafely)
  BY PlayInit, PlayStep, PTL DEF Spec
<1> QED
  BY <1>1, PlaySound, PTL
=============================================================================
