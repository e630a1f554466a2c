---------------------------- MODULE SharedLemmas ----------------------------
(* Facts about numbers and sequences that several proofs rest on. *)
EXTENDS Integers, Sequences, SequenceTheorems, WellFoundedInduction, TLAPS

(* A set of natural numbers has a smallest element: what the searches of the *)
(* code (a free slot, the place in a queue) find.                            *)
LEMMA SmallestOf ==
  ASSUME NEW T \in SUBSET Nat, T # {}
  PROVE  \E x \in T : \A y \in T : x <= y
  <1> DEFINE less == {ss \in Nat \X Nat : ss[1] < ss[2]}
  <1>1. \E x \in T : \A y \in T : ~(<<y, x>> \in OpToRel(<, Nat))
    BY WFMin, NatLessThanWellFounded, Zenon
  <1>2. OpToRel(<, Nat) = less
    BY Zenon DEF OpToRel
  <1>3. PICK x \in T : \A y \in T : <<y, x>> \notin less
    BY <1>1, <1>2
  <1>4. \A y \in T : x <= y
    <2> TAKE y \in T
    <2>1. <<y, x>> \notin less
      BY <1>3
    <2> QED
      BY <2>1
  <1> QED
    BY <1>4
-----------------------------------------------------------------------------
(* The places of a sequence that another was put behind.                     *)
LEMMA ConcatParts ==
  ASSUME NEW S, NEW s \in Seq(S), NEW t \in Seq(S)
  PROVE  /\ s \o t \in Seq(S) /\ Len(s \o t) = Len(s) + Len(t)
         /\ \A i \in DOMAIN s : i \in DOMAIN (s \o t) /\ (s \o t)[i] = s[i]
         /\ \A j \in DOMAIN t : Len(s) + j \in DOMAIN (s \o t) /\ (s \o t)[Len(s) + j] = t[j]
         /\ \A i \in DOMAIN (s \o t) :
              \/ i \in DOMAIN s /\ (s \o t)[i] = s[i]
              \/ i - Len(s) \in DOMAIN t /\ i > Len(s) /\ (s \o t)[i] = t[i - Len(s)]
  <1> DEFINE u == s \o t
  <1>1. /\ u \in Seq(S) /\ Len(u) = Len(s) + Len(t)
        /\ \A i \in 1 .. Len(s) + Len(t) : u[i] = IF i <= Len(s) THEN s[i] ELSE t[i - Len(s)]
    OBVIOUS
  <1>2. /\ Len(s) \in Nat /\ Len(t) \in Nat /\ DOMAIN s = 1 .. Len(s) /\ DOMAIN t = 1 .. Len(t)
    OBVIOUS
  <1> HIDE DEF u
  <1>3. DOMAIN u = 1 .. Len(s) + Len(t)
    BY <1>1
  <1>4. ASSUME NEW i \in 1 .. Len(s)
        PROVE  i \in 1 .. Len(s) + Len(t) /\ i <= Len(s)
    BY <1>2
  <1>5. ASSUME NEW j \in 1 .. Len(t)
        PROVE  /\ Len(s) + j \in 1 .. Len(s) + Len(t) /\ ~(Len(s) + j <= Len(s))
               /\ (Len(s) + j) - Len(s) = j
    BY <1>2
  <1>6. ASSUME NEW i \in 1 .. Len(s) + Len(t)
        PROVE  \/ i \in 1 .. Len(s) /\ i <= Len(s)
               \/ i - Len(s) \in 1 .. Len(t) /\ i > Len(s) /\ ~(i <= Len(s))
    BY <1>2
  <1> QED
    BY <1>1, <1>2, <1>3, <1>4, <1>5, <1>6 DEF u

LEMMA AppendParts ==
  ASSUME NEW S, NEW s \in Seq(S), NEW x \in S
  PROVE  /\ Append(s, x) \in Seq(S) /\ Len(Append(s, x)) = Len(s) + 1
         /\ Len(s) + 1 \in DOMAIN Append(s, x) /\ Append(s, x)[Len(s) + 1] = x
         /\ \A i \in DOMAIN s : i \in DOMAIN Append(s, x) /\ Append(s, x)[i] = s[i] /\ i <= Len(s)
         /\ \A i \in DOMAIN Append(s, x) :
              \/ i \in DOMAIN s /\ Append(s, x)[i] = s[i]
              \/ i = Len(s) + 1 /\ Append(s, x)[i] = x
  OBVIOUS

LEMMA TailParts ==
  ASSUME NEW S, NEW s \in Seq(S), s # <<>>
  PROVE  /\ Head(s) \in S /\ Head(s) = s[1] /\ 1 \in DOMAIN s
         /\ Tail(s) \in Seq(S) /\ Len(Tail(s)) = Len(s) - 1
         /\ \A i \in DOMAIN Tail(s) : i + 1 \in DOMAIN s /\ Tail(s)[i] = s[i + 1]
         /\ \A i \in DOMAIN s :
              \/ i = 1
              \/ i - 1 \in DOMAIN Tail(s) /\ Tail(s)[i - 1] = s[i]
  <1> DEFINE t == Tail(s)
  <1>1. Len(s) \in Nat \ {0} /\ DOMAIN s = 1 .. Len(s)
    OBVIOUS
  <1>2. Head(s) \in S /\ Head(s) = s[1]
    BY <1>1
  <1>3. /\ t \in Seq(S) /\ Len(t) = Len(s) - 1
        /\ \A i \in 1 .. Len(s) - 1 : t[i] = s[i + 1]
    BY <1>1
  <1>4. DOMAIN t = 1 .. Len(s) - 1
    BY <1>3
  <1> HIDE DEF t
  <1>5. ASSUME NEW i \in 1 .. Len(s) - 1
        PROVE  i + 1 \in 1 .. Len(s)
    BY <1>1
  <1>6. ASSUME NEW i \in 1 .. Len(s), i # 1
        PROVE  i - 1 \in 1 .. Len(s) - 1 /\ t[i - 1] = s[i]
    <2>1. i - 1 \in 1 .. Len(s) - 1 /\ (i - 1) + 1 = i
      BY <1>1, <1>6
    <2> QED
      BY <1>3, <2>1
  <1>7. 1 \in DOMAIN s
    BY <1>1
  <1> QED
    BY <1>1, <1>2, <1>3, <1>4, <1>5, <1>6, <1>7 DEF t

(* What is left of a list of segments when k bytes of the first are gone, as *)
(* lws_buflist_use_segment leaves it: no segment of it is empty.             *)
LEMMA FrontUsed ==
  ASSUME NEW S, NEW list \in Seq(Seq(S)), list # <<>>,
         \A i \in DOMAIN list : list[i] # <<>>, NEW k \in 0 .. Len(Head(list))
  PROVE  LET rest == SubSeq(Head(list), k + 1, Len(Head(list)))
             left == IF k = Len(Head(list)) THEN Tail(list) ELSE <<rest>> \o Tail(list)
         IN /\ SubSeq(Head(list), 1, k) \in Seq(S)
            /\ left \in Seq(Seq(S)) /\ \A i \in DOMAIN left : left[i] # <<>>
  <1> DEFINE seg  == Head(list)
             more == Tail(list)
             rest == SubSeq(seg, k + 1, Len(seg))
  <1>1. /\ seg \in Seq(S) /\ more \in Seq(Seq(S))
        /\ \A i \in DOMAIN more : more[i] # <<>>
    BY TailParts
  <1> HIDE DEF seg, more
  <1>2. k \in 0 .. Len(seg)
    BY DEF seg
  <1>3. SubSeq(seg, 1, k) \in Seq(S) /\ rest \in Seq(S) /\ Len(rest) = Len(seg) - k
    <2>1. Len(seg) \in Nat /\ \A i \in 1 .. Len(seg) : seg[i] \in S
      BY <1>1
    <2>2. /\ \A i \in 1 .. k : i \in 1 .. Len(seg)
          /\ \A i \in k + 1 .. Len(seg) : i \in 1 .. Len(seg)
      BY <1>2, <2>1
    <2>3. SubSeq(seg, 1, k) \in Seq(S)
      BY <1>2, <2>1, <2>2, SubSeqProperties
    <2>4. /\ rest \in Seq(S)
          /\ Len(rest) = IF k + 1 <= Len(seg) THEN Len(seg) - (k + 1) + 1 ELSE 0
      <3>1. k + 1 \in Int /\ Len(seg) \in Int
        BY <1>2, <2>1
      <3> QED
        BY <2>1, <2>2, <3>1, SubSeqProperties
    <2>5. Len(rest) = Len(seg) - k
      BY <1>2, <2>1, <2>4
    <2> QED
      BY <2>3, <2>4, <2>5
  <1>4. CASE k = Len(seg)
    BY <1>1, <1>3, <1>4 DEF seg, more
  <1>5. CASE k # Len(seg)
    <2>1. rest # <<>>
      <3>1. Len(rest) # 0
        BY <1>1, <1>2, <1>3, <1>5
      <3>2. Len(<<>>) = 0
        OBVIOUS
      <3> QED
        BY <3>1, <3>2
    <2>2. <<rest>> \in Seq(Seq(S)) /\ DOMAIN <<rest>> = {1} /\ <<rest>>[1] = rest
      BY <1>3
    <2> HIDE DEF rest
    <2>3. /\ <<rest>> \o more \in Seq(Seq(S))
          /\ \A i \in DOMAIN (<<rest>> \o more) :
               \/ i \in DOMAIN <<rest>> /\ (<<rest>> \o more)[i] = <<rest>>[i]
               \/ i - Len(<<rest>>) \in DOMAIN more
                    /\ (<<rest>> \o more)[i] = more[i - Len(<<rest>>)]
      BY <1>1, <2>2, ConcatParts
    <2>4. \A i \in DOMAIN (<<rest>> \o more) : (<<rest>> \o more)[i] # <<>>
      BY <1>1, <2>1, <2>2, <2>3
    <2> QED
      BY <1>3, <1>5, <2>3, <2>4 DEF seg, more, rest
  <1> QED
    BY <1>4, <1>5
============================================================================
