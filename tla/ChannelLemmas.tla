---------------------------- MODULE ChannelLemmas ----------------------------
(***************************************************************************)
(* Facts about sequences as channels: a sequence is what a channel holds,  *)
(* oldest first, or a log of what went through it.                         *)
(***************************************************************************)
EXTENDS SequencesExt, SequenceTheorems, FiniteSetTheorems, TLAPS

\* What a send appends and a receive takes.
LEMMA AppendSeq ==
  ASSUME NEW S, NEW s \in Seq(S), NEW x \in S
  PROVE  /\ Append(s, x) \in Seq(S)
         /\ Len(Append(s, x)) = Len(s) + 1
         /\ Append(s, x) = s \o <<x>>
OBVIOUS

LEMMA TailSeq ==
  ASSUME NEW S, NEW s \in Seq(S), s # <<>>
  PROVE  /\ Head(s) \in S
         /\ Tail(s) \in Seq(S)
         /\ Len(Tail(s)) = Len(s) - 1
         /\ Len(Tail(s)) < Len(s)
         /\ s = <<Head(s)>> \o Tail(s)
BY HeadTailProperties, LenProperties, EmptySeq

\* A receive that is logged leaves log and channel together as they were.
LEMMA MoveHead ==
  ASSUME NEW S, NEW d \in Seq(S), NEW b \in Seq(S), b # <<>>
  PROVE  Append(d, Head(b)) \o Tail(b) = d \o b
<1>1. Head(b) \in S /\ Tail(b) \in Seq(S) /\ b = <<Head(b)>> \o Tail(b)
    BY TailSeq
<1>2. Append(d, Head(b)) = d \o <<Head(b)>>
    BY <1>1, AppendSeq
<1>3. <<Head(b)>> \in Seq(S)
    BY <1>1
<1> QED
    BY <1>1, <1>2, <1>3, ConcatAssociative

\* A send behind the channel is a send behind log and channel together.
LEMMA AppendRight ==
  ASSUME NEW S, NEW d \in Seq(S), NEW b \in Seq(S), NEW x \in S
  PROVE  d \o Append(b, x) = Append(d \o b, x)
<1>1. d \o b \in Seq(S) /\ <<x>> \in Seq(S)
    BY ConcatProperties
<1>2. Append(d \o b, x) = (d \o b) \o <<x>> /\ Append(b, x) = b \o <<x>>
    BY <1>1, AppendSeq
<1> QED
    BY <1>1, <1>2, ConcatAssociative

\* A goroutine that leaves a queue of waiters.
LEMMA RemoveAtType ==
  ASSUME NEW S, NEW s \in Seq(S), NEW i \in 1..Len(s)
  PROVE  RemoveAt(s, i) \in Seq(S)
<1>1. Len(s) \in Nat /\ \A j \in 1..Len(s) : s[j] \in S
    BY LenProperties, ElementOfSeq
<1>2. SubSeq(s, 1, i-1) \in Seq(S) /\ SubSeq(s, i+1, Len(s)) \in Seq(S)
    BY <1>1, SubSeqProperties
<1> QED
    BY <1>2, ConcatProperties DEF RemoveAt

\* Who is in a queue of waiters after somebody has come, been served or left.
LEMMA ToSetAppend ==
  ASSUME NEW S, NEW s \in Seq(S), NEW x \in S
  PROVE  ToSet(Append(s, x)) = ToSet(s) \cup {x}
<1>1. /\ DOMAIN s = 1..Len(s) /\ DOMAIN Append(s, x) = 1..Len(s) + 1 /\ Len(s) \in Nat
      /\ \A i \in 1..Len(s) : Append(s, x)[i] = s[i]
      /\ Append(s, x)[Len(s) + 1] = x
    BY AppendProperties, LenProperties
<1>2. \A i : i \in 1..Len(s) + 1 <=> i \in 1..Len(s) \/ i = Len(s) + 1
    BY <1>1
<1> QED
    BY <1>1, <1>2 DEF ToSet

LEMMA ToSetTail ==
  ASSUME NEW S, NEW s \in Seq(S), s # <<>>, NEW x \in ToSet(s), x # Head(s)
  PROVE  x \in ToSet(Tail(s))
<1>0. /\ Tail(s) \in Seq(S) /\ Head(s) = s[1] /\ Len(Tail(s)) = Len(s) - 1
      /\ \A i \in 1..Len(Tail(s)) : Tail(s)[i] = s[i + 1]
    BY HeadTailProperties, TailSeq
<1>1. DOMAIN s = 1..Len(s) /\ Len(s) \in Nat /\ DOMAIN Tail(s) = 1..Len(Tail(s))
    BY <1>0, LenProperties
<1>2. PICK i \in 1..Len(s) : x = s[i]
    BY <1>1 DEF ToSet
<1>3. i # 1
    BY <1>0, <1>2
<1>4. i - 1 \in 1..Len(Tail(s)) /\ (i - 1) + 1 = i
    BY <1>0, <1>1, <1>3
<1>5. Tail(s)[i - 1] = s[(i - 1) + 1]
    BY <1>0, <1>4
<1>6. x = Tail(s)[i - 1]
    BY <1>2, <1>4, <1>5
<1> QED
    BY <1>1, <1>4, <1>6 DEF ToSet

\* What is left when the entry at i is taken out.
LEMMA RemoveAtEntries ==
  ASSUME NEW S, NEW s \in Seq(S), NEW i \in 1..Len(s)
  PROVE  /\ DOMAIN RemoveAt(s, i) = 1..Len(s) - 1
         /\ \A k \in 1..Len(s) - 1 : RemoveAt(s, i)[k] = IF k <= i - 1 THEN s[k] ELSE s[k + 1]
<1> DEFINE a == SubSeq(s, 1, i - 1)
           b == SubSeq(s, i + 1, Len(s))
<1>1. DOMAIN s = 1..Len(s) /\ Len(s) \in Nat /\ \A j \in 1..Len(s) : s[j] \in S
    BY LenProperties, ElementOfSeq
<1>3. /\ a \in Seq(S) /\ Len(a) = i - 1 /\ \A k \in 1..i - 1 : a[k] = s[k]
      /\ b \in Seq(S) /\ Len(b) = Len(s) - i /\ \A k \in 1..Len(s) - i : b[k] = s[i + k]
    <2>1. /\ 1 \in Int /\ i - 1 \in Int /\ i + 1 \in Int /\ Len(s) \in Int
          /\ \A k \in 1..i - 1 : s[k] \in S
          /\ \A k \in i + 1..Len(s) : s[k] \in S
        BY <1>1
    <2>2. /\ a \in Seq(S)
          /\ Len(a) = IF 1 <= i - 1 THEN (i - 1) - 1 + 1 ELSE 0
          /\ \A k \in 1..(i - 1) - 1 + 1 : a[k] = s[1 + k - 1]
        BY <1>1, <2>1, SubSeqProperties
    <2>3. /\ b \in Seq(S)
          /\ Len(b) = IF i + 1 <= Len(s) THEN Len(s) - (i + 1) + 1 ELSE 0
          /\ \A k \in 1..Len(s) - (i + 1) + 1 : b[k] = s[(i + 1) + k - 1]
        BY <1>1, <2>1, SubSeqProperties
    <2> HIDE DEF a, b
    <2>4. /\ (i - 1) - 1 + 1 = i - 1 /\ \A k \in 1..i - 1 : 1 + k - 1 = k
          /\ Len(a) = i - 1
        BY <1>1, <2>2
    <2>5. /\ Len(s) - (i + 1) + 1 = Len(s) - i
          /\ \A k \in 1..Len(s) - i : (i + 1) + k - 1 = i + k
        BY <1>1
    <2>6. Len(b) = Len(s) - i
        <3>1. Len(b) = IF i + 1 <= Len(s) THEN Len(s) - (i + 1) + 1 ELSE 0
            BY <2>3
        <3>2. Len(s) \in Nat /\ i \in Nat /\ i <= Len(s)
            BY <1>1
        <3>3. CASE i + 1 <= Len(s)
            BY <3>1, <3>2, <3>3
        <3>4. CASE ~(i + 1 <= Len(s))
            BY <3>1, <3>2, <3>4
        <3> QED
            BY <3>3, <3>4
    <2> QED
        BY <2>2, <2>3, <2>4, <2>5, <2>6
<1> HIDE DEF a, b
<1>4. /\ DOMAIN (a \o b) = 1..Len(s) - 1
      /\ \A k \in 1..Len(s) - 1 : (a \o b)[k] = IF k <= i - 1 THEN s[k] ELSE s[k + 1]
    <2>1. /\ Len(a \o b) = Len(a) + Len(b) /\ a \o b \in Seq(S)
          /\ \A k \in 1..Len(a) + Len(b) :
               (a \o b)[k] = IF k <= Len(a) THEN a[k] ELSE b[k - Len(a)]
        BY <1>3, ConcatProperties
    <2>2. DOMAIN (a \o b) = 1..Len(s) - 1
        <3>1. DOMAIN (a \o b) = 1..Len(a \o b)
            BY <2>1, LenProperties
        <3>2. Len(a \o b) = Len(s) - 1
            BY <1>1, <1>3, <2>1
        <3> QED
            BY <3>1, <3>2
    <2>3. ASSUME NEW k \in 1..Len(s) - 1
          PROVE  (a \o b)[k] = IF k <= i - 1 THEN s[k] ELSE s[k + 1]
        <3>1. (a \o b)[k] = IF k <= i - 1 THEN a[k] ELSE b[k - (i - 1)]
            BY <1>1, <1>3, <2>1
        <3>2. CASE k <= i - 1
            BY <1>1, <1>3, <3>1, <3>2
        <3>3. CASE ~(k <= i - 1)
            <4>1. k - (i - 1) \in 1..Len(s) - i /\ i + (k - (i - 1)) = k + 1
                BY <1>1, <3>3
            <4>2. b[k - (i - 1)] = s[i + (k - (i - 1))]
                BY <1>3, <4>1
            <4> QED
                BY <3>1, <3>3, <4>1, <4>2
        <3> QED
            BY <3>2, <3>3
    <2> QED
        BY <2>2, <2>3
<1> QED
    BY <1>4 DEF RemoveAt, a, b

LEMMA ToSetRemoveAt ==
  ASSUME NEW S, NEW s \in Seq(S), NEW i \in 1..Len(s), NEW x \in ToSet(s), x # s[i]
  PROVE  x \in ToSet(RemoveAt(s, i))
<1>1. DOMAIN s = 1..Len(s) /\ Len(s) \in Nat
    BY LenProperties
<1>2. PICK j \in 1..Len(s) : x = s[j]
    BY <1>1 DEF ToSet
<1>3. j # i
    BY <1>2
<1> DEFINE t == RemoveAt(s, i)
<1>4. /\ DOMAIN t = 1..Len(s) - 1
      /\ \A k \in 1..Len(s) - 1 : t[k] = IF k <= i - 1 THEN s[k] ELSE s[k + 1]
    BY RemoveAtEntries
<1> HIDE DEF t
<1>5. \E k \in 1..Len(s) - 1 : t[k] = x
    <2>1. CASE j < i
        <3>1. j \in 1..Len(s) - 1 /\ j <= i - 1
            BY <1>1, <2>1
        <3> QED
            BY <1>2, <1>4, <3>1
    <2>2. CASE j > i
        <3>1. j - 1 \in 1..Len(s) - 1 /\ ~(j - 1 <= i - 1) /\ (j - 1) + 1 = j
            BY <1>1, <2>2
        <3>2. t[j - 1] = s[(j - 1) + 1]
            BY <1>4, <3>1
        <3> QED
            BY <1>2, <3>1, <3>2
    <2>3. j < i \/ j > i
        BY <1>1, <1>3
    <2> QED
        BY <2>1, <2>2, <2>3
<1> QED
    BY <1>4, <1>5 DEF ToSet, t

-----------------------------------------------------------------------------
(* Channels that hold nothing twice.                                         *)

LEMMA SendOnce ==
  ASSUME NEW S, NEW s \in Seq(S), NEW x \in S, IsInjective(s), x \notin ToSet(s)
  PROVE  IsInjective(Append(s, x))
<1>1. /\ DOMAIN s = 1..Len(s) /\ DOMAIN Append(s, x) = 1..Len(s) + 1 /\ Len(s) \in Nat
      /\ \A i \in 1..Len(s) : Append(s, x)[i] = s[i]
      /\ Append(s, x)[Len(s) + 1] = x
    BY AppendProperties, LenProperties
<1>2. \A i \in 1..Len(s) + 1 : i \in 1..Len(s) \/ i = Len(s) + 1
    BY <1>1
<1>3. \A i \in 1..Len(s) : s[i] # x
    BY <1>1 DEF ToSet
<1> QED
    BY <1>1, <1>2, <1>3 DEF IsInjective

LEMMA ReceiveOnce ==
  ASSUME NEW S, NEW s \in Seq(S), s # <<>>, IsInjective(s)
  PROVE  /\ IsInjective(Tail(s))
         /\ Head(s) \in ToSet(s)
         /\ ToSet(Tail(s)) = ToSet(s) \ {Head(s)}
<1>1. /\ DOMAIN s = 1..Len(s) /\ DOMAIN Tail(s) = 1..Len(s) - 1 /\ Len(s) \in Nat
      /\ Len(s) >= 1 /\ Head(s) = s[1]
      /\ \A i \in 1..Len(s) - 1 : Tail(s)[i] = s[i + 1]
    <2>1. /\ Tail(s) \in Seq(S) /\ Head(s) = s[1] /\ Len(Tail(s)) = Len(s) - 1
          /\ \A i \in 1..Len(Tail(s)) : Tail(s)[i] = s[i + 1]
        BY HeadTailProperties, TailSeq
    <2> QED
        BY <2>1, LenProperties, EmptySeq
<1>2. \A i \in 1..Len(s) - 1 : i + 1 \in 1..Len(s) /\ i + 1 # 1
    BY <1>1
<1>3. \A i \in 1..Len(s) : i # 1 => i - 1 \in 1..Len(s) - 1 /\ (i - 1) + 1 = i
    BY <1>1
<1>4. 1 \in 1..Len(s)
    BY <1>1
<1>5. IsInjective(Tail(s))
    <2> SUFFICES ASSUME NEW i \in 1..Len(s) - 1, NEW j \in 1..Len(s) - 1,
                        Tail(s)[i] = Tail(s)[j]
                 PROVE  i = j
        BY <1>1 DEF IsInjective
    <2>1. s[i + 1] = s[j + 1]
        BY <1>1
    <2>2. i + 1 = j + 1
        BY <1>1, <1>2, <2>1 DEF IsInjective
    <2> QED
        BY <2>2
<1>6. ASSUME NEW x \in ToSet(Tail(s)) PROVE x \in ToSet(s) \ {Head(s)}
    <2>1. PICK i \in 1..Len(s) - 1 : x = s[i + 1]
        BY <1>1 DEF ToSet
    <2>2. i + 1 \in DOMAIN s /\ 1 \in DOMAIN s /\ i + 1 # 1
        BY <1>1, <1>2, <1>4
    <2>3. s[i + 1] # s[1]
        BY <2>2 DEF IsInjective
    <2> QED
        BY <1>1, <2>1, <2>2, <2>3 DEF ToSet
<1>7. Head(s) \in ToSet(s)
    BY <1>1, <1>4 DEF ToSet
<1> QED
    BY <1>5, <1>6, <1>7, ToSetTail
LEMMA LeaveOnce ==
  ASSUME NEW S, NEW s \in Seq(S), NEW i \in 1..Len(s), IsInjective(s)
  PROVE  /\ IsInjective(RemoveAt(s, i))
         /\ ToSet(RemoveAt(s, i)) = ToSet(s) \ {s[i]}
<1> DEFINE t == RemoveAt(s, i)
           from(k) == IF k <= i - 1 THEN k ELSE k + 1
<1>1. DOMAIN s = 1..Len(s) /\ Len(s) \in Nat
    BY LenProperties
<1>2. /\ DOMAIN t = 1..Len(s) - 1
      /\ \A k \in 1..Len(s) - 1 : t[k] = IF k <= i - 1 THEN s[k] ELSE s[k + 1]
    BY RemoveAtEntries
<1> HIDE DEF t
<1>3. \A k \in 1..Len(s) - 1 : from(k) \in 1..Len(s) /\ from(k) # i /\ t[k] = s[from(k)]
    BY <1>1, <1>2
<1>4. \A k, l \in 1..Len(s) - 1 : from(k) = from(l) => k = l
    BY <1>1
<1> HIDE DEF from
<1>5. IsInjective(t)
    BY <1>1, <1>2, <1>3, <1>4 DEF IsInjective
<1>6. ASSUME NEW x \in ToSet(t) PROVE x \in ToSet(s) \ {s[i]}
    <2>1. PICK k \in 1..Len(s) - 1 : x = t[k]
        BY <1>2 DEF ToSet
    <2>2. from(k) \in DOMAIN s /\ i \in DOMAIN s /\ from(k) # i /\ x = s[from(k)]
        BY <1>1, <1>3, <2>1
    <2>3. s[from(k)] # s[i]
        BY <2>2 DEF IsInjective
    <2> QED
        BY <2>2, <2>3 DEF ToSet
<1>7. ASSUME NEW x \in ToSet(s) \ {s[i]} PROVE x \in ToSet(t)
    BY <1>7, ToSetRemoveAt DEF t
<1> QED
    BY <1>5, <1>6, <1>7 DEF t
-----------------------------------------------------------------------------
(* Logs.  What several logs hold is counted entry by entry.                  *)

LEMMA LogGrows ==
  ASSUME NEW Q, NEW S, NEW log \in [Q -> Seq(S)], NEW q \in Q, NEW x \in S
  PROVE  /\ UNION {{r} \X DOMAIN [log EXCEPT ![q] = Append(@, x)][r] : r \in Q}
              = (UNION {{r} \X DOMAIN log[r] : r \in Q}) \cup {<<q, Len(log[q]) + 1>>}
         /\ <<q, Len(log[q]) + 1>> \notin UNION {{r} \X DOMAIN log[r] : r \in Q}
<1> DEFINE new == [log EXCEPT ![q] = Append(@, x)]
<1>1. \A r \in Q : DOMAIN log[r] = 1..Len(log[r]) /\ Len(log[r]) \in Nat
    BY LenProperties
<1>2. DOMAIN Append(log[q], x) = 1..Len(log[q]) + 1
    BY AppendProperties, LenProperties
<1>3. /\ DOMAIN new[q] = DOMAIN log[q] \cup {Len(log[q]) + 1}
      /\ \A r \in Q \ {q} : new[r] = log[r]
      /\ Len(log[q]) + 1 \notin DOMAIN log[q]
    <2>1. new[q] = Append(log[q], x)
        OBVIOUS
    <2>2. 1..Len(log[q]) + 1 = 1..Len(log[q]) \cup {Len(log[q]) + 1}
        BY <1>1
    <2> QED
        BY <1>1, <1>2, <2>1, <2>2
<1> HIDE DEF new
<1>4. ASSUME NEW e PROVE e \in UNION {{r} \X DOMAIN new[r] : r \in Q}
                         <=> \E r \in Q : \E i \in DOMAIN new[r] : e = <<r, i>>
    OBVIOUS
<1>5. ASSUME NEW e PROVE e \in UNION {{r} \X DOMAIN log[r] : r \in Q}
                         <=> \E r \in Q : \E i \in DOMAIN log[r] : e = <<r, i>>
    OBVIOUS
<1>6. UNION {{r} \X DOMAIN new[r] : r \in Q}
        = (UNION {{r} \X DOMAIN log[r] : r \in Q}) \cup {<<q, Len(log[q]) + 1>>}
    <2>1. ASSUME NEW e
          PROVE  (\E r \in Q : \E i \in DOMAIN new[r] : e = <<r, i>>)
                   <=> (\E r \in Q : \E i \in DOMAIN log[r] : e = <<r, i>>)
                       \/ e = <<q, Len(log[q]) + 1>>
        BY <1>3
    <2> QED
        BY <1>4, <1>5, <2>1
<1>7. <<q, Len(log[q]) + 1>> \notin UNION {{r} \X DOMAIN log[r] : r \in Q}
    BY <1>3, <1>5
<1> QED
    BY <1>6, <1>7 DEF new
=============================================================================
