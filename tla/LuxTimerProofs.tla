----------------------------- MODULE LuxTimerProofs -----------------------------
(***************************************************************************)
(* The timer, for any number of subscribers, any periods and any length of *)
(* time: its tree holds each of them at most once, ordered by deadline,    *)
(* and only open ones, and it implements AlarmService.  With a lone        *)
(* subscriber, its alarm is never forgotten but in one race.               *)
(***************************************************************************)
EXTENDS LuxTimer, FiniteSetTheorems, FunctionTheorems, SequenceTheorems,
        WellFoundedInduction, TLAPS

(***************************************************************************)
(* What holds at 0 and fails somewhere has a last place where it holds     *)
(* before that.                                                            *)
(***************************************************************************)
LEMMA LeastOutside ==
  ASSUME NEW T, NEW n \in Nat, n \notin T
  PROVE  \E m \in 0 .. n : m \notin T /\ \A j \in 0 .. (m - 1) : j \in T
<1> DEFINE C == {m \in Nat : m \notin T}
           R == {ss \in Nat \X Nat : ss[1] < ss[2]}
<1>1. IsWellFoundedOn(R, Nat)
  BY NatLessThanWellFounded, Zenon DEF OpToRel
<1>2. \E m \in C : \A j \in C : <<j, m>> \notin R
  <2> C \subseteq Nat /\ C # {}
    OBVIOUS
  <2> HIDE DEF C, R
  <2> QED
    BY <1>1, WFMin
<1>3. PICK m \in C : \A j \in C : <<j, m>> \notin R
  BY <1>2
<1>4. ASSUME NEW j \in C PROVE m <= j
  <2>1. m \in Nat /\ j \in Nat /\ <<j, m>> \in Nat \X Nat
    BY <1>3
  <2>2. ~(j < m)
    BY <1>3, <2>1
  <2>3. QED
    BY <2>1, <2>2
<1>5. m \in Nat /\ m \notin T /\ m <= n
  BY <1>4
<1>6. \A j \in 0 .. (m - 1) : j \in T
  BY <1>4, <1>5
<1>7. QED
  BY <1>5, <1>6

\* A set of numbers from 1 on, without gaps, is an interval.
LEMMA WithoutGaps ==
  ASSUME NEW n \in Nat, NEW D, D \subseteq 1 .. n, \A i \in D : \A j \in 1 .. i : j \in D
  PROVE  Cardinality(D) \in 0 .. n /\ D = 1 .. Cardinality(D)
<1> DEFINE T == {m \in Nat : m + 1 \in D}
<1>1. n \notin T
  OBVIOUS
<1>2. \E m \in 0 .. n : m \notin T /\ \A j \in 0 .. (m - 1) : j \in T
  <2> HIDE DEF T
  <2> QED
    BY <1>1, LeastOutside
<1>3. PICK m \in 0 .. n : m \notin T /\ \A j \in 0 .. (m - 1) : j \in T
  BY <1>2
<1>4. m + 1 \notin D
  BY <1>3
<1>5. ASSUME NEW j \in 1 .. m PROVE j \in D
  <2>1. j - 1 \in T
    BY <1>3
  <2>2. QED
    BY <2>1
<1>6. ASSUME NEW j \in D PROVE j \in 1 .. m
  BY <1>4, <1>6
<1>7. D = 1 .. m
  BY <1>5, <1>6
<1>8. Cardinality(1 .. m) = m
  BY FS_Interval
<1>9. QED
  BY <1>7, <1>8
-----------------------------------------------------------------------------
(***************************************************************************)
(* One node more or less in a queue.                                       *)
(***************************************************************************)
Wider(queue, k, e, wider) ==
  /\ Len(wider) = Len(queue) + 1
  /\ \A i \in 1 .. Len(wider) :
       wider[i] = IF i <= k THEN queue[i] ELSE IF i = k + 1 THEN e ELSE queue[i - 1]

LEMMA Inserted ==
  ASSUME NEW S, NEW queue \in Seq(S), NEW k \in 0 .. Len(queue), NEW e \in S
  PROVE  InsertAt(queue, k + 1, e) \in Seq(S) /\ Wider(queue, k, e, InsertAt(queue, k + 1, e))
<1>1. PICK n : n = Len(queue)
  OBVIOUS
<1>2. n \in Nat /\ k \in 0 .. n /\ \A i \in 1 .. n : queue[i] \in S
  BY <1>1, LenProperties
<1>3. PICK left, right, one : /\ left = SubSeq(queue, 1, k) /\ one = <<e>>
                              /\ right = SubSeq(queue, k + 1, n)
  OBVIOUS
<1>4. left \in Seq(S) /\ Len(left) = k /\ \A i \in 1 .. k : left[i] = queue[i]
  <2>1. k \in Int /\ 1 \in Int /\ \A i \in 1 .. k : queue[i] \in S
    BY <1>2
  <2>2. /\ SubSeq(queue, 1, k) \in Seq(S)
        /\ Len(SubSeq(queue, 1, k)) = IF 1 <= k THEN k - 1 + 1 ELSE 0
        /\ \A i \in 1 .. k - 1 + 1 : SubSeq(queue, 1, k)[i] = queue[1 + i - 1]
    BY <2>1, SubSeqProperties
  <2>3. k - 1 + 1 = k /\ \A i \in 1 .. k : 1 + i - 1 = i
    BY <2>1
  <2>4. QED
    BY <1>2, <1>3, <2>2, <2>3
<1>5. right \in Seq(S) /\ Len(right) = n - k /\ \A i \in 1 .. (n - k) : right[i] = queue[k + i]
  <2>1. k + 1 \in Int /\ n \in Int /\ \A i \in k + 1 .. n : queue[i] \in S
    BY <1>2
  <2>2. /\ SubSeq(queue, k + 1, n) \in Seq(S)
        /\ Len(SubSeq(queue, k + 1, n)) = IF k + 1 <= n THEN n - (k + 1) + 1 ELSE 0
        /\ \A i \in 1 .. n - (k + 1) + 1 : SubSeq(queue, k + 1, n)[i] = queue[k + 1 + i - 1]
    BY <2>1, SubSeqProperties
  <2>3. n - (k + 1) + 1 = n - k /\ \A i \in 1 .. (n - k) : k + 1 + i - 1 = k + i
    BY <1>2
  <2>4. QED
    BY <1>2, <1>3, <2>2, <2>3
<1>6. one \in Seq(S) /\ Len(one) = 1 /\ one[1] = e
  BY <1>3
<1>7. PICK most : most = left \o one
  OBVIOUS
<1>8. /\ most \in Seq(S) /\ Len(most) = k + 1
      /\ \A i \in 1 .. (k + 1) : most[i] = IF i <= k THEN queue[i] ELSE e
  <2>1. /\ most \in Seq(S) /\ Len(most) = Len(left) + Len(one)
        /\ \A i \in 1 .. Len(left) + Len(one) :
             most[i] = IF i <= Len(left) THEN left[i] ELSE one[i - Len(left)]
    BY <1>4, <1>6, <1>7, ConcatProperties
  <2>2. \A i \in 1 .. (k + 1) : most[i] = IF i <= k THEN left[i] ELSE one[i - k]
    BY <1>4, <1>6, <2>1
  <2>3. QED
    BY <1>2, <1>4, <1>6, <2>1, <2>2
<1>9. PICK all : all = most \o right
  OBVIOUS
<1>10. /\ all \in Seq(S) /\ Len(all) = n + 1
       /\ \A i \in 1 .. (n + 1) :
            all[i] = IF i <= k THEN queue[i] ELSE IF i = k + 1 THEN e ELSE queue[i - 1]
  <2>1. /\ all \in Seq(S) /\ Len(all) = Len(most) + Len(right)
        /\ \A i \in 1 .. Len(most) + Len(right) :
             all[i] = IF i <= Len(most) THEN most[i] ELSE right[i - Len(most)]
    BY <1>5, <1>8, <1>9, ConcatProperties
  <2>2. Len(most) + Len(right) = n + 1
    BY <1>2, <1>5, <1>8
  <2>3. \A i \in 1 .. (n + 1) : all[i] = IF i <= k + 1 THEN most[i] ELSE right[i - (k + 1)]
    BY <1>8, <2>1, <2>2
  <2>4. ASSUME NEW i \in 1 .. (n + 1), i > k + 1 PROVE right[i - (k + 1)] = queue[i - 1]
    <3>1. i - (k + 1) \in 1 .. (n - k) /\ k + (i - (k + 1)) = i - 1
      BY <1>2, <2>4
    <3>2. right[i - (k + 1)] = queue[k + (i - (k + 1))]
      BY <1>5, <3>1
    <3>3. QED
      BY <3>1, <3>2
  <2>5. ASSUME NEW i \in 1 .. (n + 1)
        PROVE  all[i] = IF i <= k THEN queue[i] ELSE IF i = k + 1 THEN e ELSE queue[i - 1]
    <3>1. CASE i <= k + 1
      <4>1. i \in 1 .. (k + 1) /\ all[i] = most[i]
        BY <1>2, <2>3, <3>1
      <4>2. QED
        BY <1>2, <1>8, <4>1
    <3>2. CASE i > k + 1
      BY <1>2, <2>3, <2>4, <3>2
    <3>3. QED
      BY <1>2, <3>1, <3>2
  <2>6. QED
    BY <2>1, <2>2, <2>5
<1>11. all = InsertAt(queue, k + 1, e)
  <2>1. (k + 1) - 1 = k
    BY <1>2
  <2>2. QED
    BY <1>1, <1>3, <1>7, <1>9, <2>1 DEF InsertAt
<1>12. QED
  BY <1>1, <1>10, <1>11 DEF Wider

Narrower(queue, k, narrower) ==
  /\ Len(narrower) = Len(queue) - 1
  /\ \A i \in 1 .. Len(narrower) : narrower[i] = IF i < k THEN queue[i] ELSE queue[i + 1]

LEMMA Removed ==
  ASSUME NEW S, NEW queue \in Seq(S), NEW k \in 1 .. Len(queue)
  PROVE  RemoveAt(queue, k) \in Seq(S) /\ Narrower(queue, k, RemoveAt(queue, k))
<1>1. PICK n : n = Len(queue)
  OBVIOUS
<1>2. n \in Nat /\ k \in 1 .. n /\ \A i \in 1 .. n : queue[i] \in S
  BY <1>1, LenProperties
<1>3. PICK left, right : left = SubSeq(queue, 1, k - 1) /\ right = SubSeq(queue, k + 1, n)
  OBVIOUS
<1>4. left \in Seq(S) /\ Len(left) = k - 1 /\ \A i \in 1 .. (k - 1) : left[i] = queue[i]
  <2>1. k - 1 \in Int /\ 1 \in Int /\ \A i \in 1 .. (k - 1) : queue[i] \in S
    BY <1>2
  <2>2. /\ SubSeq(queue, 1, k - 1) \in Seq(S)
        /\ Len(SubSeq(queue, 1, k - 1)) = IF 1 <= k - 1 THEN (k - 1) - 1 + 1 ELSE 0
        /\ \A i \in 1 .. (k - 1) - 1 + 1 : SubSeq(queue, 1, k - 1)[i] = queue[1 + i - 1]
    BY <2>1, SubSeqProperties
  <2>3. (k - 1) - 1 + 1 = k - 1 /\ \A i \in 1 .. (k - 1) : 1 + i - 1 = i
    BY <2>1
  <2>4. QED
    BY <1>2, <1>3, <2>2, <2>3
<1>5. right \in Seq(S) /\ Len(right) = n - k /\ \A i \in 1 .. (n - k) : right[i] = queue[k + i]
  <2>1. k + 1 \in Int /\ n \in Int /\ \A i \in k + 1 .. n : queue[i] \in S
    BY <1>2
  <2>2. /\ SubSeq(queue, k + 1, n) \in Seq(S)
        /\ Len(SubSeq(queue, k + 1, n)) = IF k + 1 <= n THEN n - (k + 1) + 1 ELSE 0
        /\ \A i \in 1 .. n - (k + 1) + 1 : SubSeq(queue, k + 1, n)[i] = queue[k + 1 + i - 1]
    BY <2>1, SubSeqProperties
  <2>3. n - (k + 1) + 1 = n - k /\ \A i \in 1 .. (n - k) : k + 1 + i - 1 = k + i
    BY <1>2
  <2>4. QED
    BY <1>2, <1>3, <2>2, <2>3
<1>6. PICK all : all = left \o right
  OBVIOUS
<1>7. /\ all \in Seq(S) /\ Len(all) = n - 1
      /\ \A i \in 1 .. (n - 1) : all[i] = IF i < k THEN queue[i] ELSE queue[i + 1]
  <2>1. /\ all \in Seq(S) /\ Len(all) = Len(left) + Len(right)
        /\ \A i \in 1 .. Len(left) + Len(right) :
             all[i] = IF i <= Len(left) THEN left[i] ELSE right[i - Len(left)]
    BY <1>4, <1>5, <1>6, ConcatProperties
  <2>2. Len(left) + Len(right) = n - 1
    BY <1>2, <1>4, <1>5
  <2>3. \A i \in 1 .. (n - 1) : all[i] = IF i <= k - 1 THEN left[i] ELSE right[i - (k - 1)]
    BY <1>4, <2>1, <2>2
  <2>4. ASSUME NEW i \in 1 .. (n - 1), i >= k PROVE right[i - (k - 1)] = queue[i + 1]
    <3>1. i - (k - 1) \in 1 .. (n - k) /\ k + (i - (k - 1)) = i + 1
      BY <1>2, <2>4
    <3>2. right[i - (k - 1)] = queue[k + (i - (k - 1))]
      BY <1>5, <3>1
    <3>3. QED
      BY <3>1, <3>2
  <2>5. ASSUME NEW i \in 1 .. (n - 1)
        PROVE  all[i] = IF i < k THEN queue[i] ELSE queue[i + 1]
    <3>1. CASE i < k
      <4>1. i \in 1 .. (k - 1) /\ all[i] = left[i]
        BY <1>2, <2>3, <3>1
      <4>2. QED
        BY <1>4, <3>1, <4>1
    <3>2. CASE i >= k
      BY <1>2, <2>3, <2>4, <3>2
    <3>3. QED
      BY <1>2, <3>1, <3>2
  <2>6. QED
    BY <2>1, <2>2, <2>5
<1>8. all = RemoveAt(queue, k)
  BY <1>1, <1>3, <1>6 DEF RemoveAt
<1>9. QED
  BY <1>1, <1>7, <1>8 DEF Narrower
-----------------------------------------------------------------------------
(***************************************************************************)
(* Queues in the order of their deadlines.                                 *)
(***************************************************************************)
Members(queue) == {queue[i] : i \in 1 .. Len(queue)}

Sorted(queue, phys) ==
  \A i, j \in 1 .. Len(queue) :
    i < j => queue[i] # queue[j] /\ phys[queue[i]] >= phys[queue[j]]

LEMMA NarrowerSorted ==
  ASSUME NEW queue \in Seq(Subs), NEW narrower \in Seq(Subs), NEW k \in 1 .. Len(queue),
         Narrower(queue, k, narrower), NEW phys, Sorted(queue, phys)
  PROVE  /\ Sorted(narrower, phys) /\ queue[k] \notin Members(narrower)
         /\ Members(narrower) \subseteq Members(queue)
<1>1. PICK n : n = Len(queue)
  OBVIOUS
<1>2. n \in Nat /\ k \in 1 .. n /\ Len(narrower) = n - 1
  BY <1>1, LenProperties DEF Narrower
<1>3. \A i \in 1 .. (n - 1) : narrower[i] = IF i < k THEN queue[i] ELSE queue[i + 1]
  BY <1>2 DEF Narrower
<1>4. \A i, j \in 1 .. n : i < j => queue[i] # queue[j] /\ phys[queue[i]] >= phys[queue[j]]
  BY <1>1 DEF Sorted
<1>5. ASSUME NEW i \in 1 .. (n - 1)
      PROVE  \E j \in 1 .. n : j # k /\ narrower[i] = queue[j] /\ j = IF i < k THEN i ELSE i + 1
  <2>1. CASE i < k
    <3>1. i \in 1 .. n /\ i # k /\ narrower[i] = queue[i]
      BY <1>2, <1>3, <2>1
    <3>2. QED
      BY <2>1, <3>1
  <2>2. CASE i >= k
    <3>1. i + 1 \in 1 .. n /\ i + 1 # k /\ narrower[i] = queue[i + 1] /\ ~(i < k)
      BY <1>2, <1>3, <2>2
    <3>2. QED
      BY <3>1
  <2>3. QED
    BY <1>2, <2>1, <2>2
<1>6. Sorted(narrower, phys)
  <2> SUFFICES ASSUME NEW i \in 1 .. (n - 1), NEW j \in 1 .. (n - 1), i < j
               PROVE  narrower[i] # narrower[j] /\ phys[narrower[i]] >= phys[narrower[j]]
    BY <1>2 DEF Sorted
  <2>1. PICK a \in 1 .. n : narrower[i] = queue[a] /\ a = IF i < k THEN i ELSE i + 1
    BY <1>5
  <2>2. PICK b \in 1 .. n : narrower[j] = queue[b] /\ b = IF j < k THEN j ELSE j + 1
    BY <1>5
  <2>3. a < b
    BY <1>2, <2>1, <2>2
  <2>4. QED
    BY <1>4, <2>1, <2>2, <2>3
<1>7. \A i \in 1 .. n : i # k => queue[i] # queue[k]
  BY <1>2, <1>4
<1>8. queue[k] \notin Members(narrower) /\ Members(narrower) \subseteq Members(queue)
  <2>1. Members(narrower) = {narrower[i] : i \in 1 .. (n - 1)}
    BY <1>2 DEF Members
  <2>2. Members(queue) = {queue[i] : i \in 1 .. n}
    BY <1>1 DEF Members
  <2>3. ASSUME NEW x \in Members(narrower) PROVE x # queue[k] /\ x \in Members(queue)
    <3>1. PICK i \in 1 .. (n - 1) : x = narrower[i]
      BY <2>1, <2>3
    <3>2. PICK j \in 1 .. n : j # k /\ narrower[i] = queue[j]
      BY <1>5
    <3>3. QED
      BY <1>7, <2>2, <3>1, <3>2
  <2>4. QED
    BY <2>3
<1>9. QED
  BY <1>6, <1>8

LEMMA WiderSorted ==
  ASSUME NEW queue \in Seq(Subs), NEW wider \in Seq(Subs), NEW k \in 0 .. Len(queue), NEW s,
         Wider(queue, k, s, wider), NEW phys, Sorted(queue, phys), s \notin Members(queue),
         \A i \in 1 .. k : phys[queue[i]] >= phys[s],
         \A i \in (k + 1) .. Len(queue) : phys[s] >= phys[queue[i]]
  PROVE  Sorted(wider, phys) /\ Members(wider) \subseteq Members(queue) \cup {s}
<1>1. PICK n : n = Len(queue)
  OBVIOUS
<1>2. n \in Nat /\ k \in 0 .. n /\ Len(wider) = n + 1
  BY <1>1, LenProperties DEF Wider
<1>3. \A i \in 1 .. (n + 1) :
        wider[i] = IF i <= k THEN queue[i] ELSE IF i = k + 1 THEN s ELSE queue[i - 1]
  BY <1>2 DEF Wider
<1>4. \A i, j \in 1 .. n : i < j => queue[i] # queue[j] /\ phys[queue[i]] >= phys[queue[j]]
  BY <1>1 DEF Sorted
<1>5. \A i \in 1 .. n : queue[i] # s
  BY <1>1 DEF Members
<1>6. ASSUME NEW i \in 1 .. (n + 1), i # k + 1
      PROVE  \E j \in 1 .. n : wider[i] = queue[j] /\ j = IF i <= k THEN i ELSE i - 1
  <2>1. CASE i <= k
    <3>1. i \in 1 .. n /\ wider[i] = queue[i]
      BY <1>2, <1>3, <2>1
    <3>2. QED
      BY <2>1, <3>1
  <2>2. CASE i > k + 1
    <3>1. i - 1 \in 1 .. n /\ wider[i] = queue[i - 1] /\ ~(i <= k)
      BY <1>2, <1>3, <2>2
    <3>2. QED
      BY <3>1
  <2>3. QED
    BY <1>2, <1>6, <2>1, <2>2
<1>7. k + 1 \in 1 .. (n + 1) /\ wider[k + 1] = s
  BY <1>2, <1>3
<1>8. Sorted(wider, phys)
  <2> SUFFICES ASSUME NEW i \in 1 .. (n + 1), NEW j \in 1 .. (n + 1), i < j
               PROVE  wider[i] # wider[j] /\ phys[wider[i]] >= phys[wider[j]]
    BY <1>2 DEF Sorted
  <2>1. CASE i # k + 1 /\ j # k + 1
    <3>1. PICK a \in 1 .. n : wider[i] = queue[a] /\ a = IF i <= k THEN i ELSE i - 1
      BY <1>6, <2>1
    <3>2. PICK b \in 1 .. n : wider[j] = queue[b] /\ b = IF j <= k THEN j ELSE j - 1
      BY <1>6, <2>1
    <3>3. a < b
      BY <1>2, <2>1, <3>1, <3>2
    <3>4. QED
      BY <1>4, <3>1, <3>2, <3>3
  <2>2. CASE i = k + 1
    <3>1. PICK b \in 1 .. n : wider[j] = queue[b] /\ b = IF j <= k THEN j ELSE j - 1
      BY <1>6, <2>2
    <3>2. b \in (k + 1) .. n
      BY <1>2, <2>2, <3>1
    <3>3. QED
      BY <1>1, <1>5, <1>7, <2>2, <3>1, <3>2
  <2>3. CASE j = k + 1
    <3>1. PICK a \in 1 .. n : wider[i] = queue[a] /\ a = IF i <= k THEN i ELSE i - 1
      BY <1>6, <2>3
    <3>2. a \in 1 .. k
      BY <1>2, <2>3, <3>1
    <3>3. QED
      BY <1>5, <1>7, <2>3, <3>1, <3>2
  <2>4. QED
    BY <2>1, <2>2, <2>3
<1>9. Members(wider) \subseteq Members(queue) \cup {s}
  <2>1. Members(wider) = {wider[i] : i \in 1 .. (n + 1)}
    BY <1>2 DEF Members
  <2>2. Members(queue) = {queue[i] : i \in 1 .. n}
    BY <1>1 DEF Members
  <2>3. ASSUME NEW i \in 1 .. (n + 1) PROVE wider[i] \in Members(queue) \cup {s}
    <3>1. CASE i = k + 1
      BY <1>7, <3>1
    <3>2. CASE i # k + 1
      BY <1>6, <2>2, <3>2
    <3>3. QED
      BY <3>1, <3>2
  <2>4. QED
    BY <2>1, <2>3
<1>10. QED
  BY <1>8, <1>9

\* Without repetitions a queue is no longer than there are subscribers.
LEMMA FitsIn ==
  ASSUME NEW queue \in Seq(Subs), NEW phys, Sorted(queue, phys)
  PROVE  Len(queue) <= Cardinality(Subs)
<1>1. PICK n : n = Len(queue)
  OBVIOUS
<1>2. n \in Nat /\ queue \in [1 .. n -> Subs]
  BY <1>1, LenProperties
<1>3. queue \in Injection(1 .. n, Subs)
  <2>1. \A i, j \in 1 .. n : i < j => queue[i] # queue[j]
    BY <1>1 DEF Sorted
  <2>2. \A i, j \in 1 .. n : i # j => queue[i] # queue[j]
    BY <1>2, <2>1
  <2>3. QED
    BY <1>2, <2>2 DEF Injection, IsInjective
<1>4. Cardinality(1 .. n) <= Cardinality(Subs)
  BY <1>3, SubsAssumption, FS_Injection
<1>5. Cardinality(1 .. n) = n
  BY <1>2, FS_Interval
<1>6. QED
  BY <1>1, <1>4, <1>5
-----------------------------------------------------------------------------
(***************************************************************************)
(* The invariant.  A popped deadline is no later than the time the worker  *)
(* read, so a period more is a deadline again; and a subscriber that is    *)
(* freed has given up its use of the timer.                                *)
(***************************************************************************)
Timers == [time : Times, cmp : Deadlines, ctrl : SUBSET Bits, status : BOOLEAN]
Subscribers == [phys : Deadlines, delta : Deltas \cup {0}, data : BOOLEAN,
                periodic : BOOLEAN, enabled : BOOLEAN]
Locals == [pc : TaskPcs \cup ReprogramPcs \cup WorkPcs, then : {"idle", "pie_on"},
           seen : SUBSET Bits, at : Deadlines, serves : Subs \cup {Nobody}]
Enabled == {s \in Subs : sub[s].enabled}
Phys == [s \in Subs |-> sub[s].phys]

DeviceTypes ==
  timer \in Timers /\ msi \in BOOLEAN /\ isr \in {"idle", "ack", "run"} /\ queued \in BOOLEAN

ThreadTypes ==
  /\ lock \in Threads \cup {Nobody} /\ calls \in 0 .. MaxCalls
  /\ run \in [Threads -> Locals]
  /\ run[Worker].pc \in WorkPcs => run[Worker].at \in Times

SubTypes == tree \in Seq(Subs) /\ sub \in [Subs -> Subscribers]

UsersCounted ==
  /\ users = Cardinality(Enabled)
  /\ \A s \in Subs : run[s].pc \in {"closed", "erase"} => s \notin Enabled

TreeOrdered ==
  /\ Sorted(tree, Phys)
  /\ \A s \in Members(tree) : run[s].pc # "closed"

TimerInv == DeviceTypes /\ ThreadTypes /\ SubTypes /\ UsersCounted /\ TreeOrdered

LEMMA TimerInvSuffices == ASSUME TimerInv PROVE LuxTypeOK /\ TreeSound
<1>1. tree \in Seq(Subs) /\ Sorted(tree, Phys)
  BY DEF TimerInv, SubTypes, TreeOrdered
<1>2. Len(tree) <= Cardinality(Subs)
  BY <1>1, FitsIn
<1>3. LuxTypeOK
  BY <1>2 DEF TimerInv, DeviceTypes, ThreadTypes, SubTypes, UsersCounted, LuxTypeOK, Timers,
              Subscribers, Locals, Enabled
<1>4. \A i \in 1 .. Len(tree) : tree[i] \in Subs /\ tree[i] \in Members(tree)
  BY <1>1, LenProperties DEF Members
<1>5. TreeSound
  BY <1>1, <1>4 DEF TimerInv, TreeOrdered, TreeSound, Sorted, Phys
<1>6. QED
  BY <1>3, <1>5

LEMMA TimeTypes ==
  /\ MaxTime \in Nat \ {0} /\ Deltas \subseteq Nat \ {0} /\ MaxCalls \in Nat
  /\ Times \subseteq Deadlines /\ Deadlines \subseteq Nat /\ 0 \in Times
  /\ \A t \in Times, d \in Deltas \cup {0} : t + d \in Deadlines
<1>1. MaxTime \in Nat \ {0} /\ Deltas \subseteq Nat \ {0} /\ MaxCalls \in Nat
  BY TimeAssumption
<1>2. Times \subseteq Nat /\ 0 \in Times
  BY <1>1 DEF Times
<1>3. \A t \in Times, d \in Deltas : t + d \in Nat
  BY <1>1, <1>2
<1>4. \A t \in Times : t + 0 = t
  BY <1>2
<1>5. Times \subseteq Deadlines /\ Deadlines \subseteq Nat
  <2>1. Times \subseteq Deadlines
    BY DEF Deadlines
  <2>2. ASSUME NEW x \in Deadlines PROVE x \in Nat
    <3>1. x \in Times \/ \E t \in Times, d \in Deltas : x = t + d
      BY DEF Deadlines
    <3>2. QED
      BY <1>2, <1>3, <3>1
  <2>3. QED
    BY <2>1, <2>2
<1>6. ASSUME NEW t \in Times, NEW d \in Deltas \cup {0} PROVE t + d \in Deadlines
  <2>1. CASE d = 0
    BY <1>4, <1>5, <2>1
  <2>2. CASE d # 0
    BY <2>2 DEF Deadlines
  <2>3. QED
    BY <2>1, <2>2
<1>7. QED
  BY <1>1, <1>2, <1>5, <1>6

LEMMA TimerInvInit == LuxInit => TimerInv
<1> SUFFICES ASSUME LuxInit PROVE TimerInv
  OBVIOUS
<1>1. DeviceTypes
  BY TimeTypes DEF LuxInit, DeviceTypes, Timers
<1>2. \A p \in Threads : run[p] = At(IF p = Worker THEN "idle" ELSE "closed")
  BY DEF LuxInit
<1>3. Worker \in Threads /\ \A pc \in TaskPcs : At(pc) \in Locals
  BY TimeTypes DEF At, Locals, Threads
<1>4. ThreadTypes
  <2>1. run \in [Threads -> Locals]
    BY <1>3 DEF LuxInit, TaskPcs
  <2>2. run[Worker] = At("idle")
    BY <1>2, <1>3
  <2>3. run[Worker].pc = "idle"
    BY <2>2 DEF At
  <2>4. QED
    BY <2>1, <2>3, TimeTypes DEF LuxInit, ThreadTypes, WorkPcs
<1>5. SubTypes
  BY TimeTypes DEF LuxInit, SubTypes, Subscribers, Fresh
<1>6. Enabled = {}
  BY DEF LuxInit, Enabled, Fresh
<1>7. UsersCounted
  BY <1>6, FS_EmptySet DEF LuxInit, UsersCounted
<1>8. TreeOrdered
  BY DEF LuxInit, TreeOrdered, Sorted, Members
<1>9. QED
  BY <1>1, <1>4, <1>5, <1>7, <1>8 DEF TimerInv

\* Steps that leave the tree and its subscribers alone.
LEMMA TreeAlone ==
  ASSUME TimerInv, UNCHANGED <<tree, sub, users>>, DeviceTypes', ThreadTypes',
         \A s \in Subs : run'[s].pc # run[s].pc => run'[s].pc \notin {"closed", "erase"}
  PROVE  TimerInv'
<1>1. tree \in Seq(Subs) /\ \A s \in Members(tree) : s \in Subs
  BY LenProperties DEF TimerInv, SubTypes, Members
<1>2. SubTypes'
  BY DEF TimerInv, SubTypes
<1>3. UsersCounted'
  BY DEF TimerInv, UsersCounted, Enabled
<1>4. TreeOrdered'
  BY <1>1 DEF TimerInv, TreeOrdered, Phys, Members, Sorted
<1>5. QED
  BY <1>2, <1>3, <1>4 DEF TimerInv

LEMMA DeviceSteps ==
  ASSUME TimerInv, Tick \/ IrqTick \/ ChainedHandler \/ Ack \/ Isr PROVE TimerInv'
<1>1. UNCHANGED <<tree, sub, users, lock, run, calls>>
  BY DEF Tick, IrqTick, ChainedHandler, Ack, Isr
<1>2. ThreadTypes'
  BY <1>1 DEF TimerInv, ThreadTypes
<1>3. timer \in Timers /\ msi \in BOOLEAN /\ isr \in {"idle", "ack", "run"} /\ queued \in BOOLEAN
  BY DEF TimerInv, DeviceTypes
<1>4. DeviceTypes'
  <2>1. CASE Tick
    <3>1. PICK now \in (IF timer.time = MaxTime THEN {MaxTime} ELSE timer.time + 1 .. MaxTime) :
            LET fires == "IRQ" \in timer.ctrl /\ Reached(now, timer.cmp)
                status == timer.status \/ fires
            IN  /\ timer' = [timer EXCEPT !.time = now, !.status = status,
                                          !.ctrl = IF fires THEN @ \ {"IRQ"} ELSE @]
                /\ msi' = (msi \/ status)
      BY <2>1 DEF Tick
    <3>2. now \in Times
      BY <1>3, TimeTypes DEF Timers, Times
    <3>3. UNCHANGED <<isr, queued>>
      BY <2>1 DEF Tick
    <3>4. QED
      BY <1>3, <3>1, <3>2, <3>3 DEF DeviceTypes, Timers
  <2>2. CASE IrqTick \/ ChainedHandler \/ Ack \/ Isr
    BY <1>3, <2>2 DEF IrqTick, ChainedHandler, Ack, Isr, DeviceTypes, Timers
  <2>3. QED
    BY <2>1, <2>2
<1>5. QED
  BY <1>1, <1>2, <1>4, TreeAlone

LEMMA ThreadFacts ==
  ASSUME TimerInv
  PROVE  /\ Threads = Subs \cup {Worker} /\ Worker \notin Subs /\ Worker \in Threads
         /\ Nobody \notin Threads /\ lock \in Threads \cup {Nobody} /\ calls \in 0 .. MaxCalls
         /\ run \in [Threads -> Locals] /\ (run[Worker].pc \in WorkPcs => run[Worker].at \in Times)
         /\ timer \in Timers /\ timer.time \in Times /\ timer.ctrl \in SUBSET Bits
  BY SubsAssumption DEF TimerInv, ThreadTypes, DeviceTypes, Timers, Threads

\* A thread that moves: the others stay where they are.
LEMMA Moved ==
  ASSUME TimerInv, NEW p \in Threads, NEW l \in Locals, run' = [run EXCEPT ![p] = l],
         l.pc \in WorkPcs => l.at \in Times, lock' \in Threads \cup {Nobody},
         calls' \in 0 .. MaxCalls
  PROVE  ThreadTypes' /\ run'[p] = l /\ \A q \in Threads \ {p} : run'[q] = run[q]
  BY ThreadFacts DEF ThreadTypes

LEMMA ArrivesAt == ASSUME NEW pc \in TaskPcs \cup ReprogramPcs
                   PROVE  At(pc) \in Locals /\ At(pc).pc = pc /\ pc \notin WorkPcs
  BY TimeTypes DEF At, Locals, TaskPcs, ReprogramPcs, WorkPcs

LEMMA ReprogramSteps == ASSUME TimerInv, NEW p \in Threads, Reprogram(p) PROVE TimerInv'
<1>1. /\ run \in [Threads -> Locals] /\ run[p] \in Locals
      /\ run[p].pc \in {"look", "clear", "program"}
      /\ timer \in Timers /\ UNCHANGED <<tree, sub, users, calls, msi, isr>>
      /\ lock \in Threads \cup {Nobody} /\ calls \in 0 .. MaxCalls
      /\ tree \in Seq(Subs) /\ sub \in [Subs -> Subscribers]
  BY ThreadFacts DEF Reprogram, LookEmpty, LookPast, LookFuture, Clear, Program, TimerInv, SubTypes
<1>2. DeviceTypes'
  <2>1. timer' \in Timers
    <3>1. run[p].at \in Deadlines /\ run[p].seen \ {"IRQ"} \in SUBSET Bits /\ Bits \in SUBSET Bits
      BY <1>1 DEF Locals
    <3>2. \/ timer' = timer
          \/ timer' = [timer EXCEPT !.ctrl = run[p].seen \ {"IRQ"}]
          \/ timer' = [timer EXCEPT !.cmp = run[p].at, !.ctrl = Bits]
      BY DEF Reprogram, LookEmpty, LookPast, LookFuture, Clear, Program
    <3>3. QED
      BY <1>1, <3>1, <3>2 DEF Timers
  <2>2. queued' \in BOOLEAN
    BY DEF Reprogram, LookEmpty, LookPast, LookFuture, Clear, Program, TimerInv, DeviceTypes
  <2>3. QED
    BY <1>1, <2>1, <2>2 DEF TimerInv, DeviceTypes
<1>3. \E l \in Locals : /\ run' = [run EXCEPT ![p] = l] /\ l.pc \notin WorkPcs \cup {"closed", "erase"}
                        /\ lock' \in Threads \cup {Nobody}
  <2>1. CASE LookEmpty(p)
    <3>1. [run[p] EXCEPT !.pc = "clear", !.seen = timer.ctrl] \in Locals
      BY <1>1 DEF Locals, ReprogramPcs, Timers
    <3>2. run' = [run EXCEPT ![p] = [run[p] EXCEPT !.pc = "clear", !.seen = timer.ctrl]]
      BY <1>1, <2>1 DEF LookEmpty
    <3>3. [run[p] EXCEPT !.pc = "clear", !.seen = timer.ctrl].pc = "clear" /\ lock' = lock
      BY <1>1, <2>1 DEF LookEmpty, Locals
    <3>4. QED
      BY <1>1, <3>1, <3>2, <3>3 DEF WorkPcs
  <2>2. CASE LookFuture(p)
    <3>1. Head(tree) \in Subs /\ sub[Head(tree)].phys \in Deadlines
      BY <1>1, <2>2, HeadTailProperties DEF LookFuture, Subscribers
    <3>2. PICK at \in Deadlines : at = sub[Head(tree)].phys
      BY <3>1
    <3>3. [run[p] EXCEPT !.pc = "program", !.at = at] \in Locals
      BY <1>1, <3>2 DEF Locals, ReprogramPcs
    <3>4. run' = [run EXCEPT ![p] = [run[p] EXCEPT !.pc = "program", !.at = at]] /\ lock' = lock
      BY <1>1, <2>2, <3>2 DEF LookFuture
    <3>5. [run[p] EXCEPT !.pc = "program", !.at = at].pc = "program"
      BY <1>1 DEF Locals
    <3>6. QED
      BY <1>1, <3>3, <3>4, <3>5 DEF WorkPcs
  <2>3. CASE LookPast(p) \/ Clear(p) \/ Program(p)
    <3>1. run[p].then \in {"idle", "pie_on"}
      BY <1>1 DEF Locals
    <3>2. run[p].then \in TaskPcs \cup ReprogramPcs /\ run[p].then \notin WorkPcs \cup {"closed", "erase"}
      BY <3>1 DEF TaskPcs, WorkPcs
    <3>3. run' = [run EXCEPT ![p] = At(run[p].then)] /\ lock' \in {Nobody, lock}
      BY <2>3 DEF LookPast, Clear, Program, Resume, Goto
    <3>4. At(run[p].then) \in Locals /\ At(run[p].then).pc = run[p].then
      BY <3>2, ArrivesAt
    <3>5. QED
      BY <1>1, <3>2, <3>3, <3>4
  <2>4. QED
    BY <2>1, <2>2, <2>3 DEF Reprogram
<1>4. PICK l \in Locals : /\ run' = [run EXCEPT ![p] = l] /\ l.pc \notin WorkPcs \cup {"closed", "erase"}
                          /\ lock' \in Threads \cup {Nobody}
  BY <1>3
<1>5. ThreadTypes' /\ run'[p] = l /\ \A q \in Threads \ {p} : run'[q] = run[q]
  BY <1>1, <1>4, Moved
<1>6. QED
  BY <1>1, <1>2, <1>4, <1>5, ThreadFacts, TreeAlone

LEMMA WorkerSteps == ASSUME TimerInv, WorkStart \/ WorkDone PROVE TimerInv'
<1>1. /\ run \in [Threads -> Locals] /\ run[Worker] \in Locals /\ Worker \in Threads
      /\ timer \in Timers /\ timer.time \in Times /\ UNCHANGED <<tree, sub, users, calls>>
      /\ lock \in Threads \cup {Nobody} /\ calls \in 0 .. MaxCalls
  BY ThreadFacts DEF WorkStart, WorkDone
<1>2. DeviceTypes'
  BY DEF WorkStart, WorkDone, TimerInv, DeviceTypes
<1>3. \E l \in Locals : /\ run' = [run EXCEPT ![Worker] = l] /\ (l.pc \in WorkPcs => l.at \in Times)
                        /\ lock' \in Threads \cup {Nobody}
  <2>1. CASE WorkStart
    <3>1. timer.time \in Deadlines
      BY <1>1, TimeTypes
    <3>2. [run[Worker] EXCEPT !.pc = "pop", !.at = timer.time] \in Locals
      BY <1>1, <3>1 DEF Locals, WorkPcs
    <3>3. [run[Worker] EXCEPT !.pc = "pop", !.at = timer.time].at = timer.time
      BY <1>1 DEF Locals
    <3>4. /\ run' = [run EXCEPT ![Worker] = [run[Worker] EXCEPT !.pc = "pop", !.at = timer.time]]
          /\ lock' = Worker
      BY <1>1, <2>1 DEF WorkStart
    <3>5. QED
      BY <1>1, <3>2, <3>3, <3>4
  <2>2. CASE WorkDone
    <3>1. At("look") \in Locals /\ At("look").pc = "look"
      BY ArrivesAt DEF ReprogramPcs
    <3>2. run' = [run EXCEPT ![Worker] = At("look")] /\ lock' = lock
      BY <2>2 DEF WorkDone, Goto
    <3>3. QED
      BY <1>1, <3>1, <3>2 DEF WorkPcs
  <2>3. QED
    BY <2>1, <2>2
<1>4. PICK l \in Locals : /\ run' = [run EXCEPT ![Worker] = l]
                          /\ (l.pc \in WorkPcs => l.at \in Times)
                          /\ lock' \in Threads \cup {Nobody}
  BY <1>3
<1>5. ThreadTypes' /\ \A q \in Threads \ {Worker} : run'[q] = run[q]
  BY <1>1, <1>4, Moved
<1>6. QED
  BY <1>1, <1>2, <1>5, ThreadFacts, TreeAlone

LEMMA SubFacts ==
  ASSUME TimerInv
  PROVE  /\ sub \in [Subs -> Subscribers] /\ tree \in Seq(Subs) /\ Members(tree) \subseteq Subs
         /\ \A s \in Members(tree) : run[s].pc # "closed"
         /\ users = Cardinality(Enabled) /\ IsFiniteSet(Enabled) /\ users \in Nat
<1>1. sub \in [Subs -> Subscribers] /\ tree \in Seq(Subs) /\ users = Cardinality(Enabled)
  BY DEF TimerInv, SubTypes, UsersCounted
<1>2. Members(tree) \subseteq Subs
  BY <1>1, LenProperties DEF Members
<1>3. Enabled \in SUBSET Subs
  BY DEF Enabled
<1>4. IsFiniteSet(Enabled)
  BY <1>3, SubsAssumption, FS_Subset
<1>5. QED
  BY <1>1, <1>2, <1>4, FS_CardinalityType DEF TimerInv, TreeOrdered

\* A subscriber that changes, and what it does to the number of users.
LEMMA SubChanged ==
  ASSUME TimerInv, NEW s \in Subs, NEW r \in Subscribers, sub' = [sub EXCEPT ![s] = r]
  PROVE  /\ sub' \in [Subs -> Subscribers] /\ sub'[s] = r
         /\ \A t \in Subs \ {s} : sub'[t] = sub[t]
         /\ Enabled' = IF r.enabled THEN Enabled \cup {s} ELSE Enabled \ {s}
         /\ Cardinality(Enabled') =
              IF r.enabled THEN (IF sub[s].enabled THEN users ELSE users + 1)
                           ELSE (IF sub[s].enabled THEN users - 1 ELSE users)
<1>1. /\ sub' \in [Subs -> Subscribers] /\ sub'[s] = r /\ \A t \in Subs \ {s} : sub'[t] = sub[t]
  BY SubFacts
<1>2. Enabled' = {t \in Subs : sub'[t].enabled} /\ (s \in Enabled <=> sub[s].enabled)
  BY DEF Enabled
<1>3. Enabled' = IF r.enabled THEN Enabled \cup {s} ELSE Enabled \ {s}
  BY <1>1, <1>2 DEF Enabled
<1>4. /\ Cardinality(Enabled \cup {s}) = IF s \in Enabled THEN users ELSE users + 1
      /\ Cardinality(Enabled \ {s}) = IF s \in Enabled THEN users - 1 ELSE users
  BY SubFacts, FS_AddElement, FS_RemoveElement
<1>5. QED
  BY <1>1, <1>2, <1>3, <1>4

\* Steps that keep the tree and the deadlines of its nodes.
LEMMA TreeKept ==
  ASSUME TimerInv, DeviceTypes', ThreadTypes', UsersCounted', tree' = tree,
         sub' \in [Subs -> Subscribers],
         \A s \in Members(tree) : sub'[s].phys = sub[s].phys /\ run'[s].pc # "closed"
  PROVE  TimerInv'
<1>1. SubTypes'
  BY SubFacts DEF SubTypes
<1>2. \A i \in 1 .. Len(tree) : tree[i] \in Members(tree) /\ tree[i] \in Subs
  BY SubFacts DEF Members
<1>3. Members(tree)' = Members(tree)
  BY DEF Members
<1>4. \A i \in 1 .. Len(tree) : Phys'[tree[i]] = Phys[tree[i]]
  BY <1>2 DEF Phys
<1>5. Sorted(tree, Phys)'
  BY <1>4 DEF TimerInv, TreeOrdered, Sorted
<1>6. QED
  BY <1>1, <1>3, <1>5 DEF TimerInv, TreeOrdered

LEMMA EnableSteps ==
  ASSUME TimerInv, NEW s \in Subs, NEW reload \in BOOLEAN, EnableBits(s, reload),
         run[s].pc \in {"idle", "pie_on"}, run' = run \/ Goto(s, "idle"),
         calls' \in 0 .. MaxCalls
  PROVE  TimerInv'
<1>1. /\ sub \in [Subs -> Subscribers] /\ sub[s] \in Subscribers
      /\ UNCHANGED <<msi, isr, tree, lock, queued>>
      /\ timer' = [timer EXCEPT !.ctrl = Bits]
      /\ users' = IF sub[s].enabled THEN users ELSE users + 1
  BY SubFacts DEF EnableBits
<1>2. DeviceTypes'
  BY <1>1 DEF TimerInv, DeviceTypes, Timers, Bits
<1>3. PICK r : r = [sub[s] EXCEPT !.enabled = TRUE, !.periodic = sub[s].periodic \/ reload]
  OBVIOUS
<1>4. r \in Subscribers /\ r.enabled /\ r.phys = sub[s].phys
  BY <1>1, <1>3 DEF Subscribers
<1>5. sub' = [sub EXCEPT ![s] = r]
  BY <1>1, <1>3 DEF EnableBits
<1>6. /\ sub' \in [Subs -> Subscribers] /\ \A t \in Subs : sub'[t].phys = sub[t].phys
      /\ Enabled' = Enabled \cup {s} /\ Cardinality(Enabled') = users'
  BY <1>1, <1>4, <1>5, SubChanged
<1>7. /\ s \in Threads /\ s # Worker /\ run \in [Threads -> Locals]
      /\ lock \in Threads \cup {Nobody}
      /\ run[Worker].pc \in WorkPcs => run[Worker].at \in Times
  BY ThreadFacts
<1>8. ThreadTypes' /\ run'[s].pc \in {"idle", "pie_on"} /\ \A q \in Threads \ {s} : run'[q] = run[q]
  <2>1. CASE run' = run
    BY <1>1, <1>7, <2>1 DEF ThreadTypes
  <2>2. CASE Goto(s, "idle")
    <3>1. At("idle") \in Locals /\ At("idle").pc = "idle"
      BY ArrivesAt DEF TaskPcs
    <3>2. QED
      BY <1>1, <1>7, <2>2, <3>1, Moved DEF Goto, WorkPcs
  <2>3. QED
    BY <2>1, <2>2
<1>9. UsersCounted'
  BY <1>6, <1>7, <1>8, ThreadFacts DEF TimerInv, UsersCounted
<1>10. \A t \in Members(tree) : sub'[t].phys = sub[t].phys /\ run'[t].pc # "closed"
  BY <1>6, <1>7, <1>8, ThreadFacts, SubFacts
<1>11. QED
  BY <1>1, <1>2, <1>6, <1>8, <1>9, <1>10, TreeKept

LEMMA DisableSteps == ASSUME TimerInv, NEW s \in Subs, DisableBits(s) PROVE TimerInv'
<1>1. /\ sub \in [Subs -> Subscribers] /\ sub[s] \in Subscribers
      /\ UNCHANGED <<msi, isr, tree, lock, queued, calls>>
      /\ timer' = timer \/ timer' = [timer EXCEPT !.ctrl = {}]
      /\ users' = IF sub[s].enabled THEN users - 1 ELSE users
      /\ run[s].pc \in {"aie_off", "pie_off", "closing"}
  BY SubFacts DEF DisableBits
<1>2. DeviceTypes'
  BY <1>1 DEF TimerInv, DeviceTypes, Timers
<1>3. PICK r : r = [sub[s] EXCEPT !.enabled = FALSE,
                                  !.periodic = sub[s].periodic /\ run[s].pc = "aie_off"]
  OBVIOUS
<1>4. r \in Subscribers /\ ~r.enabled /\ r.phys = sub[s].phys
  BY <1>1, <1>3 DEF Subscribers
<1>5. sub' = [sub EXCEPT ![s] = r]
  BY <1>1, <1>3 DEF DisableBits
<1>6. /\ sub' \in [Subs -> Subscribers] /\ \A t \in Subs : sub'[t].phys = sub[t].phys
      /\ Enabled' = Enabled \ {s} /\ Cardinality(Enabled') = users'
  BY <1>1, <1>4, <1>5, SubChanged
<1>7. /\ s \in Threads /\ s # Worker /\ run \in [Threads -> Locals]
      /\ lock \in Threads \cup {Nobody}
      /\ calls \in 0 .. MaxCalls
  BY ThreadFacts
<1>8. PICK pc \in {"erase", "idle"} : run' = [run EXCEPT ![s] = At(pc)]
  BY DEF DisableBits, Goto
<1>9. At(pc) \in Locals /\ At(pc).pc = pc
  BY ArrivesAt DEF TaskPcs
<1>10. ThreadTypes' /\ run'[s] = At(pc) /\ \A q \in Threads \ {s} : run'[q] = run[q]
  BY <1>1, <1>7, <1>8, <1>9, Moved DEF WorkPcs
<1>11. UsersCounted'
  BY <1>6, <1>7, <1>10, ThreadFacts DEF TimerInv, UsersCounted
<1>12. \A t \in Members(tree) : sub'[t].phys = sub[t].phys /\ run'[t].pc # "closed"
  BY <1>6, <1>7, <1>9, <1>10, ThreadFacts, SubFacts
<1>13. QED
  BY <1>1, <1>2, <1>6, <1>10, <1>11, <1>12, TreeKept
-----------------------------------------------------------------------------
(***************************************************************************)
(* Nodes that leave the tree and come back.                                *)
(***************************************************************************)
LEMMA Erased ==
  ASSUME TimerInv, NEW s \in Subs, NEW queue, queue = Erase(s)
  PROVE  /\ queue \in Seq(Subs) /\ Sorted(queue, Phys) /\ s \notin Members(queue)
         /\ Members(queue) \subseteq Members(tree)
<1>1. tree \in Seq(Subs) /\ Sorted(tree, Phys)
  BY DEF TimerInv, SubTypes, TreeOrdered
<1>2. CASE InTree(s)
  <2>1. PICK k : k = CHOOSE i \in 1 .. Len(tree) : tree[i] = s
    OBVIOUS
  <2>2. k \in 1 .. Len(tree) /\ tree[k] = s /\ queue = RemoveAt(tree, k)
    BY <1>2, <2>1 DEF InTree, Erase
  <2>3. queue \in Seq(Subs) /\ Narrower(tree, k, queue)
    BY <1>1, <2>2, Removed
  <2>4. QED
    BY <1>1, <2>2, <2>3, NarrowerSorted
<1>3. CASE ~InTree(s)
  <2>1. queue = tree /\ s \notin Members(tree)
    BY <1>3 DEF InTree, Erase, Members
  <2>2. QED
    BY <1>1, <2>1
<1>4. QED
  BY <1>2, <1>3

LEMMA Enqueued ==
  ASSUME TimerInv, NEW queue \in Seq(Subs), Sorted(queue, Phys), NEW s \in Subs,
         s \notin Members(queue), NEW phys \in Nat, NEW after, after[s] = phys,
         \A t \in Members(queue) : after[t] = sub[t].phys,
         NEW wider, wider = Enqueue(queue, s, phys)
  PROVE  /\ wider \in Seq(Subs) /\ Sorted(wider, after)
         /\ Members(wider) \subseteq Members(queue) \cup {s}
<1>1. PICK n : n = Len(queue)
  OBVIOUS
<1>2. /\ n \in Nat /\ \A i \in 1 .. n : queue[i] \in Subs /\ queue[i] \in Members(queue)
      /\ \A i \in 1 .. n : sub[queue[i]].phys \in Nat /\ Phys[queue[i]] = sub[queue[i]].phys
  <2>1. n \in Nat /\ \A i \in 1 .. n : queue[i] \in Subs /\ queue[i] \in Members(queue)
    BY <1>1, LenProperties DEF Members
  <2>2. \A t \in Subs : sub[t].phys \in Nat /\ Phys[t] = sub[t].phys
    BY SubFacts, TimeTypes DEF Subscribers, Phys
  <2>3. QED
    BY <2>1, <2>2
<1>3. PICK D : D = NotBefore(queue, phys)
  OBVIOUS
<1>4. \A i \in 1 .. n : i \in D <=> sub[queue[i]].phys >= phys
  BY <1>1, <1>3 DEF NotBefore
<1>5. D \subseteq 1 .. n
  BY <1>1, <1>3 DEF NotBefore
<1>6. ASSUME NEW i \in D, NEW j \in 1 .. i PROVE j \in D
  <2>1. i \in 1 .. n /\ j \in 1 .. n
    BY <1>2, <1>5
  <2>2. CASE j = i
    BY <2>2
  <2>3. CASE j < i
    <3>1. Phys[queue[j]] >= Phys[queue[i]]
      BY <1>1, <2>1, <2>3 DEF Sorted
    <3>2. sub[queue[j]].phys >= phys
      BY <1>2, <1>4, <2>1, <3>1
    <3>3. QED
      BY <1>4, <2>1, <3>2
  <2>4. QED
    BY <2>1, <2>2, <2>3
<1>7. PICK k : k = Cardinality(D)
  OBVIOUS
<1>8. k \in 0 .. n /\ D = 1 .. k
  BY <1>2, <1>5, <1>6, <1>7, WithoutGaps
<1>9. wider = InsertAt(queue, k + 1, s)
  BY <1>3, <1>7 DEF Enqueue
<1>10. wider \in Seq(Subs) /\ Wider(queue, k, s, wider)
  BY <1>1, <1>8, <1>9, Inserted
<1>11. \A i \in 1 .. n : after[queue[i]] = sub[queue[i]].phys
  BY <1>2
<1>12. Sorted(queue, after)
  <2> SUFFICES ASSUME NEW i \in 1 .. n, NEW j \in 1 .. n, i < j
               PROVE  queue[i] # queue[j] /\ after[queue[i]] >= after[queue[j]]
    BY <1>1 DEF Sorted
  <2>1. queue[i] # queue[j] /\ Phys[queue[i]] >= Phys[queue[j]]
    BY <1>1 DEF Sorted
  <2>2. QED
    BY <1>2, <1>11, <2>1
<1>13. \A i \in 1 .. k : after[queue[i]] >= after[s]
  BY <1>4, <1>5, <1>8, <1>11
<1>14. \A i \in (k + 1) .. n : after[s] >= after[queue[i]]
  <2> TAKE i \in (k + 1) .. n
  <2>1. i \in 1 .. n /\ i \notin D
    BY <1>2, <1>8
  <2>2. sub[queue[i]].phys < phys
    BY <1>2, <1>4, <2>1
  <2>3. QED
    BY <1>2, <1>11, <2>1, <2>2
<1>15. QED
  BY <1>1, <1>8, <1>10, <1>12, <1>13, <1>14, WiderSorted

LEMMA TreeMade ==
  ASSUME DeviceTypes', ThreadTypes', UsersCounted', sub' \in [Subs -> Subscribers],
         NEW queue \in Seq(Subs), tree' = queue, NEW phys, phys = Phys', Sorted(queue, phys),
         \A s \in Members(queue) : run'[s].pc # "closed"
  PROVE  TimerInv'
<1>1. SubTypes'
  BY DEF SubTypes
<1>2. Sorted(tree, Phys)'
  BY DEF Sorted
<1>3. \A s \in Members(tree)' : run'[s].pc # "closed"
  BY DEF Members
<1>4. QED
  BY <1>1, <1>2, <1>3 DEF TimerInv, TreeOrdered

LEMMA FirstOut ==
  ASSUME TimerInv, tree # <<>>, NEW s, s = Head(tree), NEW rest, rest = Tail(tree)
  PROVE  /\ s \in Subs /\ s \in Members(tree) /\ rest \in Seq(Subs) /\ 1 \in 1 .. Len(tree)
         /\ s = tree[1] /\ Narrower(tree, 1, rest) /\ Sorted(rest, Phys)
         /\ s \notin Members(rest) /\ Members(rest) \subseteq Members(tree)
<1>1. tree \in Seq(Subs) /\ Sorted(tree, Phys)
  BY DEF TimerInv, SubTypes, TreeOrdered
<1>2. s \in Subs /\ rest \in Seq(Subs) /\ s = tree[1] /\ Narrower(tree, 1, rest)
  <2>1. /\ s \in Subs /\ rest \in Seq(Subs) /\ Len(rest) = Len(tree) - 1
        /\ \A i \in 1 .. Len(rest) : rest[i] = tree[i + 1]
    BY <1>1, HeadTailProperties
  <2>2. s = tree[1]
    BY <1>1
  <2>3. \A i \in 1 .. Len(rest) : ~(i < 1)
    BY <2>1, LenProperties
  <2>4. QED
    BY <2>1, <2>2, <2>3 DEF Narrower
<1>3. 1 \in 1 .. Len(tree)
  BY <1>1, EmptySeq, LenProperties
<1>4. Sorted(rest, Phys) /\ s \notin Members(rest) /\ Members(rest) \subseteq Members(tree)
  <2>1. PICK first, most : first = s /\ most = rest
    OBVIOUS
  <2>2. /\ most \in Seq(Subs) /\ first = tree[1] /\ Narrower(tree, 1, most)
    BY <1>2, <2>1
  <2>3. /\ Sorted(most, Phys) /\ first \notin Members(most)
        /\ Members(most) \subseteq Members(tree)
    BY <1>1, <1>3, <2>2, NarrowerSorted
  <2>4. QED
    BY <2>1, <2>3
<1>5. s \in Members(tree)
  BY <1>2, <1>3 DEF Members
<1>6. QED
  BY <1>2, <1>3, <1>4, <1>5

\* What the worker does to the subscriber whose alarm it rings.
LEMMA RungOne ==
  ASSUME TimerInv, Pop, NEW s, s = Head(tree)
  PROVE  /\ s \in Subs /\ sub[s].phys \in Times /\ sub[s].phys <= run[Worker].at
         /\ \E r \in Subscribers :
              /\ sub' = [sub EXCEPT ![s] = r]
              /\ r.phys = IF sub[s].periodic THEN sub[s].phys + sub[s].delta ELSE 0
              /\ r.data = TRUE /\ r.delta = sub[s].delta
              /\ r.periodic = sub[s].periodic /\ r.enabled = sub[s].enabled
<1>1. /\ tree # <<>> /\ run[Worker].at \in Times /\ sub \in [Subs -> Subscribers]
      /\ sub[s].phys <= run[Worker].at
  BY ThreadFacts, SubFacts DEF Pop, Rings, Expired, WorkPcs
<1>2. s \in Subs /\ sub[s] \in Subscribers
  BY <1>1, FirstOut
<1>3. PICK next : next = IF sub[s].periodic THEN sub[s].phys + sub[s].delta ELSE 0
  OBVIOUS
<1>4. sub[s].phys \in Times
  <2>1. sub[s].phys \in Nat /\ run[Worker].at \in Times
    BY <1>1, <1>2, TimeTypes DEF Subscribers
  <2>2. QED
    BY <1>1, <2>1, TimeTypes DEF Times
<1>5. next \in Deadlines
  BY <1>2, <1>3, <1>4, TimeTypes DEF Subscribers
<1>6. PICK r : r = [sub[s] EXCEPT !.data = TRUE, !.phys = next]
  OBVIOUS
<1>7. /\ r \in Subscribers /\ r.phys = next /\ r.data = TRUE /\ r.delta = sub[s].delta
      /\ r.periodic = sub[s].periodic /\ r.enabled = sub[s].enabled
  BY <1>2, <1>5, <1>6 DEF Subscribers
<1>8. sub' = [sub EXCEPT ![s].data = TRUE, ![s].phys = next]
  BY <1>3 DEF Pop, Rings
<1>9. sub' = [sub EXCEPT ![s] = r]
  BY <1>1, <1>2, <1>6, <1>8
<1>10. QED
  BY <1>1, <1>2, <1>3, <1>4, <1>7, <1>9

LEMMA WorkerTurns ==
  ASSUME TimerInv, Pop \/ AddAgain
  PROVE  /\ UNCHANGED <<timer, msi, isr, users, lock, queued, calls>>
         /\ ThreadTypes' /\ DeviceTypes'
         /\ run[Worker].pc \in WorkPcs /\ run'[Worker].pc \in WorkPcs
         /\ run'[Worker].at = run[Worker].at /\ run'[Worker].then = run[Worker].then
         /\ \A q \in Threads \ {Worker} : run'[q] = run[q]
<1>1. /\ UNCHANGED <<timer, msi, isr, users, lock, queued, calls>>
      /\ run[Worker].pc \in WorkPcs
  BY DEF Pop, Rings, AddAgain, WorkPcs
<1>2. /\ run \in [Threads -> Locals] /\ Worker \in Threads /\ run[Worker] \in Locals
      /\ run[Worker].at \in Times /\ lock \in Threads \cup {Nobody} /\ calls \in 0 .. MaxCalls
  BY <1>1, ThreadFacts
<1>3. PICK l \in Locals : /\ run' = [run EXCEPT ![Worker] = l] /\ l.pc \in WorkPcs
                          /\ l.at = run[Worker].at /\ l.then = run[Worker].then
  <2>1. CASE Pop
    <3>1. Head(tree) \in Subs
      BY <2>1, RungOne
    <3>2. PICK l : l = [run[Worker] EXCEPT !.pc = "again", !.serves = Head(tree)]
      OBVIOUS
    <3>3. l \in Locals /\ l.pc = "again" /\ l.at = run[Worker].at /\ l.then = run[Worker].then
      BY <1>2, <3>1, <3>2 DEF Locals, WorkPcs
    <3>4. run' = [run EXCEPT ![Worker] = l]
      BY <1>2, <2>1, <3>2 DEF Pop, Rings
    <3>5. QED
      BY <3>3, <3>4 DEF WorkPcs
  <2>2. CASE AddAgain
    <3>1. PICK l : l = [run[Worker] EXCEPT !.pc = "pop", !.serves = Nobody]
      OBVIOUS
    <3>2. l \in Locals /\ l.pc = "pop" /\ l.at = run[Worker].at /\ l.then = run[Worker].then
      BY <1>2, <3>1 DEF Locals, WorkPcs
    <3>3. run' = [run EXCEPT ![Worker] = l]
      BY <1>2, <2>2, <3>1 DEF AddAgain
    <3>4. QED
      BY <3>2, <3>3 DEF WorkPcs
  <2>3. QED
    BY <2>1, <2>2
<1>4. ThreadTypes' /\ run'[Worker] = l /\ \A q \in Threads \ {Worker} : run'[q] = run[q]
  BY <1>1, <1>2, <1>3, Moved
<1>5. DeviceTypes'
  BY <1>1 DEF TimerInv, DeviceTypes
<1>6. QED
  BY <1>1, <1>3, <1>4, <1>5

LEMMA PopStep == ASSUME TimerInv, Pop PROVE TimerInv'
<1>1. tree # <<>> /\ \A q \in Threads \ {Worker} : run'[q] = run[q]
  BY WorkerTurns DEF Pop, Rings, Expired
<1>2. PICK s, rest : s = Head(tree) /\ rest = Tail(tree)
  OBVIOUS
<1>3. /\ s \in Subs /\ rest \in Seq(Subs) /\ Sorted(rest, Phys)
      /\ s \notin Members(rest) /\ Members(rest) \subseteq Members(tree)
  BY <1>1, <1>2, FirstOut
<1>4. PICK r \in Subscribers : sub' = [sub EXCEPT ![s] = r] /\ r.enabled = sub[s].enabled
  BY <1>2, RungOne
<1>5. /\ sub' \in [Subs -> Subscribers] /\ sub'[s] = r /\ \A t \in Subs \ {s} : sub'[t] = sub[t]
  BY <1>3, <1>4, SubChanged
<1>6. UsersCounted' /\ DeviceTypes' /\ ThreadTypes'
  <2>1. Enabled' = Enabled
    BY <1>3, <1>4, <1>5 DEF Enabled
  <2>2. QED
    BY <1>1, <2>1, WorkerTurns, ThreadFacts DEF TimerInv, UsersCounted
<1>7. PICK after : after = Phys'
  OBVIOUS
<1>8. Members(rest) \subseteq Subs
  BY <1>3, SubFacts
<1>9. \A i \in 1 .. Len(rest) : after[rest[i]] = Phys[rest[i]]
  <2>1. \A t \in Subs \ {s} : after[t] = Phys[t]
    BY <1>5, <1>7 DEF Phys
  <2>2. \A i \in 1 .. Len(rest) : rest[i] \in Subs \ {s}
    BY <1>3, <1>8 DEF Members
  <2>3. QED
    BY <2>1, <2>2
<1>10. Sorted(rest, after)
  BY <1>3, <1>9 DEF Sorted
<1>11. tree' = rest
  BY <1>2 DEF Pop, Rings
<1>12. \A t \in Members(rest) : run'[t].pc # "closed"
  BY <1>1, <1>3, <1>8, SubFacts, ThreadFacts
<1>13. QED
  BY <1>3, <1>5, <1>6, <1>7, <1>10, <1>11, <1>12, TreeMade

(***************************************************************************)
(* The worker holds the lock until it is done; so the subscriber whose     *)
(* alarm is ringing is not in the tree, and its file stays open, until the *)
(* worker has read its flag again.                                         *)
(***************************************************************************)
WorkerLocks ==
  /\ run[Worker].pc # "idle" => lock = Worker
  /\ run[Worker].then = "idle"

ServesOne ==
  IF run[Worker].pc = "again"
    THEN /\ run[Worker].serves \in Subs /\ run[Worker].serves \notin Members(tree)
         /\ run[run[Worker].serves].pc # "closed"
    ELSE run[Worker].serves = Nobody

WorkerInv == WorkerLocks /\ ServesOne

LEMMA AgainStep == ASSUME TimerInv, WorkerInv, AddAgain PROVE TimerInv'
<1>1. /\ sub' = sub /\ sub \in [Subs -> Subscribers] /\ tree \in Seq(Subs) /\ Sorted(tree, Phys)
      /\ \A q \in Threads \ {Worker} : run'[q] = run[q]
  BY WorkerTurns, SubFacts DEF AddAgain, TimerInv, TreeOrdered
<1>2. PICK s : s = run[Worker].serves
  OBVIOUS
<1>3. s \in Subs /\ s \notin Members(tree) /\ run[s].pc # "closed"
  BY <1>2 DEF AddAgain, WorkerInv, ServesOne
<1>4. UsersCounted' /\ DeviceTypes' /\ ThreadTypes'
  <2>1. Enabled' = Enabled
    BY <1>1 DEF Enabled
  <2>2. QED
    BY <1>1, <2>1, WorkerTurns, ThreadFacts DEF TimerInv, UsersCounted
<1>5. PICK queue : queue = tree'
  OBVIOUS
<1>6. queue \in Seq(Subs) /\ Sorted(queue, Phys) /\ Members(queue) \subseteq Members(tree) \cup {s}
  <2>1. CASE sub[s].periodic
    <3>1. queue = Enqueue(tree, s, sub[s].phys)
      BY <1>2, <1>5, <2>1 DEF AddAgain
    <3>2. sub[s].phys \in Nat /\ \A t \in Subs : Phys[t] = sub[t].phys
      BY <1>1, <1>3, TimeTypes DEF Subscribers, Phys
    <3>3. \A t \in Members(tree) : Phys[t] = sub[t].phys
      BY <3>2, SubFacts
    <3>4. QED
      BY <1>1, <1>3, <3>1, <3>2, <3>3, Enqueued
  <2>2. CASE ~sub[s].periodic
    <3>1. queue = tree
      BY <1>2, <1>5, <2>2 DEF AddAgain
    <3>2. QED
      BY <1>1, <3>1
  <2>3. QED
    BY <2>1, <2>2
<1>7. PICK after : after = Phys'
  OBVIOUS
<1>8. after = Phys
  BY <1>1, <1>7 DEF Phys
<1>9. \A t \in Members(queue) : run'[t].pc # "closed"
  BY <1>1, <1>3, <1>6, SubFacts, ThreadFacts
<1>10. QED
  BY <1>1, <1>4, <1>5, <1>6, <1>7, <1>8, <1>9, TreeMade

\* IRQP_SET and ALM_SET: the node goes to where its new deadline belongs.
LEMMA SetAlarm ==
  ASSUME TimerInv, NEW s \in Subs, NEW phys \in Deadlines, NEW r \in Subscribers,
         r.phys = phys, r.enabled = sub[s].enabled, sub' = [sub EXCEPT ![s] = r],
         tree' = Enqueue(Erase(s), s, phys), UNCHANGED <<timer, msi, isr, users, queued>>,
         NEW l \in Locals, run' = [run EXCEPT ![s] = l], l.pc = "look", run[s].pc = "idle",
         lock' \in Threads \cup {Nobody}, calls' \in 0 .. MaxCalls
  PROVE  TimerInv'
<1>1. /\ s \in Threads /\ s # Worker /\ run \in [Threads -> Locals]
      /\ ThreadTypes' /\ run'[s] = l /\ \A q \in Threads \ {s} : run'[q] = run[q]
  BY ThreadFacts, Moved DEF WorkPcs
<1>2. /\ sub' \in [Subs -> Subscribers] /\ sub'[s] = r /\ \A t \in Subs \ {s} : sub'[t] = sub[t]
  BY SubChanged
<1>3. DeviceTypes'
  BY DEF TimerInv, DeviceTypes
<1>4. UsersCounted'
  <2>1. Enabled' = Enabled
    BY <1>2 DEF Enabled
  <2>2. QED
    BY <1>1, <2>1, ThreadFacts DEF TimerInv, UsersCounted
<1>5. PICK rest : rest = Erase(s)
  OBVIOUS
<1>6. /\ rest \in Seq(Subs) /\ Sorted(rest, Phys) /\ s \notin Members(rest)
      /\ Members(rest) \subseteq Members(tree)
  BY <1>5, Erased
<1>7. PICK after : after = Phys'
  OBVIOUS
<1>8. after = [t \in Subs |-> sub'[t].phys]
  BY <1>7 DEF Phys
<1>9. after[s] = phys /\ \A t \in Members(rest) : after[t] = sub[t].phys
  BY <1>2, <1>6, <1>8, SubFacts
<1>10. PICK queue : queue = tree'
  OBVIOUS
<1>11. /\ queue \in Seq(Subs) /\ Sorted(queue, after)
       /\ Members(queue) \subseteq Members(rest) \cup {s}
  <2>1. queue = Enqueue(rest, s, phys) /\ phys \in Nat
    BY <1>5, <1>10, TimeTypes
  <2>2. QED
    BY <1>6, <1>9, <2>1, Enqueued
<1>12. \A t \in Members(queue) : run'[t].pc # "closed"
  BY <1>1, <1>6, <1>11, SubFacts, ThreadFacts
<1>13. QED
  BY <1>1, <1>2, <1>3, <1>4, <1>7, <1>10, <1>11, <1>12, TreeMade

LEMMA AlarmSteps ==
  ASSUME TimerInv, NEW s \in Subs, Begin(s),
         (\E phys \in Times : AlmSet(s, phys)) \/ (\E delta \in Deltas : IrqpSet(s, delta))
  PROVE  TimerInv'
<1>1. /\ run[s].pc = "idle" /\ calls' \in 0 .. MaxCalls /\ sub[s] \in Subscribers
      /\ s \in Threads /\ run[s] \in Locals /\ lock \in Threads \cup {Nobody}
      /\ sub \in [Subs -> Subscribers] /\ run \in [Threads -> Locals]
  BY ThreadFacts, SubFacts, TimeTypes DEF Begin, Idle
<1>2. ASSUME NEW phys \in Times, AlmSet(s, phys) PROVE TimerInv'
  <2>1. PICK r : r = [sub[s] EXCEPT !.phys = phys]
    OBVIOUS
  <2>2. phys \in Deadlines /\ r \in Subscribers /\ r.phys = phys /\ r.enabled = sub[s].enabled
    BY <1>1, <2>1, TimeTypes DEF Subscribers
  <2>3. sub' = [sub EXCEPT ![s] = r] /\ tree' = Enqueue(Erase(s), s, phys)
    BY <1>1, <1>2, <2>1 DEF AlmSet
  <2>4. At("look") \in Locals /\ At("look").pc = "look"
    BY ArrivesAt DEF ReprogramPcs
  <2>5. /\ run' = [run EXCEPT ![s] = At("look")] /\ lock' \in Threads \cup {Nobody}
        /\ UNCHANGED <<timer, msi, isr, users, queued>>
    BY <1>1, <1>2 DEF AlmSet, Goto
  <2>6. QED
    BY <1>1, <2>2, <2>3, <2>4, <2>5, SetAlarm
<1>3. ASSUME NEW delta \in Deltas, IrqpSet(s, delta) PROVE TimerInv'
  <2>1. PICK now \in {timer.time, timer.time - 1} \cap Times :
          /\ sub' = [sub EXCEPT ![s].phys = now + delta, ![s].delta = delta]
          /\ tree' = Enqueue(Erase(s), s, now + delta)
    BY <1>3 DEF IrqpSet
  <2>2. PICK phys : phys = now + delta
    OBVIOUS
  <2>3. PICK r : r = [sub[s] EXCEPT !.phys = phys, !.delta = delta]
    OBVIOUS
  <2>4. phys \in Deadlines
    BY <2>1, <2>2, TimeTypes
  <2>5. r \in Subscribers /\ r.phys = phys /\ r.enabled = sub[s].enabled
    BY <1>1, <2>3, <2>4 DEF Subscribers
  <2>6. sub' = [sub EXCEPT ![s] = r] /\ tree' = Enqueue(Erase(s), s, phys)
    BY <1>1, <2>1, <2>2, <2>3
  <2>7. PICK l : l = [run[s] EXCEPT !.pc = "look", !.then = "pie_on"]
    OBVIOUS
  <2>8. l \in Locals /\ l.pc = "look"
    BY <1>1, <2>7 DEF Locals, ReprogramPcs
  <2>9. /\ run' = [run EXCEPT ![s] = l] /\ lock' \in Threads \cup {Nobody}
        /\ UNCHANGED <<timer, msi, isr, users, queued>>
    BY <1>1, <1>3, <2>7 DEF IrqpSet
  <2>10. QED
    BY <1>1, <2>4, <2>5, <2>6, <2>8, <2>9, SetAlarm
<1>4. QED
  BY <1>2, <1>3

LEMMA ReleaseStep == ASSUME TimerInv, NEW s \in Subs, Release(s) PROVE TimerInv'
<1>1. At("closed") \in Locals /\ At("closed").pc = "closed"
  BY ArrivesAt DEF TaskPcs
<1>2. /\ s \in Threads /\ s # Worker /\ run \in [Threads -> Locals] /\ run[s].pc = "erase"
      /\ lock \in Threads \cup {Nobody} /\ calls \in 0 .. MaxCalls
      /\ UNCHANGED <<timer, msi, isr, users, lock, queued, calls>>
      /\ run' = [run EXCEPT ![s] = At("closed")] /\ sub' = [sub EXCEPT ![s] = Fresh]
      /\ tree' = Erase(s)
  BY ThreadFacts DEF Release, Goto
<1>3. ThreadTypes' /\ run'[s] = At("closed") /\ \A q \in Threads \ {s} : run'[q] = run[q]
  BY <1>1, <1>2, Moved DEF WorkPcs
<1>4. Fresh \in Subscribers /\ ~Fresh.enabled
  BY TimeTypes DEF Fresh, Subscribers
<1>5. /\ sub' \in [Subs -> Subscribers] /\ \A t \in Subs \ {s} : sub'[t] = sub[t]
      /\ Enabled' = Enabled \ {s}
  BY <1>2, <1>4, SubChanged
<1>6. s \notin Enabled
  BY <1>2 DEF TimerInv, UsersCounted
<1>7. Enabled' = Enabled
  BY <1>5, <1>6
<1>8. UsersCounted' /\ DeviceTypes'
  BY <1>2, <1>3, <1>6, <1>7, ThreadFacts DEF TimerInv, UsersCounted, DeviceTypes
<1>9. PICK queue : queue = Erase(s)
  OBVIOUS
<1>10. /\ queue \in Seq(Subs) /\ Sorted(queue, Phys) /\ s \notin Members(queue)
       /\ Members(queue) \subseteq Members(tree)
  BY <1>9, Erased
<1>11. PICK after : after = Phys'
  OBVIOUS
<1>12. \A i \in 1 .. Len(queue) : after[queue[i]] = Phys[queue[i]]
  <2>1. \A t \in Subs \ {s} : after[t] = Phys[t]
    BY <1>5, <1>11 DEF Phys
  <2>2. \A i \in 1 .. Len(queue) : queue[i] \in Subs \ {s}
    BY <1>10, SubFacts DEF Members
  <2>3. QED
    BY <2>1, <2>2
<1>13. Sorted(queue, after)
  BY <1>10, <1>12 DEF Sorted
<1>14. \A t \in Members(queue) : run'[t].pc # "closed"
  BY <1>3, <1>10, SubFacts, ThreadFacts
<1>15. QED
  BY <1>2, <1>3, <1>5, <1>8, <1>9, <1>10, <1>11, <1>13, <1>14, TreeMade

LEMMA OpenAndRead == ASSUME TimerInv, NEW s \in Subs, Open(s) \/ Read(s) PROVE TimerInv'
<1>1. /\ s \in Threads /\ s # Worker /\ run \in [Threads -> Locals] /\ sub \in [Subs -> Subscribers]
      /\ lock \in Threads \cup {Nobody} /\ calls \in 0 .. MaxCalls
      /\ UNCHANGED <<timer, msi, isr, tree, users, lock, queued, calls>>
  BY ThreadFacts, SubFacts DEF Open, Read
<1>2. DeviceTypes'
  BY <1>1 DEF TimerInv, DeviceTypes
<1>3. CASE Open(s)
  <2>1. At("idle") \in Locals /\ At("idle").pc = "idle" /\ Fresh \in Subscribers /\ ~Fresh.enabled
    BY ArrivesAt, TimeTypes DEF TaskPcs, Fresh, Subscribers
  <2>2. /\ run' = [run EXCEPT ![s] = At("idle")] /\ sub' = [sub EXCEPT ![s] = Fresh]
        /\ run[s].pc = "closed"
    BY <1>3 DEF Open, Goto
  <2>3. ThreadTypes' /\ run'[s] = At("idle") /\ \A q \in Threads \ {s} : run'[q] = run[q]
    BY <1>1, <2>1, <2>2, Moved DEF WorkPcs
  <2>4. /\ sub' \in [Subs -> Subscribers] /\ \A t \in Subs \ {s} : sub'[t] = sub[t]
        /\ Enabled' = Enabled \ {s}
    BY <2>1, <2>2, SubChanged
  <2>5. s \notin Enabled /\ s \notin Members(tree)
    BY <2>2, SubFacts DEF TimerInv, UsersCounted
  <2>6. Enabled' = Enabled
    BY <2>4, <2>5
  <2>7. UsersCounted'
    BY <1>1, <2>1, <2>3, <2>6, ThreadFacts DEF TimerInv, UsersCounted
  <2>8. \A t \in Members(tree) : sub'[t].phys = sub[t].phys /\ run'[t].pc # "closed"
    BY <2>3, <2>4, <2>5, SubFacts, ThreadFacts
  <2>9. QED
    BY <1>1, <1>2, <2>3, <2>4, <2>7, <2>8, TreeKept
<1>4. CASE Read(s)
  <2>1. PICK r : r = [sub[s] EXCEPT !.data = FALSE]
    OBVIOUS
  <2>2. r \in Subscribers /\ r.phys = sub[s].phys /\ r.enabled = sub[s].enabled
    BY <1>1, <2>1 DEF Subscribers
  <2>3. sub' = [sub EXCEPT ![s] = r] /\ run' = run
    BY <1>1, <1>4, <2>1 DEF Read
  <2>4. /\ sub' \in [Subs -> Subscribers]
        /\ \A t \in Subs : sub'[t].phys = sub[t].phys /\ sub'[t].enabled = sub[t].enabled
    BY <1>1, <2>2, <2>3
  <2>5. Enabled' = Enabled
    BY <2>4 DEF Enabled
  <2>6. UsersCounted' /\ ThreadTypes'
    BY <1>1, <2>3, <2>5 DEF TimerInv, UsersCounted, ThreadTypes
  <2>7. QED
    BY <1>1, <1>2, <2>3, <2>4, <2>6, SubFacts, TreeKept
<1>5. QED
  BY <1>3, <1>4

LEMMA QuietCalls ==
  ASSUME TimerInv, NEW s \in Subs, Begin(s),
         TimeSet(s) \/ \E pc \in {"aie_off", "pie_off", "closing"} : BeginDisable(s, pc)
  PROVE  TimerInv'
<1>1. /\ s \in Threads /\ s # Worker /\ run \in [Threads -> Locals] /\ run[s].pc = "idle"
      /\ run[s] \in Locals /\ lock \in Threads \cup {Nobody} /\ calls' \in 0 .. MaxCalls
      /\ timer \in Timers /\ UNCHANGED <<msi, isr, tree, sub, users, queued>>
  BY ThreadFacts, TimeTypes DEF Begin, Idle, TimeSet, BeginDisable
<1>2. DeviceTypes'
  <2>1. timer' \in Timers
    BY <1>1 DEF TimeSet, BeginDisable, Timers, Bits
  <2>2. QED
    BY <1>1, <2>1 DEF TimerInv, DeviceTypes
<1>3. \E l \in Locals : /\ run' = [run EXCEPT ![s] = l] /\ l.pc \notin WorkPcs \cup {"closed", "erase"}
                        /\ lock' \in Threads \cup {Nobody}
  <2>1. CASE TimeSet(s)
    <3>1. At("look") \in Locals /\ At("look").pc = "look"
      BY ArrivesAt DEF ReprogramPcs
    <3>2. run' = [run EXCEPT ![s] = At("look")] /\ lock' = s
      BY <2>1 DEF TimeSet, Goto
    <3>3. QED
      BY <1>1, <3>1, <3>2 DEF WorkPcs
  <2>2. ASSUME NEW pc \in {"aie_off", "pie_off", "closing"}, BeginDisable(s, pc)
        PROVE  \E l \in Locals : /\ run' = [run EXCEPT ![s] = l]
                                 /\ l.pc \notin WorkPcs \cup {"closed", "erase"}
                                 /\ lock' \in Threads \cup {Nobody}
    <3>1. PICK l : l = [run[s] EXCEPT !.pc = pc, !.seen = timer.ctrl]
      OBVIOUS
    <3>2. l \in Locals /\ l.pc = pc
      BY <1>1, <3>1 DEF Locals, TaskPcs, Timers
    <3>3. run' = [run EXCEPT ![s] = l] /\ lock' = lock
      BY <1>1, <2>2, <3>1 DEF BeginDisable
    <3>4. QED
      BY <1>1, <3>2, <3>3 DEF WorkPcs
  <2>3. QED
    BY <2>1, <2>2
<1>4. PICK l \in Locals : /\ run' = [run EXCEPT ![s] = l] /\ l.pc \notin WorkPcs \cup {"closed", "erase"}
                          /\ lock' \in Threads \cup {Nobody}
  BY <1>3
<1>5. ThreadTypes' /\ run'[s] = l /\ \A q \in Threads \ {s} : run'[q] = run[q]
  BY <1>1, <1>4, Moved
<1>6. QED
  BY <1>1, <1>2, <1>4, <1>5, ThreadFacts, TreeAlone

LEMMA CallSteps == ASSUME TimerInv, NEW s \in Subs, Call(s) \/ Continue(s) PROVE TimerInv'
<1>1. s \in Threads
  BY DEF Threads
<1>2. CASE Call(s)
  <2>1. CASE Open(s) \/ Read(s)
    BY <2>1, OpenAndRead
  <2>2. CASE Begin(s) /\ (AieOn(s) \/ PieOn(s))
    <3>1. run' = run
      BY <2>2 DEF AieOn, PieOn
    <3>2. run[s].pc = "idle" /\ calls' \in 0 .. MaxCalls
      BY <2>2, ThreadFacts, TimeTypes DEF Begin, Idle
    <3>3. \E reload \in BOOLEAN : EnableBits(s, reload)
      BY <2>2 DEF AieOn, PieOn
    <3>4. QED
      BY <3>1, <3>2, <3>3, EnableSteps
  <2>3. CASE /\ Begin(s)
             /\ TimeSet(s) \/ \E pc \in {"aie_off", "pie_off", "closing"} : BeginDisable(s, pc)
    BY <2>3, QuietCalls
  <2>4. CASE /\ Begin(s)
             /\ (\E phys \in Times : AlmSet(s, phys)) \/ (\E delta \in Deltas : IrqpSet(s, delta))
    BY <2>4, AlarmSteps
  <2>5. QED
    BY <1>2, <2>1, <2>2, <2>3, <2>4 DEF Call
<1>3. CASE Continue(s)
  <2>1. CASE IrqpEnable(s)
    <3>1. /\ run[s].pc = "pie_on" /\ calls' \in 0 .. MaxCalls /\ Goto(s, "idle")
          /\ EnableBits(s, TRUE)
      BY <2>1, ThreadFacts DEF IrqpEnable
    <3>2. QED
      BY <3>1, EnableSteps
  <2>2. QED
    BY <1>1, <1>3, <2>1, ReprogramSteps, DisableSteps, ReleaseStep DEF Continue
<1>4. QED
  BY <1>2, <1>3

LEMMA TimerInvStep == TimerInv /\ WorkerInv /\ [LuxNext]_vars => TimerInv'
<1> SUFFICES ASSUME TimerInv, WorkerInv, [LuxNext]_vars PROVE TimerInv'
  OBVIOUS
<1>1. CASE UNCHANGED vars
  <2>1. DeviceTypes' /\ ThreadTypes'
    BY <1>1 DEF TimerInv, DeviceTypes, ThreadTypes, vars
  <2>2. UNCHANGED <<tree, sub, users, run>>
    BY <1>1 DEF vars
  <2>3. QED
    BY <2>1, <2>2, TreeAlone
<1>2. CASE Work
  BY <1>2, ThreadFacts, WorkerSteps, PopStep, AgainStep, ReprogramSteps DEF Work
<1>3. QED
  BY <1>1, <1>2, DeviceSteps, CallSteps DEF LuxNext

LEMMA WorkerInvInit == LuxInit => WorkerInv
<1>1. LuxInit => run[Worker] = At("idle")
  BY DEF LuxInit, Threads
<1>2. QED
  BY <1>1 DEF WorkerInv, WorkerLocks, ServesOne, At

\* Whoever has the lock, or needs none, leaves the worker alone.
LEMMA WorkerAlone ==
  ASSUME WorkerInv, run'[Worker] = run[Worker],
         \/ lock # Worker
         \/ /\ UNCHANGED <<lock, tree>>
            /\ \A s \in Subs : run'[s].pc = "closed" => run[s].pc = "closed"
  PROVE  WorkerInv'
<1>1. CASE lock # Worker
  BY <1>1 DEF WorkerInv, WorkerLocks, ServesOne
<1>2. CASE /\ UNCHANGED <<lock, tree>>
           /\ \A s \in Subs : run'[s].pc = "closed" => run[s].pc = "closed"
  <2>1. Members(tree)' = Members(tree)
    BY <1>2 DEF Members
  <2>2. QED
    BY <1>2, <2>1 DEF WorkerInv, WorkerLocks, ServesOne
<1>3. QED
  BY <1>1, <1>2

LEMMA WorkerOthers ==
  ASSUME TimerInv, WorkerInv, NEW s \in Subs, Call(s) \/ Continue(s) PROVE WorkerInv'
<1>1. /\ s # Worker /\ Worker \in Threads /\ run \in [Threads -> Locals] /\ s \in Threads
      /\ Worker # Nobody /\ \A q \in Subs : q \in Threads
  BY ThreadFacts
<1>2. CASE Reprogram(s)
  <2>1. /\ run[s] \in Locals /\ tree' = tree /\ lock' = IF lock = s /\ lock' # lock THEN Nobody ELSE lock
        /\ \A q \in Threads \ {s} : run'[q] = run[q]
    BY <1>1, <1>2 DEF Reprogram, LookEmpty, LookPast, LookFuture, Clear, Program, Resume, Goto
  <2>2. run'[s].pc # "closed"
    <3>1. CASE LookEmpty(s) \/ LookFuture(s)
      BY <1>1, <2>1, <3>1 DEF LookEmpty, LookFuture, Locals
    <3>2. CASE LookPast(s) \/ Clear(s) \/ Program(s)
      BY <1>1, <2>1, <3>2 DEF LookPast, Clear, Program, Resume, Goto, At, Locals
    <3>3. QED
      BY <1>2, <3>1, <3>2 DEF Reprogram
  <2>3. QED
    BY <1>1, <2>1, <2>2, WorkerAlone
<1>3. CASE Release(s) \/ TimeSet(s) \/ (\E phys \in Times : AlmSet(s, phys))
           \/ \E delta \in Deltas : IrqpSet(s, delta)
  <2>1. lock = Nobody /\ run'[Worker] = run[Worker]
    BY <1>1, <1>3 DEF Release, TimeSet, AlmSet, IrqpSet, Goto
  <2>2. QED
    BY <1>1, <2>1, WorkerAlone
<1>4. CASE Open(s) \/ Read(s) \/ AieOn(s) \/ PieOn(s) \/ IrqpEnable(s) \/ DisableBits(s)
  <2>1. UNCHANGED <<lock, tree>>
    BY <1>4 DEF Open, Read, AieOn, PieOn, IrqpEnable, DisableBits, EnableBits
  <2>2. run' = run \/ \E pc \in {"idle", "erase"} : run' = [run EXCEPT ![s] = At(pc)]
    BY <1>4 DEF Open, Read, AieOn, PieOn, IrqpEnable, DisableBits, Goto
  <2>3. /\ run'[Worker] = run[Worker]
        /\ \A q \in Subs : run'[q].pc = "closed" => run[q].pc = "closed"
    BY <1>1, <2>2 DEF At
  <2>4. QED
    BY <2>1, <2>3, WorkerAlone
<1>5. ASSUME NEW pc \in {"aie_off", "pie_off", "closing"}, BeginDisable(s, pc) PROVE WorkerInv'
  <2>1. /\ UNCHANGED <<lock, tree>> /\ run'[s].pc = pc
        /\ \A q \in Threads \ {s} : run'[q] = run[q]
    BY <1>1, <1>5 DEF BeginDisable, Locals
  <2>2. QED
    BY <1>1, <2>1, WorkerAlone
<1>6. QED
  BY <1>2, <1>3, <1>4, <1>5 DEF Call, Continue

LEMMA WorkerReprogram == ASSUME TimerInv, WorkerInv, Reprogram(Worker) PROVE WorkerInv'
<1>1. /\ run \in [Threads -> Locals] /\ Worker \in Threads /\ run[Worker] \in Locals
      /\ run[Worker].pc \in ReprogramPcs /\ run[Worker].then = "idle"
      /\ run[Worker].serves = Nobody /\ lock = Worker
  BY ThreadFacts DEF Reprogram, LookEmpty, LookPast, LookFuture, Clear, Program, ReprogramPcs,
                     WorkerInv, WorkerLocks, ServesOne
<1>2. CASE LookEmpty(Worker) \/ LookFuture(Worker)
  <2>1. /\ run'[Worker].pc \in {"clear", "program"} /\ run'[Worker].then = "idle"
        /\ run'[Worker].serves = Nobody /\ lock' = lock
    BY <1>1, <1>2 DEF LookEmpty, LookFuture, Locals
  <2>2. QED
    BY <1>1, <2>1 DEF WorkerInv, WorkerLocks, ServesOne
<1>3. CASE LookPast(Worker) \/ Clear(Worker) \/ Program(Worker)
  <2>1. run'[Worker] = At("idle")
    BY <1>1, <1>3 DEF LookPast, Clear, Program, Resume, Goto
  <2>2. QED
    BY <2>1 DEF At, WorkerInv, WorkerLocks, ServesOne
<1>4. QED
  BY <1>2, <1>3 DEF Reprogram

LEMMA WorkerWorks ==
  ASSUME TimerInv, WorkerInv, WorkStart \/ Pop \/ AddAgain \/ WorkDone PROVE WorkerInv'
<1>1. /\ run \in [Threads -> Locals] /\ Worker \in Threads /\ run[Worker] \in Locals
      /\ Worker \notin Subs
  BY ThreadFacts
<1>2. run[Worker].then = "idle" /\ (run[Worker].pc # "idle" => lock = Worker)
  BY DEF WorkerInv, WorkerLocks
<1>3. CASE WorkStart
  <2>1. run[Worker].serves = Nobody
    BY <1>3 DEF WorkStart, WorkerInv, ServesOne
  <2>2. run'[Worker].pc = "pop" /\ run'[Worker].then = "idle" /\ run'[Worker].serves = Nobody
    BY <1>1, <1>2, <1>3, <2>1 DEF WorkStart, Locals
  <2>3. QED
    BY <1>3, <2>2 DEF WorkStart, WorkerInv, WorkerLocks, ServesOne
<1>4. CASE Pop
  <2>1. PICK s : s = Head(tree)
    OBVIOUS
  <2>2. PICK rest : rest = Tail(tree)
    OBVIOUS
  <2>3. tree # <<>> /\ tree' = rest /\ run[Worker].pc = "pop" /\ lock' = lock
    BY <1>4, <2>2 DEF Pop, Rings, Expired
  <2>4. s \in Subs /\ s \in Members(tree) /\ s \notin Members(rest)
    BY <2>1, <2>2, <2>3, FirstOut
  <2>5. run' = [run EXCEPT ![Worker].pc = "again", ![Worker].serves = s]
    BY <1>4, <2>1 DEF Pop, Rings
  <2>6. /\ run'[Worker].pc = "again" /\ run'[Worker].serves = s /\ run'[Worker].then = "idle"
        /\ run'[s] = run[s]
    BY <1>1, <1>2, <2>4, <2>5, ThreadFacts DEF Locals
  <2>7. run[s].pc # "closed"
    BY <2>4, SubFacts
  <2>8. Members(tree)' = Members(rest)
    BY <2>3 DEF Members
  <2>9. QED
    BY <1>2, <2>3, <2>4, <2>6, <2>7, <2>8 DEF WorkerInv, WorkerLocks, ServesOne
<1>5. CASE AddAgain
  <2>1. /\ run'[Worker].pc = "pop" /\ run'[Worker].then = "idle" /\ run'[Worker].serves = Nobody
        /\ run[Worker].pc = "again" /\ lock' = lock
    BY <1>1, <1>2, <1>5 DEF AddAgain, Locals
  <2>2. QED
    BY <1>2, <2>1 DEF WorkerInv, WorkerLocks, ServesOne
<1>6. CASE WorkDone
  <2>1. run'[Worker] = At("look") /\ run[Worker].pc = "pop" /\ lock' = lock
    BY <1>1, <1>6 DEF WorkDone, Goto
  <2>2. QED
    BY <1>2, <2>1 DEF At, WorkerInv, WorkerLocks, ServesOne
<1>7. QED
  BY <1>3, <1>4, <1>5, <1>6

LEMMA WorkerInvStep == TimerInv /\ WorkerInv /\ [LuxNext]_vars => WorkerInv'
<1> SUFFICES ASSUME TimerInv, WorkerInv, [LuxNext]_vars PROVE WorkerInv'
  OBVIOUS
<1>1. CASE UNCHANGED vars \/ Tick \/ IrqTick \/ ChainedHandler \/ Ack \/ Isr
  <2>1. UNCHANGED <<tree, lock, run>>
    BY <1>1 DEF vars, Tick, IrqTick, ChainedHandler, Ack, Isr
  <2>2. QED
    BY <2>1, WorkerAlone
<1>2. CASE Work
  BY <1>2, WorkerWorks, WorkerReprogram DEF Work
<1>3. QED
  BY <1>1, <1>2, WorkerOthers DEF LuxNext

LEMMA TimerInvariant == LuxSpec => [](TimerInv /\ WorkerInv)
<1>1. QED
  BY TimerInvInit, TimerInvStep, WorkerInvInit, WorkerInvStep, PTL DEF LuxSpec

(***************************************************************************)
(* The timer's state keeps its types: a deadline is at most one period     *)
(* past the clock's end, the tree is no larger than the number of open     *)
(* files, and enabled_users is the number of subscribers that are enabled  *)
(* (lux_timer_enable_bits, lux_timer_disable_bits).                        *)
(***************************************************************************)
THEOREM TimerTypes == LuxSpec => []LuxTypeOK
  BY TimerInvariant, TimerInvSuffices, PTL

(***************************************************************************)
(* The tree of alarms is ordered by deadline, holds nobody twice and       *)
(* nobody whose file is closed, for any number of subscribers that set,    *)
(* cancel and close while the worker takes nodes out and puts them back    *)
(* (lux_timer_enqueue, lux_timer_work_func, lux_timer_release).            *)
(***************************************************************************)
THEOREM TimerTreeSound == LuxSpec => []TreeSound
  BY TimerInvariant, TimerInvSuffices, PTL
-----------------------------------------------------------------------------
(***************************************************************************)
(* A lone subscriber's alarm.  Whoever has found the tree empty under the  *)
(* lock still finds it so when it switches the interrupt off.  ALM_SET     *)
(* looks without the lock, and so may be wrong, but only while the worker  *)
(* is ringing the alarm it has just set, and the alarm is periodic.  (With *)
(* two subscribers, the other's alarm may come in between as well.)  An    *)
(* MSI alone covers no alarm, for the handler that takes it may find no    *)
(* line pending: the invariant does without it.                            *)
(***************************************************************************)
ClearsOnEmpty ==
  \A p \in Threads :
    run[p].pc = "clear" => tree = <<>> \/ (p \in Subs /\ lock # p /\ sub[p].periodic)

Keeps == \A s \in Subs : (Alarmed(s) => Covered) => (Alarmed(s) => Covered)' \/ Misled(s)

LEMMA ClearsInit == LuxInit => ClearsOnEmpty
  BY DEF LuxInit, ClearsOnEmpty

LEMMA CoverDevice ==
  ASSUME TimerInv, ClearsOnEmpty, Tick \/ IrqTick \/ ChainedHandler \/ Ack \/ Isr
  PROVE  ClearsOnEmpty' /\ Keeps
<1>1. UNCHANGED <<tree, sub, users, lock, run, calls>> /\ timer \in Timers
  BY ThreadFacts DEF Tick, IrqTick, ChainedHandler, Ack, Isr
<1>2. ClearsOnEmpty'
  BY <1>1 DEF ClearsOnEmpty
<1>3. Covered => Covered'
  <2>1. CASE Tick
    <3>1. \E now, fires : timer' = [timer EXCEPT !.time = now, !.status = timer.status \/ fires,
                                       !.ctrl = IF fires THEN timer.ctrl \ {"IRQ"} ELSE timer.ctrl]
      BY <2>1 DEF Tick
    <3>2. UNCHANGED <<isr, queued>>
      BY <2>1 DEF Tick
    <3>3. timer.status' \/ timer'.ctrl = timer.ctrl
      BY <1>1, <3>1 DEF Timers
    <3>4. timer.status => timer'.status
      BY <1>1, <3>1 DEF Timers
    <3>5. QED
      BY <1>1, <3>2, <3>3, <3>4 DEF Covered
  <2>2. CASE IrqTick \/ ChainedHandler \/ Ack \/ Isr
    BY <1>1, <2>2 DEF IrqTick, ChainedHandler, Ack, Isr, Covered, Timers
  <2>3. QED
    BY <2>1, <2>2
<1>4. QED
  BY <1>1, <1>2, <1>3 DEF Keeps, Alarmed, InTree

LEMMA CoverReprogram ==
  ASSUME TimerInv, WorkerInv, ClearsOnEmpty, NEW s, Subs = {s}, NEW p \in Threads, Reprogram(p)
  PROVE  ClearsOnEmpty' /\ Keeps
<1>1. /\ run \in [Threads -> Locals] /\ run[p] \in Locals /\ Worker \in Threads
      /\ run[p].pc \in {"look", "clear", "program"} /\ timer \in Timers
      /\ UNCHANGED <<tree, sub>> /\ Nobody \notin Threads /\ s \in Subs
  BY ThreadFacts DEF Reprogram, LookEmpty, LookPast, LookFuture, Clear, Program
<1>2. \A q \in Threads \ {p} : run'[q] = run[q]
  BY <1>1 DEF Reprogram, LookEmpty, LookPast, LookFuture, Clear, Program, Resume, Goto
<1>3. /\ run'[p].pc = "clear" => tree = <<>>
      /\ lock' = lock \/ lock' = Nobody
  <2>1. CASE LookEmpty(p) \/ LookFuture(p)
    BY <1>1, <2>1 DEF LookEmpty, LookFuture, Locals
  <2>2. CASE LookPast(p) \/ Clear(p) \/ Program(p)
    <3>1. run'[p] = At(run[p].then) /\ lock' = IF lock = p THEN Nobody ELSE lock
      BY <1>1, <2>2 DEF LookPast, Clear, Program, Resume, Goto
    <3>2. run[p].then # "clear"
      BY <1>1 DEF Locals
    <3>3. QED
      BY <3>1, <3>2 DEF At
  <2>3. QED
    BY <2>1, <2>2 DEF Reprogram
<1>4. ClearsOnEmpty'
  BY <1>1, <1>2, <1>3 DEF ClearsOnEmpty
<1>5. tree = <<>> \/ Covered' \/ Misled(s)
  <2>1. CASE LookEmpty(p)
    BY <2>1 DEF LookEmpty
  <2>2. CASE LookPast(p)
    BY <2>2 DEF LookPast, Covered
  <2>3. CASE LookFuture(p)
    BY <1>1, <2>3 DEF LookFuture, Covered, Locals
  <2>4. CASE Program(p)
    BY <1>1, <2>4 DEF Program, Covered, Timers
  <2>5. CASE Clear(p)
    <3>1. run[p].pc = "clear"
      BY <2>5 DEF Clear
    <3>2. tree = <<>> \/ (p = s /\ lock # p /\ sub[p].periodic)
      BY <3>1 DEF ClearsOnEmpty
    <3>3. QED
      BY <3>1, <3>2 DEF Misled
  <2>6. QED
    BY <2>1, <2>2, <2>3, <2>4, <2>5 DEF Reprogram
<1>6. tree = <<>> => ~InTree(s)'
  BY <1>1 DEF InTree
<1>7. QED
  BY <1>4, <1>5, <1>6 DEF Keeps, Alarmed

LEMMA CoverWorker ==
  ASSUME TimerInv, WorkerInv, ClearsOnEmpty, NEW s, Subs = {s},
         WorkStart \/ Pop \/ AddAgain \/ WorkDone
  PROVE  ClearsOnEmpty' /\ Keeps
<1>1. /\ run \in [Threads -> Locals] /\ run[Worker] \in Locals /\ Worker \in Threads
      /\ Worker # s /\ Worker \notin Subs /\ Threads = {s, Worker}
      /\ sub \in [Subs -> Subscribers]
  BY ThreadFacts, SubFacts
<1>2. \A q \in Threads \ {Worker} : run'[q] = run[q]
  BY <1>1 DEF WorkStart, Pop, Rings, AddAgain, WorkDone, Goto
<1>3. run'[Worker].pc \in {"pop", "again", "look"}
  BY <1>1 DEF WorkStart, Pop, Rings, AddAgain, WorkDone, Goto, At, Locals
<1>4. lock' = Worker
  BY DEF WorkStart, Pop, Rings, AddAgain, WorkDone, WorkerInv, WorkerLocks
<1>5. Keeps
  BY <1>3 DEF Keeps, Covered
<1>6. ASSUME run'[s].pc = "clear" PROVE tree' = <<>> \/ sub'[s].periodic
  <2>1. tree = <<>> \/ sub[s].periodic
    BY <1>1, <1>2, <1>6 DEF ClearsOnEmpty
  <2>2. CASE WorkStart \/ WorkDone
    BY <2>1, <2>2 DEF WorkStart, WorkDone
  <2>3. CASE Pop
    <3>1. tree # <<>>
      BY <2>3 DEF Pop, Rings, Expired
    <3>2. PICK first : first = Head(tree)
      OBVIOUS
    <3>3. PICK r \in Subscribers : /\ first \in Subs /\ sub' = [sub EXCEPT ![first] = r]
                                   /\ r.periodic = sub[first].periodic
      BY <2>3, <3>2, RungOne
    <3>4. QED
      BY <1>1, <2>1, <3>1, <3>3
  <2>4. CASE AddAgain
    <3>1. run[Worker].serves = s /\ sub' = sub
      BY <2>4 DEF AddAgain, WorkerInv, ServesOne
    <3>2. sub[s].periodic \/ tree' = tree
      BY <2>4, <3>1 DEF AddAgain
    <3>3. QED
      BY <2>1, <3>1, <3>2
  <2>5. QED
    BY <2>2, <2>3, <2>4
<1>7. ClearsOnEmpty'
  BY <1>1, <1>3, <1>4, <1>6 DEF ClearsOnEmpty
<1>8. QED
  BY <1>5, <1>7

\* What the subscriber itself may do.
LEMMA CoverCall ==
  ASSUME TimerInv, WorkerInv, ClearsOnEmpty, NEW s, Subs = {s},
         \A q \in Threads \ {s} : run'[q] = run[q],
         run'[s].pc # "clear", (lock' = lock /\ tree' = tree) \/ lock = Nobody,
         \/ ~sub'[s].enabled \/ Covered'
         \/ (Covered => Covered') /\ tree' = tree /\ sub'[s].enabled = sub[s].enabled
  PROVE  ClearsOnEmpty' /\ Keeps
<1>1. Worker \in Threads /\ Worker # s /\ Threads = {s, Worker} /\ Worker # Nobody
  BY SubsAssumption DEF Threads
<1>2. ClearsOnEmpty'
  BY <1>1 DEF WorkerInv, WorkerLocks, ClearsOnEmpty
<1>3. Keeps
  BY DEF Keeps, Alarmed, InTree
<1>4. QED
  BY <1>2, <1>3

LEMMA CoverCalls ==
  ASSUME TimerInv, WorkerInv, ClearsOnEmpty, NEW s, Subs = {s}, Call(s) \/ Continue(s)
  PROVE  ClearsOnEmpty' /\ Keeps
<1>1. /\ s \in Subs /\ s \in Threads /\ s # Worker /\ Worker \in Threads
      /\ run \in [Threads -> Locals] /\ sub \in [Subs -> Subscribers] /\ timer \in Timers
  BY ThreadFacts, SubFacts
<1>2. CASE Reprogram(s)
  BY <1>1, <1>2, CoverReprogram
<1>3. CASE (Begin(s) /\ (AieOn(s) \/ PieOn(s))) \/ IrqpEnable(s)
  <2>1. timer' = [timer EXCEPT !.ctrl = Bits] /\ UNCHANGED <<tree, lock>>
    BY <1>3 DEF AieOn, PieOn, IrqpEnable, EnableBits
  <2>2. Covered'
    BY <1>1, <2>1 DEF Covered, Timers
  <2>3. \/ run' = run /\ run[s].pc = "idle"
        \/ run' = [run EXCEPT ![s] = At("idle")]
    BY <1>3 DEF Begin, Idle, AieOn, PieOn, IrqpEnable, Goto
  <2>4. run'[s].pc = "idle" /\ \A q \in Threads \ {s} : run'[q] = run[q]
    BY <1>1, <2>3 DEF At
  <2>5. QED
    BY <2>1, <2>2, <2>4, CoverCall
<1>4. CASE (\E phys \in Times : AlmSet(s, phys)) \/ (\E delta \in Deltas : IrqpSet(s, delta))
           \/ TimeSet(s)
  <2>1. lock = Nobody /\ run'[s].pc = "look" /\ \A q \in Threads \ {s} : run'[q] = run[q]
    BY <1>1, <1>4 DEF AlmSet, IrqpSet, TimeSet, Goto, At, Locals
  <2>2. Covered'
    BY <1>1, <2>1 DEF Covered
  <2>3. QED
    BY <2>1, <2>2, CoverCall
<1>5. CASE Release(s) \/ Open(s) \/ DisableBits(s)
  <2>1. ~sub'[s].enabled
    BY <1>1, <1>5 DEF Release, Open, DisableBits, Fresh, Subscribers
  <2>2. /\ \A q \in Threads \ {s} : run'[q] = run[q]
        /\ run'[s].pc # "clear" /\ ((lock' = lock /\ tree' = tree) \/ lock = Nobody)
    BY <1>1, <1>5 DEF Release, Open, DisableBits, Goto, At
  <2>3. QED
    BY <2>1, <2>2, CoverCall
<1>6. CASE Begin(s) /\ \E pc \in {"aie_off", "pie_off", "closing"} : BeginDisable(s, pc)
  <2>1. PICK pc \in {"aie_off", "pie_off", "closing"} : BeginDisable(s, pc)
    BY <1>6
  <2>2. /\ \A q \in Threads \ {s} : run'[q] = run[q]
        /\ run'[s].pc = pc /\ run[s].pc = "idle"
        /\ UNCHANGED <<timer, isr, queued, tree, lock, sub>>
    BY <1>1, <1>6, <2>1 DEF Begin, Idle, BeginDisable, Locals
  <2>3. Covered => Covered'
    BY <1>1, <2>2 DEF Covered
  <2>4. QED
    BY <2>2, <2>3, CoverCall
<1>7. CASE Read(s)
  <2>1. /\ run' = run /\ run[s].pc = "idle" /\ sub'[s].enabled = sub[s].enabled
        /\ UNCHANGED <<timer, isr, queued, tree, lock>>
    BY <1>1, <1>7 DEF Read, Idle, Subscribers
  <2>2. Covered => Covered'
    BY <2>1 DEF Covered
  <2>3. QED
    BY <2>1, <2>2, CoverCall
<1>8. QED
  BY <1>2, <1>3, <1>4, <1>5, <1>6, <1>7 DEF Call, Continue

LEMMA CoverStep ==
  ASSUME NEW s, Subs = {s}
  PROVE  TimerInv /\ WorkerInv /\ ClearsOnEmpty /\ [LuxNext]_vars => ClearsOnEmpty' /\ Keeps
<1> SUFFICES ASSUME TimerInv, WorkerInv, ClearsOnEmpty, [LuxNext]_vars
             PROVE  ClearsOnEmpty' /\ Keeps
  OBVIOUS
<1>1. CASE UNCHANGED vars
  BY <1>1 DEF vars, ClearsOnEmpty, Keeps, Alarmed, Covered, InTree
<1>2. CASE Work
  BY <1>2, ThreadFacts, CoverWorker, CoverReprogram DEF Work
<1>3. QED
  BY <1>1, <1>2, CoverDevice, CoverCalls DEF LuxNext

\* Whoever stops being periodic gives up the interrupt.
LEMMA StaysPeriodic ==
  ASSUME TimerInv, [LuxNext]_vars, NEW s \in Subs, sub[s].periodic
  PROVE  sub'[s].periodic \/ ~sub'[s].enabled
<1>1. sub \in [Subs -> Subscribers]
  BY SubFacts
<1>2. CASE sub' = sub
  BY <1>2
<1>3. CASE Pop
  <2>1. PICK first : first = Head(tree)
    OBVIOUS
  <2>2. PICK r \in Subscribers : /\ first \in Subs /\ sub' = [sub EXCEPT ![first] = r]
                                 /\ r.periodic = sub[first].periodic
    BY <1>3, <2>1, RungOne
  <2>3. QED
    BY <1>1, <2>2
<1>4. ASSUME NEW t \in Subs, Call(t) \/ Continue(t) PROVE sub'[s].periodic \/ ~sub'[s].enabled
  <2>1. CASE Open(t) \/ Release(t)
    BY <1>1, <2>1 DEF Open, Release, Fresh
  <2>2. CASE AieOn(t) \/ PieOn(t) \/ IrqpEnable(t)
    BY <1>1, <2>2 DEF AieOn, PieOn, IrqpEnable, EnableBits, Subscribers
  <2>3. CASE DisableBits(t)
    BY <1>1, <2>3 DEF DisableBits, Subscribers
  <2>4. CASE Read(t) \/ (\E phys \in Times : AlmSet(t, phys))
             \/ \E delta \in Deltas : IrqpSet(t, delta)
    <3>1. \/ sub' = [sub EXCEPT ![t].data = FALSE]
          \/ \E phys : sub' = [sub EXCEPT ![t].phys = phys]
          \/ \E phys, delta : sub' = [sub EXCEPT ![t].phys = phys, ![t].delta = delta]
      BY <2>4 DEF Read, AlmSet, IrqpSet
    <3>2. CASE sub' = [sub EXCEPT ![t].data = FALSE]
      BY <1>1, <3>2 DEF Subscribers
    <3>3. ASSUME NEW phys, sub' = [sub EXCEPT ![t].phys = phys]
          PROVE  sub'[s].periodic \/ ~sub'[s].enabled
      BY <1>1, <3>3 DEF Subscribers
    <3>4. ASSUME NEW phys, NEW delta, sub' = [sub EXCEPT ![t].phys = phys, ![t].delta = delta]
          PROVE  sub'[s].periodic \/ ~sub'[s].enabled
      BY <1>1, <3>4 DEF Subscribers
    <3>5. QED
      BY <3>1, <3>2, <3>3, <3>4
  <2>5. CASE Reprogram(t) \/ TimeSet(t)
             \/ \E pc \in {"aie_off", "pie_off", "closing"} : BeginDisable(t, pc)
    <3>1. sub' = sub
      BY <2>5 DEF Reprogram, LookEmpty, LookPast, LookFuture, Clear, Program, TimeSet, BeginDisable
    <3>2. QED
      BY <1>2, <3>1
  <2>6. QED
    BY <1>4, <2>1, <2>2, <2>3, <2>4, <2>5 DEF Call, Continue
<1>5. CASE Tick \/ IrqTick \/ ChainedHandler \/ Ack \/ Isr \/ UNCHANGED vars
  <2>1. sub' = sub
    BY <1>5 DEF Tick, IrqTick, ChainedHandler, Ack, Isr, vars
  <2>2. QED
    BY <1>2, <2>1
<1>6. CASE WorkStart \/ AddAgain \/ WorkDone \/ Reprogram(Worker)
  <2>1. sub' = sub
    BY <1>6 DEF WorkStart, AddAgain, WorkDone, Reprogram, LookEmpty, LookPast, LookFuture, Clear,
                Program
  <2>2. QED
    BY <1>2, <2>1
<1>7. QED
  BY <1>3, <1>4, <1>5, <1>6 DEF LuxNext, Work

LEMMA CoveredStep ==
  ASSUME TimerInv, [LuxNext]_vars, AlarmCovered, Keeps PROVE AlarmCovered'
<1> SUFFICES ASSUME NEW s \in Subs, Alarmed(s)', ~sub'[s].periodic PROVE Covered'
  BY DEF AlarmCovered
<1>1. sub'[s].enabled
  BY DEF Alarmed
<1>2. ~sub[s].periodic
  BY <1>1, StaysPeriodic
<1>3. (Alarmed(s) => Covered) /\ ~Misled(s)
  BY <1>2 DEF AlarmCovered, Misled
<1>4. QED
  BY <1>3 DEF Keeps

LEMMA CoveredInit == LuxInit => AlarmCovered
  BY DEF LuxInit, AlarmCovered, Alarmed, InTree

(***************************************************************************)
(* An alarm that a lone subscriber has set and enabled, and that rings     *)
(* once, is always somebody's business, however long the clock runs and    *)
(* whatever else the subscriber calls: the comparator is armed, the        *)
(* interrupt or the work is under way, or the subscriber is about to       *)
(* reprogram the timer.                                                    *)
(***************************************************************************)
THEOREM LoneAlarmCovered ==
  ASSUME \E s : Subs = {s} PROVE LuxSpec => []AlarmCovered
<1>1. TimerInv /\ WorkerInv /\ ClearsOnEmpty /\ [LuxNext]_vars => ClearsOnEmpty' /\ Keeps
  BY CoverStep
<1>2. TimerInv /\ [LuxNext]_vars /\ AlarmCovered /\ Keeps => AlarmCovered'
  BY CoveredStep
<1>3. QED
  BY <1>1, <1>2, TimerInvariant, ClearsInit, CoveredInit, PTL DEF LuxSpec

(***************************************************************************)
(* Periodic or not, a lone subscriber's alarm is forgotten in one way      *)
(* only, and no step of the device, the interrupt, the worker or another   *)
(* call brings it about: ALM_SET reprograms the timer without the lock     *)
(* (lux-timer-fops.c:386), finds the tree empty because the worker is      *)
(* ringing the alarm, and switches the interrupt off after the worker has  *)
(* added the alarm again.                                                  *)
(***************************************************************************)
THEOREM LoneAlarmKept ==
  ASSUME \E s : Subs = {s} PROVE LuxSpec => AlarmKept
<1>1. TimerInv /\ WorkerInv /\ ClearsOnEmpty /\ [LuxNext]_vars => ClearsOnEmpty' /\ Keeps
  BY CoverStep
<1>2. Keeps => [\A s \in Subs : (Alarmed(s) => Covered) => (Alarmed(s) => Covered)' \/ Misled(s)]_vars
  BY DEF Keeps
<1>3. QED
  BY <1>1, <1>2, TimerInvariant, ClearsInit, PTL DEF LuxSpec, AlarmKept
-----------------------------------------------------------------------------
(***************************************************************************)
(* The members of a queue with a node less, and with a node more.          *)
(***************************************************************************)
LEMMA NarrowerMembers ==
  ASSUME NEW queue \in Seq(Subs), NEW narrower \in Seq(Subs), NEW k \in 1 .. Len(queue),
         Narrower(queue, k, narrower), NEW phys, Sorted(queue, phys)
  PROVE  Members(narrower) = Members(queue) \ {queue[k]}
<1>1. PICK n : n = Len(queue)
  OBVIOUS
<1>2. n \in Nat /\ k \in 1 .. n /\ Len(narrower) = n - 1
  BY <1>1, LenProperties DEF Narrower
<1>3. \A i \in 1 .. (n - 1) : narrower[i] = IF i < k THEN queue[i] ELSE queue[i + 1]
  BY <1>2 DEF Narrower
<1>4. queue[k] \notin Members(narrower) /\ Members(narrower) \subseteq Members(queue)
  BY NarrowerSorted
<1>5. ASSUME NEW i \in 1 .. n, i # k PROVE queue[i] \in Members(narrower)
  <2>1. CASE i < k
    <3>1. i \in 1 .. (n - 1) /\ narrower[i] = queue[i]
      BY <1>2, <1>3, <2>1
    <3>2. QED
      BY <1>2, <3>1 DEF Members
  <2>2. CASE i > k
    <3>1. i - 1 \in 1 .. (n - 1) /\ ~(i - 1 < k) /\ (i - 1) + 1 = i
      BY <1>2, <2>2
    <3>2. narrower[i - 1] = queue[i]
      BY <1>3, <3>1
    <3>3. QED
      BY <1>2, <3>1, <3>2 DEF Members
  <2>3. QED
    BY <1>2, <1>5, <2>1, <2>2
<1>6. ASSUME NEW x \in Members(queue), x # queue[k] PROVE x \in Members(narrower)
  <2>1. PICK i \in 1 .. n : x = queue[i]
    BY <1>1 DEF Members
  <2>2. QED
    BY <1>5, <1>6, <2>1
<1>7. QED
  BY <1>4, <1>6

LEMMA WiderMembers ==
  ASSUME NEW queue \in Seq(Subs), NEW wider \in Seq(Subs), NEW k \in 0 .. Len(queue), NEW s,
         Wider(queue, k, s, wider)
  PROVE  Members(wider) = Members(queue) \cup {s}
<1>1. PICK n : n = Len(queue)
  OBVIOUS
<1>2. n \in Nat /\ k \in 0 .. n /\ Len(wider) = n + 1
  BY <1>1, LenProperties DEF Wider
<1>3. \A i \in 1 .. (n + 1) :
        wider[i] = IF i <= k THEN queue[i] ELSE IF i = k + 1 THEN s ELSE queue[i - 1]
  BY <1>2 DEF Wider
<1>4. k + 1 \in 1 .. (n + 1) /\ wider[k + 1] = s
  BY <1>2, <1>3
<1>5. s \in Members(wider)
  BY <1>2, <1>4 DEF Members
<1>6. ASSUME NEW i \in 1 .. n PROVE queue[i] \in Members(wider)
  <2>1. CASE i <= k
    <3>1. i \in 1 .. (n + 1) /\ wider[i] = queue[i]
      BY <1>2, <1>3, <2>1
    <3>2. QED
      BY <1>2, <3>1 DEF Members
  <2>2. CASE i > k
    <3>1. i + 1 \in 1 .. (n + 1) /\ ~(i + 1 <= k) /\ i + 1 # k + 1 /\ (i + 1) - 1 = i
      BY <1>2, <2>2
    <3>2. wider[i + 1] = queue[i]
      BY <1>3, <3>1
    <3>3. QED
      BY <1>2, <3>1, <3>2 DEF Members
  <2>3. QED
    BY <1>2, <2>1, <2>2
<1>7. ASSUME NEW i \in 1 .. (n + 1) PROVE wider[i] \in Members(queue) \cup {s}
  <2>1. CASE i <= k
    <3>1. i \in 1 .. n /\ wider[i] = queue[i]
      BY <1>2, <1>3, <2>1
    <3>2. QED
      BY <1>1, <3>1 DEF Members
  <2>2. CASE i = k + 1
    BY <1>4, <2>2
  <2>3. CASE i > k + 1
    <3>1. i - 1 \in 1 .. n /\ wider[i] = queue[i - 1]
      BY <1>2, <1>3, <2>3
    <3>2. QED
      BY <1>1, <3>1 DEF Members
  <2>4. QED
    BY <1>2, <2>1, <2>2, <2>3
<1>8. Members(queue) \subseteq Members(wider)
  BY <1>1, <1>6 DEF Members
<1>9. Members(wider) \subseteq Members(queue) \cup {s}
  BY <1>2, <1>7 DEF Members
<1>10. QED
  BY <1>5, <1>8, <1>9

LEMMA ErasedMembers ==
  ASSUME TimerInv, NEW s \in Subs
  PROVE  Members(Erase(s)) = Members(tree) \ {s}
<1>1. tree \in Seq(Subs) /\ Sorted(tree, Phys)
  BY DEF TimerInv, SubTypes, TreeOrdered
<1>2. PICK queue : queue = Erase(s)
  OBVIOUS
<1>3. CASE InTree(s)
  <2>1. PICK k : k = CHOOSE i \in 1 .. Len(tree) : tree[i] = s
    OBVIOUS
  <2>2. k \in 1 .. Len(tree) /\ tree[k] = s /\ queue = RemoveAt(tree, k)
    BY <1>2, <1>3, <2>1 DEF InTree, Erase
  <2>3. queue \in Seq(Subs) /\ Narrower(tree, k, queue)
    BY <1>1, <2>2, Removed
  <2>4. Members(queue) = Members(tree) \ {tree[k]}
    BY <1>1, <2>2, <2>3, NarrowerMembers
  <2>5. QED
    BY <1>2, <2>2, <2>4
<1>4. CASE ~InTree(s)
  <2>1. queue = tree /\ s \notin Members(tree)
    BY <1>2, <1>4 DEF InTree, Erase, Members
  <2>2. QED
    BY <1>2, <2>1
<1>5. QED
  BY <1>3, <1>4

LEMMA EnqueuedMembers ==
  ASSUME NEW queue \in Seq(Subs), NEW s \in Subs, NEW phys
  PROVE  Members(Enqueue(queue, s, phys)) = Members(queue) \cup {s}
<1>1. PICK n, D, k : n = Len(queue) /\ D = NotBefore(queue, phys) /\ k = Cardinality(D)
  OBVIOUS
<1>2. n \in Nat /\ D \subseteq 1 .. n
  BY <1>1, LenProperties DEF NotBefore
<1>3. k \in 0 .. n
  <2>1. IsFiniteSet(1 .. n) /\ Cardinality(1 .. n) = n
    BY <1>2, FS_Interval
  <2>2. IsFiniteSet(D) /\ k <= n
    BY <1>1, <1>2, <2>1, FS_Subset
  <2>3. k \in Nat
    BY <1>1, <2>2, FS_CardinalityType
  <2>4. QED
    BY <1>2, <2>2, <2>3
<1>4. PICK wider : wider = InsertAt(queue, k + 1, s)
  OBVIOUS
<1>5. wider \in Seq(Subs) /\ Wider(queue, k, s, wider)
  BY <1>1, <1>3, <1>4, Inserted
<1>6. Members(wider) = Members(queue) \cup {s}
  BY <1>1, <1>3, <1>5, WiderMembers
<1>7. QED
  BY <1>1, <1>4, <1>6 DEF Enqueue
-----------------------------------------------------------------------------
(***************************************************************************)
(* The alarms.  A periodic subscriber has a period, and so has one that    *)
(* IRQP_SET is about to make periodic.                                     *)
(***************************************************************************)
PeriodsInv ==
  \A s \in Subs :
    sub[s].periodic \/ run[s].then = "pie_on" \/ run[s].pc = "pie_on" => sub[s].delta # 0

Pending == {s \in Subs : InTree(s)}
Lengths == [s \in Subs |-> sub[s].delta]
Repeating == [s \in Subs |-> sub[s].periodic]
Rung == [s \in Subs |-> sub[s].data]
Ringing == {run[Worker].serves} \ {Nobody}

LEMMA PeriodsInit == LuxInit => PeriodsInv
  BY SubsAssumption DEF LuxInit, PeriodsInv, Fresh, At, Threads

\* One subscriber and its thread move; the others stay as they are.
LEMMA PeriodsKept ==
  ASSUME PeriodsInv, NEW s \in Subs,
         \A t \in Subs \ {s} : sub'[t] = sub[t] /\ run'[t] = run[t],
         \/ ~sub'[s].periodic /\ run'[s].then # "pie_on" /\ run'[s].pc # "pie_on"
         \/ sub'[s].delta # 0
  PROVE  PeriodsInv'
  BY DEF PeriodsInv

LEMMA PeriodsReprogram ==
  ASSUME TimerInv, PeriodsInv, NEW p \in Threads, Reprogram(p) PROVE PeriodsInv'
<1>1. /\ run \in [Threads -> Locals] /\ run[p] \in Locals /\ sub' = sub
      /\ \A q \in Subs : q \in Threads
  BY ThreadFacts DEF Reprogram, LookEmpty, LookPast, LookFuture, Clear, Program
<1>2. \A q \in Threads \ {p} : run'[q] = run[q]
  BY <1>1 DEF Reprogram, LookEmpty, LookPast, LookFuture, Clear, Program, Resume, Goto
<1>3. run'[p].then = "pie_on" \/ run'[p].pc = "pie_on" => run[p].then = "pie_on"
  <2>1. CASE LookEmpty(p) \/ LookFuture(p)
    BY <1>1, <2>1 DEF LookEmpty, LookFuture, Locals
  <2>2. CASE LookPast(p) \/ Clear(p) \/ Program(p)
    <3>1. run'[p] = At(run[p].then)
      BY <1>1, <2>2 DEF LookPast, Clear, Program, Resume, Goto
    <3>2. run'[p].then = "idle" /\ run'[p].pc = run[p].then
      BY <3>1 DEF At
    <3>3. QED
      BY <3>2
  <2>3. QED
    BY <2>1, <2>2 DEF Reprogram
<1>4. QED
  BY <1>1, <1>2, <1>3 DEF PeriodsInv

LEMMA PeriodsWorker ==
  ASSUME TimerInv, PeriodsInv, WorkStart \/ Pop \/ AddAgain \/ WorkDone PROVE PeriodsInv'
<1>1. /\ run \in [Threads -> Locals] /\ sub \in [Subs -> Subscribers] /\ tree \in Seq(Subs)
      /\ Worker \notin Subs /\ \A q \in Subs : q \in Threads
  BY ThreadFacts, SubFacts
<1>2. \A q \in Subs : run'[q] = run[q]
  BY <1>1 DEF WorkStart, Pop, Rings, AddAgain, WorkDone, Goto
<1>3. \A q \in Subs : sub'[q].periodic = sub[q].periodic /\ sub'[q].delta = sub[q].delta
  <2>1. CASE WorkStart \/ AddAgain \/ WorkDone
    BY <2>1 DEF WorkStart, AddAgain, WorkDone
  <2>2. CASE Pop
    <3>1. PICK s : s = Head(tree)
      OBVIOUS
    <3>2. PICK r \in Subscribers : /\ s \in Subs /\ sub' = [sub EXCEPT ![s] = r]
                                   /\ r.periodic = sub[s].periodic /\ r.delta = sub[s].delta
      BY <2>2, <3>1, RungOne
    <3>3. QED
      BY <1>1, <3>2
  <2>3. QED
    BY <2>1, <2>2
<1>4. QED
  BY <1>2, <1>3 DEF PeriodsInv

LEMMA PeriodsCalls ==
  ASSUME TimerInv, PeriodsInv, NEW s \in Subs, Call(s) \/ Continue(s) PROVE PeriodsInv'
<1>1. /\ s \in Threads /\ run \in [Threads -> Locals] /\ sub \in [Subs -> Subscribers]
      /\ sub[s] \in Subscribers /\ run[s] \in Locals /\ \A q \in Subs : q \in Threads
  BY ThreadFacts, SubFacts
<1>2. sub[s].periodic \/ run[s].then = "pie_on" \/ run[s].pc = "pie_on" => sub[s].delta # 0
  BY DEF PeriodsInv
<1>3. CASE Reprogram(s)
  BY <1>1, <1>3, PeriodsReprogram
<1>4. CASE Open(s) \/ Release(s)
  <2>1. /\ sub' = [sub EXCEPT ![s] = Fresh]
        /\ run' = [run EXCEPT ![s] = At("idle")] \/ run' = [run EXCEPT ![s] = At("closed")]
    BY <1>4 DEF Open, Release, Goto
  <2>2. ~sub'[s].periodic
    BY <1>1, <2>1 DEF Fresh
  <2>3. run'[s].then = "idle" /\ run'[s].pc \in {"idle", "closed"}
    BY <1>1, <2>1 DEF At
  <2>4. QED
    BY <1>1, <2>1, <2>2, <2>3, PeriodsKept
<1>5. CASE Read(s)
  <2>1. run' = run /\ sub' = [sub EXCEPT ![s].data = FALSE]
    BY <1>5 DEF Read
  <2>2. sub'[s].periodic = sub[s].periodic /\ sub'[s].delta = sub[s].delta
    BY <1>1, <2>1 DEF Subscribers
  <2>3. QED
    BY <1>1, <1>2, <2>1, <2>2, PeriodsKept
<1>6. CASE Begin(s) /\ (AieOn(s) \/ PieOn(s))
  <2>1. PICK reload \in BOOLEAN :
          /\ sub' = [sub EXCEPT ![s].enabled = TRUE, ![s].periodic = @ \/ reload]
          /\ run' = run /\ (reload => sub[s].delta # 0)
    BY <1>6 DEF AieOn, PieOn, EnableBits
  <2>2. sub'[s].delta = sub[s].delta /\ (sub'[s].periodic <=> sub[s].periodic \/ reload)
    BY <1>1, <2>1 DEF Subscribers
  <2>3. QED
    BY <1>1, <1>2, <2>1, <2>2, PeriodsKept
<1>7. CASE IrqpEnable(s)
  <2>1. /\ sub' = [sub EXCEPT ![s].enabled = TRUE, ![s].periodic = @ \/ TRUE]
        /\ run' = [run EXCEPT ![s] = At("idle")] /\ run[s].pc = "pie_on"
    BY <1>7 DEF IrqpEnable, EnableBits, Goto
  <2>2. sub'[s].delta = sub[s].delta
    BY <1>1, <2>1 DEF Subscribers
  <2>3. QED
    BY <1>1, <1>2, <2>1, <2>2, PeriodsKept
<1>8. CASE DisableBits(s)
  <2>1. PICK pc \in {"erase", "idle"} :
          /\ sub' = [sub EXCEPT ![s].enabled = FALSE,
                                ![s].periodic = @ /\ run[s].pc = "aie_off"]
          /\ run' = [run EXCEPT ![s] = At(pc)]
    BY <1>8 DEF DisableBits, Goto
  <2>2. sub'[s].delta = sub[s].delta /\ (sub'[s].periodic => sub[s].periodic)
    BY <1>1, <2>1 DEF Subscribers
  <2>3. run'[s].then = "idle" /\ run'[s].pc # "pie_on"
    BY <1>1, <2>1 DEF At
  <2>4. QED
    BY <1>1, <1>2, <2>1, <2>2, <2>3, PeriodsKept
<1>9. CASE Begin(s) /\ (TimeSet(s) \/ \E phys \in Times : AlmSet(s, phys))
  <2>1. run' = [run EXCEPT ![s] = At("look")]
    BY <1>9 DEF TimeSet, AlmSet, Goto
  <2>2. /\ \A t \in Subs \ {s} : sub'[t] = sub[t]
        /\ sub'[s].delta = sub[s].delta /\ sub'[s].periodic = sub[s].periodic
    BY <1>1, <1>9 DEF TimeSet, AlmSet, Subscribers
  <2>3. run'[s].then = "idle" /\ run'[s].pc = "look"
    BY <1>1, <2>1 DEF At
  <2>4. QED
    BY <1>1, <1>2, <2>1, <2>2, <2>3, PeriodsKept
<1>10. CASE Begin(s) /\ \E delta \in Deltas : IrqpSet(s, delta)
  <2>1. PICK delta \in Deltas :
          /\ \E phys : sub' = [sub EXCEPT ![s].phys = phys, ![s].delta = delta]
          /\ run' = [run EXCEPT ![s].pc = "look", ![s].then = "pie_on"]
    BY <1>10 DEF IrqpSet
  <2>2. sub'[s].delta = delta /\ delta # 0
    BY <1>1, <2>1, TimeTypes DEF Subscribers
  <2>3. QED
    BY <1>1, <2>1, <2>2, PeriodsKept
<1>11. CASE Begin(s) /\ \E pc \in {"aie_off", "pie_off", "closing"} : BeginDisable(s, pc)
  <2>1. PICK pc \in {"aie_off", "pie_off", "closing"} :
          /\ run' = [run EXCEPT ![s].pc = pc, ![s].seen = timer.ctrl] /\ sub' = sub
    BY <1>11 DEF BeginDisable
  <2>2. run'[s].pc = pc /\ run'[s].then = run[s].then
    BY <1>1, <2>1 DEF Locals
  <2>3. QED
    BY <1>1, <1>2, <2>1, <2>2, PeriodsKept
<1>12. QED
  BY <1>3, <1>4, <1>5, <1>6, <1>7, <1>8, <1>9, <1>10, <1>11 DEF Call, Continue

LEMMA PeriodsStep == TimerInv /\ PeriodsInv /\ [LuxNext]_vars => PeriodsInv'
<1> SUFFICES ASSUME TimerInv, PeriodsInv, [LuxNext]_vars PROVE PeriodsInv'
  OBVIOUS
<1>1. CASE UNCHANGED vars \/ Tick \/ IrqTick \/ ChainedHandler \/ Ack \/ Isr
  <2>1. UNCHANGED <<sub, run>>
    BY <1>1 DEF vars, Tick, IrqTick, ChainedHandler, Ack, Isr
  <2>2. QED
    BY <2>1 DEF PeriodsInv
<1>2. CASE Work
  BY <1>2, ThreadFacts, PeriodsWorker, PeriodsReprogram DEF Work
<1>3. QED
  BY <1>1, <1>2, PeriodsCalls DEF LuxNext
-----------------------------------------------------------------------------
(***************************************************************************)
(* What a step of the timer shows: an alarm moved, or nothing.             *)
(***************************************************************************)
LEMMA PendingIs ==
  ASSUME NEW queue \in Seq(Subs)
  PROVE  {s \in Subs : \E i \in 1 .. Len(queue) : queue[i] = s} = Members(queue)
<1>1. \A i \in 1 .. Len(queue) : queue[i] \in Subs
  BY LenProperties
<1>2. QED
  BY <1>1 DEF Members

LEMMA PendingMembers ==
  ASSUME TimerInv, TimerInv' PROVE Pending = Members(tree) /\ Pending' = Members(tree')
<1>1. PICK before, after : before = tree /\ after = tree'
  OBVIOUS
<1>2. before \in Seq(Subs) /\ after \in Seq(Subs)
  BY <1>1 DEF TimerInv, SubTypes
<1>3. /\ {s \in Subs : \E i \in 1 .. Len(before) : before[i] = s} = Members(before)
      /\ {s \in Subs : \E i \in 1 .. Len(after) : after[i] = s} = Members(after)
  BY <1>2, PendingIs
<1>4. QED
  BY <1>1, <1>3 DEF Pending, InTree

LEMMA ChangedAt ==
  ASSUME NEW D, NEW s \in D, NEW v, NEW f, f = [t \in D |-> f[t]], NEW g, g = [t \in D |-> g[t]],
         g[s] = v, \A t \in D \ {s} : g[t] = f[t]
  PROVE  g = [f EXCEPT ![s] = v]
<1>1. PICK h : h = [f EXCEPT ![s] = v]
  OBVIOUS
<1>2. DOMAIN f = D
  OBVIOUS
<1>3. h = [t \in D |-> IF t = s THEN v ELSE f[t]]
  BY <1>1, <1>2
<1>4. \A t \in D : g[t] = h[t]
  BY <1>3
<1>5. h = [t \in D |-> h[t]]
  BY <1>3
<1>6. g = h
  BY <1>4, <1>5
<1>7. QED
  BY <1>1, <1>6

LEMMA SubscriberSeen ==
  ASSUME TimerInv, NEW s \in Subs, NEW r \in Subscribers, sub' = [sub EXCEPT ![s] = r]
  PROVE  /\ Phys' = [Phys EXCEPT ![s] = r.phys]
         /\ Lengths' = [Lengths EXCEPT ![s] = r.delta]
         /\ Repeating' = [Repeating EXCEPT ![s] = r.periodic]
         /\ Rung' = [Rung EXCEPT ![s] = r.data]
<1>1. sub'[s] = r /\ \A t \in Subs \ {s} : sub'[t] = sub[t]
  BY SubChanged
<1>2. Phys' = [Phys EXCEPT ![s] = r.phys]
  <2>1. PICK f, g : f = Phys /\ g = Phys'
    OBVIOUS
  <2>2. f = [t \in Subs |-> sub[t].phys] /\ g = [t \in Subs |-> sub'[t].phys]
    BY <2>1 DEF Phys
  <2>3. f = [t \in Subs |-> f[t]] /\ g = [t \in Subs |-> g[t]]
    BY <2>2
  <2>4. g[s] = r.phys /\ \A t \in Subs \ {s} : g[t] = f[t]
    BY <1>1, <2>2
  <2>5. QED
    BY <2>1, <2>3, <2>4, ChangedAt
<1>3. Lengths' = [Lengths EXCEPT ![s] = r.delta]
  <2>1. PICK f, g : f = Lengths /\ g = Lengths'
    OBVIOUS
  <2>2. f = [t \in Subs |-> sub[t].delta] /\ g = [t \in Subs |-> sub'[t].delta]
    BY <2>1 DEF Lengths
  <2>3. f = [t \in Subs |-> f[t]] /\ g = [t \in Subs |-> g[t]]
    BY <2>2
  <2>4. g[s] = r.delta /\ \A t \in Subs \ {s} : g[t] = f[t]
    BY <1>1, <2>2
  <2>5. QED
    BY <2>1, <2>3, <2>4, ChangedAt
<1>4. Repeating' = [Repeating EXCEPT ![s] = r.periodic]
  <2>1. PICK f, g : f = Repeating /\ g = Repeating'
    OBVIOUS
  <2>2. f = [t \in Subs |-> sub[t].periodic] /\ g = [t \in Subs |-> sub'[t].periodic]
    BY <2>1 DEF Repeating
  <2>3. f = [t \in Subs |-> f[t]] /\ g = [t \in Subs |-> g[t]]
    BY <2>2
  <2>4. g[s] = r.periodic /\ \A t \in Subs \ {s} : g[t] = f[t]
    BY <1>1, <2>2
  <2>5. QED
    BY <2>1, <2>3, <2>4, ChangedAt
<1>5. Rung' = [Rung EXCEPT ![s] = r.data]
  <2>1. PICK f, g : f = Rung /\ g = Rung'
    OBVIOUS
  <2>2. f = [t \in Subs |-> sub[t].data] /\ g = [t \in Subs |-> sub'[t].data]
    BY <2>1 DEF Rung
  <2>3. f = [t \in Subs |-> f[t]] /\ g = [t \in Subs |-> g[t]]
    BY <2>2
  <2>4. g[s] = r.data /\ \A t \in Subs \ {s} : g[t] = f[t]
    BY <1>1, <2>2
  <2>5. QED
    BY <2>1, <2>3, <2>4, ChangedAt
<1>6. QED
  BY <1>2, <1>3, <1>4, <1>5

LEMMA FieldsKept ==
  ASSUME TimerInv, NEW s \in Subs, NEW r \in Subscribers, sub' = [sub EXCEPT ![s] = r]
  PROVE  /\ r.phys = sub[s].phys => Phys' = Phys
         /\ r.delta = sub[s].delta => Lengths' = Lengths
         /\ r.periodic = sub[s].periodic => Repeating' = Repeating
         /\ r.data = sub[s].data => Rung' = Rung
<1>1. sub'[s] = r /\ \A t \in Subs \ {s} : sub'[t] = sub[t]
  BY SubChanged
<1>2. r.phys = sub[s].phys => Phys' = Phys
  BY <1>1 DEF Phys
<1>3. r.delta = sub[s].delta => Lengths' = Lengths
  BY <1>1 DEF Lengths
<1>4. r.periodic = sub[s].periodic => Repeating' = Repeating
  BY <1>1 DEF Repeating
<1>5. r.data = sub[s].data => Rung' = Rung
  BY <1>1 DEF Rung
<1>6. QED
  BY <1>2, <1>3, <1>4, <1>5

LEMMA Unseen ==
  ASSUME timer'.time = timer.time, UNCHANGED <<tree, sub>>,
         run'[Worker].serves = run[Worker].serves
  PROVE  UNCHANGED Alarms!vars
<1>1. Pending' = Pending /\ Ringing' = Ringing
  BY DEF Pending, InTree, Ringing
<1>2. Phys' = Phys /\ Lengths' = Lengths /\ Repeating' = Repeating /\ Rung' = Rung
  BY DEF Phys, Lengths, Repeating, Rung
<1>3. QED
  BY <1>1, <1>2 DEF Alarms!vars, Pending, Phys, Lengths, Repeating, Rung, Ringing

\* Other threads do not touch what the worker is ringing, nor those that have the lock.
LEMMA RingingSeen ==
  ASSUME TimerInv, WorkerInv, NEW s \in Subs, Call(s) \/ Continue(s)
  PROVE  /\ run'[Worker] = run[Worker] /\ Ringing' = Ringing
         /\ lock = Nobody \/ run[s].pc = "closed" => s \notin Ringing
<1>1. /\ Worker \in Threads /\ s # Worker /\ run \in [Threads -> Locals] /\ Worker # Nobody
      /\ s # Nobody
  BY ThreadFacts
<1>2. run'[Worker] = run[Worker]
  <2>1. CASE Open(s) \/ Read(s) \/ AieOn(s) \/ PieOn(s) \/ TimeSet(s) \/ IrqpEnable(s)
             \/ DisableBits(s) \/ Release(s)
    BY <1>1, <2>1 DEF Open, Read, AieOn, PieOn, TimeSet, IrqpEnable, DisableBits, Release, Goto
  <2>2. CASE \/ \E pc \in {"aie_off", "pie_off", "closing"} : BeginDisable(s, pc)
             \/ \E phys \in Times : AlmSet(s, phys)
             \/ \E delta \in Deltas : IrqpSet(s, delta)
    BY <1>1, <2>2 DEF BeginDisable, AlmSet, IrqpSet, Goto
  <2>3. CASE Reprogram(s)
    BY <1>1, <2>3 DEF Reprogram, LookEmpty, LookPast, LookFuture, Clear, Program, Resume, Goto
  <2>4. QED
    BY <2>1, <2>2, <2>3 DEF Call, Continue
<1>3. ASSUME lock = Nobody \/ run[s].pc = "closed" PROVE s \notin Ringing
  <2>1. CASE run[Worker].pc = "again"
    <3>1. run[run[Worker].serves].pc # "closed" /\ lock = Worker
      BY <2>1 DEF WorkerInv, WorkerLocks, ServesOne
    <3>2. run[Worker].serves # s
      BY <1>1, <1>3, <3>1
    <3>3. QED
      BY <3>2 DEF Ringing
  <2>2. CASE run[Worker].pc # "again"
    BY <1>1, <2>2 DEF WorkerInv, ServesOne, Ringing
  <2>3. QED
    BY <2>1, <2>2
<1>4. QED
  BY <1>2, <1>3 DEF Ringing

LEMMA DeviceSeen ==
  ASSUME TimerInv, Tick \/ IrqTick \/ ChainedHandler \/ Ack \/ Isr
  PROVE  Alarms!Next \/ UNCHANGED Alarms!vars
<1>1. UNCHANGED <<tree, sub, run>> /\ timer \in Timers /\ timer.time \in Times
  BY ThreadFacts DEF Tick, IrqTick, ChainedHandler, Ack, Isr
<1>2. CASE Tick
  <2>1. PICK now \in (IF timer.time = MaxTime THEN {MaxTime} ELSE timer.time + 1 .. MaxTime) :
          timer'.time = now
    BY <1>1, <1>2 DEF Tick, Timers
  <2>2. now \in Times /\ (now = timer.time \/ now > timer.time)
    BY <1>1, <2>1, TimeTypes DEF Times
  <2>3. CASE now = timer.time
    BY <1>1, <2>1, <2>3, Unseen
  <2>4. CASE now > timer.time
    <3>1. Pending' = Pending /\ Ringing' = Ringing
      BY <1>1 DEF Pending, InTree, Ringing
    <3>2. Phys' = Phys /\ Lengths' = Lengths /\ Repeating' = Repeating /\ Rung' = Rung
      BY <1>1 DEF Phys, Lengths, Repeating, Rung
    <3>3. timer'.time \in Times /\ timer'.time > timer.time
      BY <2>1, <2>2, <2>4
    <3>4. Alarms!Advance
      BY <3>1, <3>2, <3>3 DEF Alarms!Advance, Pending, Phys, Lengths, Repeating, Rung,
                                   Ringing
    <3>5. QED
      BY <3>4 DEF Alarms!Next
  <2>5. QED
    BY <2>2, <2>3, <2>4
<1>3. CASE IrqTick \/ ChainedHandler \/ Ack \/ Isr
  <2>1. timer'.time = timer.time
    BY <1>1, <1>3 DEF IrqTick, ChainedHandler, Ack, Isr, Timers
  <2>2. QED
    BY <1>1, <2>1, Unseen
<1>4. QED
  BY <1>2, <1>3

LEMMA QuietSeen ==
  ASSUME TimerInv, WorkerInv, WorkStart \/ WorkDone \/ Reprogram(Worker)
  PROVE  UNCHANGED Alarms!vars
<1>1. /\ timer \in Timers /\ Worker \in Threads /\ run \in [Threads -> Locals]
      /\ run[Worker] \in Locals
  BY ThreadFacts
<1>2. UNCHANGED <<tree, sub>>
  BY DEF WorkStart, WorkDone, Reprogram, LookEmpty, LookPast, LookFuture, Clear, Program
<1>3. timer'.time = timer.time
  BY <1>1 DEF WorkStart, WorkDone, Reprogram, LookEmpty, LookPast, LookFuture, Clear, Program,
              Timers
<1>4. run[Worker].serves = Nobody
  BY DEF WorkStart, WorkDone, Reprogram, LookEmpty, LookPast, LookFuture, Clear, Program,
         WorkerInv, ServesOne
<1>5. run'[Worker].serves = Nobody
  <2>1. CASE WorkStart \/ LookEmpty(Worker) \/ LookFuture(Worker)
    BY <1>1, <1>4, <2>1 DEF WorkStart, LookEmpty, LookFuture, Locals
  <2>2. CASE WorkDone \/ LookPast(Worker) \/ Clear(Worker) \/ Program(Worker)
    BY <1>1, <2>2 DEF WorkDone, LookPast, Clear, Program, Resume, Goto, At
  <2>3. QED
    BY <2>1, <2>2 DEF Reprogram
<1>6. QED
  BY <1>2, <1>3, <1>4, <1>5, Unseen

LEMMA QuietCallSeen ==
  ASSUME TimerInv, WorkerInv, NEW s \in Subs, Call(s) \/ Continue(s),
         \/ Reprogram(s) \/ TimeSet(s)
         \/ \E pc \in {"aie_off", "pie_off", "closing"} : BeginDisable(s, pc)
  PROVE  UNCHANGED Alarms!vars
<1>1. timer \in Timers
  BY ThreadFacts
<1>2. UNCHANGED <<tree, sub>>
  BY DEF TimeSet, BeginDisable, Reprogram, LookEmpty, LookPast, LookFuture, Clear, Program
<1>3. timer'.time = timer.time
  BY <1>1 DEF TimeSet, BeginDisable, Reprogram, LookEmpty, LookPast, LookFuture, Clear, Program,
              Timers
<1>4. QED
  BY <1>2, <1>3, RingingSeen, Unseen

LEMMA SetSeen ==
  ASSUME TimerInv, TimerInv', NEW s \in Subs, NEW phys, tree' = Enqueue(Erase(s), s, phys)
  PROVE  Pending' = Pending \cup {s}
<1>1. PICK rest : rest = Erase(s)
  OBVIOUS
<1>2. rest \in Seq(Subs) /\ Members(rest) = Members(tree) \ {s}
  BY <1>1, Erased, ErasedMembers
<1>3. Members(Enqueue(rest, s, phys)) = Members(rest) \cup {s}
  BY <1>2, EnqueuedMembers
<1>4. Members(tree') = (Members(tree) \ {s}) \cup {s}
  BY <1>1, <1>2, <1>3
<1>5. QED
  BY <1>4, PendingMembers

\* The alarm and the period of a subscriber that was just freed, or is new.
LEMMA ForgetSeen ==
  ASSUME TimerInv, WorkerInv, TimerInv', NEW s \in Subs, Open(s) \/ Release(s) PROVE Alarms!Forget(s)
<1>1. sub' = [sub EXCEPT ![s] = Fresh] /\ timer' = timer
  BY DEF Open, Release
<1>2. /\ Fresh \in Subscribers /\ Fresh.phys = 0 /\ Fresh.delta = 0
      /\ Fresh.periodic = FALSE /\ Fresh.data = FALSE
  BY TimeTypes DEF Fresh, Subscribers
<1>3. /\ Phys' = [Phys EXCEPT ![s] = 0] /\ Lengths' = [Lengths EXCEPT ![s] = 0]
      /\ Repeating' = [Repeating EXCEPT ![s] = FALSE] /\ Rung' = [Rung EXCEPT ![s] = FALSE]
  <2>1. PICK r \in Subscribers : r = Fresh
    BY <1>2
  <2>2. /\ Phys' = [Phys EXCEPT ![s] = r.phys] /\ Lengths' = [Lengths EXCEPT ![s] = r.delta]
        /\ Repeating' = [Repeating EXCEPT ![s] = r.periodic]
        /\ Rung' = [Rung EXCEPT ![s] = r.data]
    BY <1>1, <2>1, SubscriberSeen
  <2>3. QED
    BY <1>2, <2>1, <2>2, Zenon
<1>4. Members(tree') = Members(tree) \ {s}
  <2>1. CASE Open(s)
    <3>1. s \notin Members(tree) /\ tree' = tree
      BY <2>1, SubFacts DEF Open
    <3>2. QED
      BY <3>1
  <2>2. CASE Release(s)
    <3>1. tree' = Erase(s)
      BY <2>2 DEF Release
    <3>2. QED
      BY <3>1, ErasedMembers
  <2>3. QED
    BY <2>1, <2>2
<1>5. Pending' = Pending \ {s}
  BY <1>4, PendingMembers
<1>6. s \notin Ringing /\ Ringing' = Ringing
  <2>1. /\ Call(s) \/ Continue(s)
        /\ lock = Nobody \/ run[s].pc = "closed"
    BY DEF Call, Continue, Open, Release
  <2>2. QED
    BY <2>1, RingingSeen
<1>7. QED
  BY <1>1, <1>3, <1>5, <1>6 DEF Alarms!Forget, Pending, Phys, Lengths, Repeating, Rung, Ringing

LEMMA ReadSeen == ASSUME TimerInv, NEW s \in Subs, Read(s) PROVE Alarms!Take(s)
<1>1. sub[s] \in Subscribers /\ sub[s].data /\ UNCHANGED <<timer, tree, run>>
  BY SubFacts DEF Read
<1>2. PICK r : r = [sub[s] EXCEPT !.data = FALSE]
  OBVIOUS
<1>3. /\ r \in Subscribers /\ r.data = FALSE /\ r.phys = sub[s].phys
      /\ r.delta = sub[s].delta /\ r.periodic = sub[s].periodic
  BY <1>1, <1>2 DEF Subscribers
<1>4. sub' = [sub EXCEPT ![s] = r]
  BY <1>1, <1>2, SubFacts DEF Read
<1>5. /\ Rung' = [Rung EXCEPT ![s] = FALSE]
      /\ Phys' = Phys /\ Lengths' = Lengths /\ Repeating' = Repeating
  <2>1. Rung' = [Rung EXCEPT ![s] = r.data]
    BY <1>3, <1>4, SubscriberSeen
  <2>2. Rung' = [Rung EXCEPT ![s] = FALSE]
    BY <1>3, <2>1, Zenon
  <2>3. QED
    BY <1>3, <1>4, <2>2, FieldsKept
<1>6. Pending' = Pending /\ Ringing' = Ringing
  BY <1>1 DEF Pending, InTree, Ringing
<1>7. Rung[s]
  BY <1>1 DEF Rung
<1>8. QED
  BY <1>1, <1>5, <1>6, <1>7 DEF Alarms!Take, Pending, Phys, Lengths, Repeating, Rung,
                                    Ringing

LEMMA EnableSeen ==
  ASSUME TimerInv, NEW s \in Subs, NEW reload \in BOOLEAN, EnableBits(s, reload),
         reload => sub[s].delta # 0, run'[Worker] = run[Worker]
  PROVE  Alarms!Repeat(s) \/ UNCHANGED Alarms!vars
<1>1. /\ sub[s] \in Subscribers /\ timer \in Timers /\ timer' = [timer EXCEPT !.ctrl = Bits]
      /\ tree' = tree
  BY SubFacts, ThreadFacts DEF EnableBits
<1>2. timer'.time = timer.time
  BY <1>1 DEF Timers
<1>3. PICK r : r = [sub[s] EXCEPT !.enabled = TRUE, !.periodic = sub[s].periodic \/ reload]
  OBVIOUS
<1>4. /\ r \in Subscribers /\ r.periodic = (sub[s].periodic \/ reload)
      /\ r.phys = sub[s].phys /\ r.delta = sub[s].delta /\ r.data = sub[s].data
  BY <1>1, <1>3 DEF Subscribers
<1>5. sub' = [sub EXCEPT ![s] = r]
  BY <1>1, <1>3, SubFacts DEF EnableBits
<1>6. Phys' = Phys /\ Lengths' = Lengths /\ Rung' = Rung
  BY <1>4, <1>5, FieldsKept
<1>7. Pending' = Pending /\ Ringing' = Ringing
  BY <1>1 DEF Pending, InTree, Ringing
<1>8. CASE reload
  <2>1. r.periodic = TRUE
    BY <1>4, <1>8
  <2>2. Repeating' = [Repeating EXCEPT ![s] = r.periodic]
    BY <1>4, <1>5, SubscriberSeen
  <2>3. Repeating' = [Repeating EXCEPT ![s] = TRUE]
    BY <2>1, <2>2, Zenon
  <2>4. Lengths[s] # 0
    BY <1>8 DEF Lengths
  <2>5. QED
    BY <1>2, <1>6, <1>7, <2>3, <2>4
       DEF Alarms!Repeat, Pending, Phys, Lengths, Repeating, Rung, Ringing
<1>9. CASE ~reload
  <2>1. r.periodic = sub[s].periodic
    BY <1>1, <1>4, <1>9 DEF Subscribers
  <2>2. Repeating' = Repeating
    BY <1>4, <1>5, <2>1, FieldsKept
  <2>3. QED
    BY <1>2, <1>6, <1>7, <2>2 DEF Alarms!vars, Pending, Phys, Lengths, Repeating, Rung, Ringing
<1>10. QED
  BY <1>8, <1>9

LEMMA DisableSeen ==
  ASSUME TimerInv, NEW s \in Subs, DisableBits(s), run'[Worker] = run[Worker]
  PROVE  Alarms!Once(s) \/ UNCHANGED Alarms!vars
<1>1. /\ sub[s] \in Subscribers /\ timer \in Timers /\ tree' = tree
      /\ timer' = timer \/ timer' = [timer EXCEPT !.ctrl = {}]
  BY SubFacts, ThreadFacts DEF DisableBits
<1>2. timer'.time = timer.time
  BY <1>1 DEF Timers
<1>3. PICK on \in BOOLEAN : on = (sub[s].periodic /\ run[s].pc = "aie_off")
  OBVIOUS
<1>4. PICK r : r = [sub[s] EXCEPT !.enabled = FALSE, !.periodic = on]
  OBVIOUS
<1>5. /\ r \in Subscribers /\ r.periodic = on
      /\ r.phys = sub[s].phys /\ r.delta = sub[s].delta /\ r.data = sub[s].data
  BY <1>1, <1>4 DEF Subscribers
<1>6. sub' = [sub EXCEPT ![s] = r]
  BY <1>1, <1>3, <1>4, SubFacts DEF DisableBits
<1>7. Phys' = Phys /\ Lengths' = Lengths /\ Rung' = Rung
  BY <1>5, <1>6, FieldsKept
<1>8. Pending' = Pending /\ Ringing' = Ringing
  BY <1>1 DEF Pending, InTree, Ringing
<1>9. CASE ~on
  <2>1. r.periodic = FALSE
    BY <1>5, <1>9
  <2>2. Repeating' = [Repeating EXCEPT ![s] = r.periodic]
    BY <1>5, <1>6, SubscriberSeen
  <2>3. Repeating' = [Repeating EXCEPT ![s] = FALSE]
    BY <2>1, <2>2, Zenon
  <2>4. QED
    BY <1>2, <1>7, <1>8, <2>3 DEF Alarms!Once, Pending, Phys, Lengths, Repeating, Rung, Ringing
<1>10. CASE on
  <2>1. r.periodic = sub[s].periodic
    BY <1>1, <1>3, <1>5, <1>10 DEF Subscribers
  <2>2. Repeating' = Repeating
    BY <1>5, <1>6, <2>1, FieldsKept
  <2>3. QED
    BY <1>2, <1>7, <1>8, <2>2 DEF Alarms!vars, Pending, Phys, Lengths, Repeating, Rung, Ringing
<1>11. QED
  BY <1>9, <1>10

LEMMA AlmSetSeen ==
  ASSUME TimerInv, TimerInv', NEW s \in Subs, NEW phys \in Times, AlmSet(s, phys),
         s \notin Ringing, Ringing' = Ringing
  PROVE  Alarms!Set(s, phys)
<1>1. /\ sub[s] \in Subscribers /\ timer' = timer /\ tree' = Enqueue(Erase(s), s, phys)
  BY SubFacts DEF AlmSet
<1>2. PICK r : r = [sub[s] EXCEPT !.phys = phys]
  OBVIOUS
<1>3. /\ r \in Subscribers /\ r.phys = phys /\ r.data = sub[s].data
      /\ r.delta = sub[s].delta /\ r.periodic = sub[s].periodic
  BY <1>1, <1>2, TimeTypes DEF Subscribers
<1>4. sub' = [sub EXCEPT ![s] = r]
  BY <1>1, <1>2, SubFacts DEF AlmSet
<1>5. /\ Phys' = [Phys EXCEPT ![s] = phys]
      /\ Rung' = Rung /\ Lengths' = Lengths /\ Repeating' = Repeating
  BY <1>3, <1>4, SubscriberSeen, FieldsKept
<1>6. Pending' = Pending \cup {s}
  BY <1>1, SetSeen
<1>7. QED
  BY <1>1, <1>5, <1>6 DEF Alarms!Set, Pending, Phys, Lengths, Repeating, Rung, Ringing

LEMMA IrqpSetSeen ==
  ASSUME TimerInv, TimerInv', NEW s \in Subs, NEW delta \in Deltas, IrqpSet(s, delta),
         s \notin Ringing, Ringing' = Ringing
  PROVE  Alarms!SetPeriod(s, delta)
<1>1. sub[s] \in Subscribers /\ timer' = timer /\ timer.time \in Times
  BY SubFacts, ThreadFacts DEF IrqpSet
<1>2. PICK now \in {timer.time, timer.time - 1} \cap Times :
        /\ sub' = [sub EXCEPT ![s].phys = now + delta, ![s].delta = delta]
        /\ tree' = Enqueue(Erase(s), s, now + delta)
  BY DEF IrqpSet
<1>3. now \in Times /\ now <= timer.time
  BY <1>1, <1>2, TimeTypes
<1>4. PICK phys \in Deadlines : phys = now + delta
  BY <1>3, TimeTypes
<1>5. PICK r : r = [sub[s] EXCEPT !.phys = phys, !.delta = delta]
  OBVIOUS
<1>6. /\ r \in Subscribers /\ r.phys = phys /\ r.delta = delta
      /\ r.data = sub[s].data /\ r.periodic = sub[s].periodic
  BY <1>1, <1>5 DEF Subscribers
<1>7. sub' = [sub EXCEPT ![s] = r]
  BY <1>1, <1>2, <1>4, <1>5, SubFacts
<1>8. /\ Phys' = [Phys EXCEPT ![s] = phys] /\ Lengths' = [Lengths EXCEPT ![s] = delta]
      /\ Rung' = Rung /\ Repeating' = Repeating
  BY <1>6, <1>7, SubscriberSeen, FieldsKept
<1>9. Pending' = Pending \cup {s}
  BY <1>2, SetSeen
<1>10. \E since \in Times : since <= timer.time /\ Phys' = [Phys EXCEPT ![s] = since + delta]
  BY <1>3, <1>4, <1>8
<1>11. QED
  BY <1>1, <1>8, <1>9, <1>10 DEF Alarms!SetPeriod, Pending, Phys, Lengths, Repeating, Rung,
                                           Ringing

\* The node the worker takes out is due, for it read the time before.
LEMMA PopSeen ==
  ASSUME TimerInv, WorkerInv, TimerInv', run[Worker].at <= timer.time, Pop
  PROVE  \E s \in Subs : Alarms!Ring(s)
<1>1. /\ tree # <<>> /\ timer' = timer /\ run[Worker].pc = "pop"
      /\ run[Worker].at \in Times /\ timer.time \in Times /\ Nobody \notin Subs
      /\ Worker \in Threads /\ run \in [Threads -> Locals] /\ run[Worker] \in Locals
  BY ThreadFacts DEF Pop, Rings, Expired, WorkPcs
<1>2. PICK s : s = Head(tree)
  OBVIOUS
<1>3. PICK rest : rest = Tail(tree)
  OBVIOUS
<1>4. /\ s \in Subs /\ s \in Members(tree) /\ Members(rest) = Members(tree) \ {s}
  <2>1. /\ s \in Subs /\ s \in Members(tree) /\ rest \in Seq(Subs) /\ 1 \in 1 .. Len(tree)
        /\ s = tree[1] /\ Narrower(tree, 1, rest)
    BY <1>1, <1>2, <1>3, FirstOut
  <2>2. Members(rest) = Members(tree) \ {tree[1]}
    BY <2>1, NarrowerMembers DEF TimerInv, SubTypes, TreeOrdered
  <2>3. QED
    BY <2>1, <2>2
<1>5. /\ sub[s].phys \in Times /\ sub[s].phys <= run[Worker].at
      /\ \E r \in Subscribers :
           /\ sub' = [sub EXCEPT ![s] = r]
           /\ r.phys = IF sub[s].periodic THEN sub[s].phys + sub[s].delta ELSE 0
           /\ r.data = TRUE /\ r.delta = sub[s].delta /\ r.periodic = sub[s].periodic
  BY <1>2, RungOne
<1>6. PICK r \in Subscribers :
        /\ sub' = [sub EXCEPT ![s] = r]
        /\ r.phys = IF sub[s].periodic THEN sub[s].phys + sub[s].delta ELSE 0
        /\ r.data = TRUE /\ r.delta = sub[s].delta /\ r.periodic = sub[s].periodic
  BY <1>5
<1>7. PICK next : next = r.phys
  OBVIOUS
<1>8. /\ Phys' = [Phys EXCEPT ![s] = next] /\ Rung' = [Rung EXCEPT ![s] = TRUE]
      /\ Lengths' = Lengths /\ Repeating' = Repeating
  <2>1. PICK data : data = r.data
    OBVIOUS
  <2>2. Phys' = [Phys EXCEPT ![s] = next] /\ Rung' = [Rung EXCEPT ![s] = data]
    BY <1>4, <1>6, <1>7, <2>1, SubscriberSeen
  <2>3. Rung' = [Rung EXCEPT ![s] = TRUE]
    BY <1>6, <2>1, <2>2, Zenon
  <2>4. QED
    BY <1>4, <1>6, <2>2, <2>3, FieldsKept
<1>9. next = IF Repeating[s] THEN Phys[s] + Lengths[s] ELSE 0
  BY <1>4, <1>6, <1>7 DEF Phys, Lengths, Repeating
<1>10. Phys' = [Phys EXCEPT ![s] = Alarms!NextDue(s)]
  <2>1. next = Alarms!NextDue(s)
    BY <1>9 DEF Alarms!NextDue, Phys, Lengths, Repeating
  <2>2. QED
    BY <1>8, <2>1
<1>11. s \in Pending /\ Phys[s] <= timer.time /\ Pending' = Pending \ {s}
  <2>1. Members(tree') = Members(tree) \ {s}
    BY <1>3, <1>4 DEF Pop, Rings
  <2>2. s \in Pending /\ Pending' = Pending \ {s}
    BY <1>4, <2>1, PendingMembers
  <2>3. sub[s].phys <= timer.time
    <3>1. sub[s].phys \in Times /\ sub[s].phys <= run[Worker].at
      BY <1>5
    <3>2. sub[s].phys \in Nat /\ run[Worker].at \in Nat /\ timer.time \in Nat
      BY <1>1, <3>1, TimeTypes
    <3>3. QED
      BY <3>1, <3>2
  <2>4. Phys[s] = sub[s].phys
    BY <1>4 DEF Phys
  <2>5. QED
    BY <2>2, <2>3, <2>4
<1>12. Ringing = {} /\ Ringing' = {s}
  <2>1. run[Worker].serves = Nobody
    BY <1>1 DEF WorkerInv, ServesOne
  <2>2. run' = [run EXCEPT ![Worker].pc = "again", ![Worker].serves = s]
    BY <1>2 DEF Pop, Rings
  <2>3. run'[Worker].serves = s
    BY <1>1, <2>2 DEF Locals
  <2>4. QED
    BY <1>1, <1>4, <2>1, <2>3 DEF Ringing
<1>13. Alarms!Ring(s)
  BY <1>1, <1>8, <1>10, <1>11, <1>12
     DEF Alarms!Ring, Pending, Phys, Lengths, Repeating, Rung, Ringing
<1>14. QED
  BY <1>4, <1>13

LEMMA AgainSeen ==
  ASSUME TimerInv, WorkerInv, TimerInv', AddAgain
  PROVE  \E s \in Subs : Alarms!Again(s)
<1>1. /\ timer' = timer /\ sub' = sub /\ run[Worker].pc = "again" /\ Nobody \notin Subs
      /\ Worker \in Threads /\ run \in [Threads -> Locals] /\ run[Worker] \in Locals
      /\ tree \in Seq(Subs)
  BY ThreadFacts, SubFacts DEF AddAgain
<1>2. PICK s : s = run[Worker].serves
  OBVIOUS
<1>3. s \in Subs
  BY <1>1, <1>2 DEF WorkerInv, ServesOne
<1>4. s \in Ringing /\ Ringing' = {}
  <2>1. run'[Worker].serves = Nobody
    BY <1>1 DEF AddAgain, Locals
  <2>2. QED
    BY <1>1, <1>2, <1>3, <2>1 DEF Ringing
<1>5. Phys' = Phys /\ Lengths' = Lengths /\ Repeating' = Repeating /\ Rung' = Rung
  BY <1>1 DEF Phys, Lengths, Repeating, Rung
<1>6. Pending' = IF Repeating[s] THEN Pending \cup {s} ELSE Pending
  <2>1. Repeating[s] = sub[s].periodic
    BY <1>3 DEF Repeating
  <2>2. CASE sub[s].periodic
    <3>1. tree' = Enqueue(tree, s, sub[s].phys)
      BY <1>2, <2>2 DEF AddAgain
    <3>2. Members(tree') = Members(tree) \cup {s}
      BY <1>1, <1>3, <3>1, EnqueuedMembers
    <3>3. QED
      BY <2>1, <2>2, <3>2, PendingMembers
  <2>3. CASE ~sub[s].periodic
    <3>1. tree' = tree
      BY <1>2, <2>3 DEF AddAgain
    <3>2. QED
      BY <2>1, <2>3, <3>1, PendingMembers
  <2>4. QED
    BY <2>2, <2>3
<1>7. Alarms!Again(s)
  BY <1>1, <1>4, <1>5, <1>6 DEF Alarms!Again, Pending, Phys, Lengths, Repeating, Rung, Ringing
<1>8. QED
  BY <1>3, <1>7
-----------------------------------------------------------------------------
(***************************************************************************)
(* The worker compares deadlines with a time it read: the clock has only   *)
(* gone on since.                                                          *)
(***************************************************************************)
TimeRead == run[Worker].pc \in WorkPcs => run[Worker].at <= timer.time

LEMMA TimeReadInit == LuxInit => TimeRead
<1>1. LuxInit => run[Worker] = At("idle")
  BY DEF LuxInit, Threads
<1>2. QED
  BY <1>1 DEF TimeRead, At, WorkPcs

LEMMA TimeReadStep == TimerInv /\ WorkerInv /\ TimeRead /\ [LuxNext]_vars => TimeRead'
<1> SUFFICES ASSUME TimerInv, WorkerInv, TimeRead, [LuxNext]_vars PROVE TimeRead'
  OBVIOUS
<1>1. /\ run \in [Threads -> Locals] /\ Worker \in Threads /\ run[Worker] \in Locals
      /\ timer \in Timers /\ timer.time \in Times
      /\ \A s \in Subs : s \in Threads /\ s # Worker
      /\ run[Worker].pc \in WorkPcs => run[Worker].at \in Times
  BY ThreadFacts
<1>2. CASE Tick
  <2>1. PICK now \in (IF timer.time = MaxTime THEN {MaxTime} ELSE timer.time + 1 .. MaxTime) :
          timer'.time = now /\ run' = run
    BY <1>1, <1>2 DEF Tick, Timers
  <2>2. now \in Times /\ now >= timer.time
    BY <1>1, <2>1, TimeTypes DEF Times
  <2>3. ASSUME run[Worker].pc \in WorkPcs PROVE run[Worker].at <= now
    <3>1. run[Worker].at \in Nat /\ timer.time \in Nat /\ now \in Nat
      BY <1>1, <2>2, <2>3, TimeTypes
    <3>2. run[Worker].at <= timer.time
      BY <2>3 DEF TimeRead
    <3>3. QED
      BY <2>2, <3>1, <3>2
  <2>4. QED
    BY <2>1, <2>3 DEF TimeRead
<1>3. CASE WorkStart
  <2>1. run'[Worker].at = timer.time /\ timer'.time = timer.time
    BY <1>1, <1>3 DEF WorkStart, Locals
  <2>2. timer.time \in Nat
    BY <1>1, TimeTypes
  <2>3. QED
    BY <2>1, <2>2 DEF TimeRead
<1>4. CASE WorkDone \/ Reprogram(Worker)
  <2>1. run'[Worker].pc \notin WorkPcs
    BY <1>1, <1>4 DEF WorkDone, Reprogram, LookEmpty, LookPast, LookFuture, Clear, Program, Resume,
                      Goto, At, Locals, WorkPcs
  <2>2. QED
    BY <2>1 DEF TimeRead
<1>5. CASE Pop \/ AddAgain
  BY <1>5, WorkerTurns DEF TimeRead
<1>6. CASE IrqTick \/ ChainedHandler \/ Ack \/ Isr \/ UNCHANGED vars
  <2>1. run' = run /\ timer'.time = timer.time
    BY <1>1, <1>6 DEF IrqTick, ChainedHandler, Ack, Isr, vars, Timers
  <2>2. QED
    BY <2>1 DEF TimeRead
<1>7. ASSUME NEW s \in Subs, Call(s) \/ Continue(s) PROVE TimeRead'
  <2>1. run'[Worker] = run[Worker]
    BY <1>7, RingingSeen
  <2>2. timer'.time = timer.time
    <3>1. CASE Open(s) \/ Read(s) \/ Release(s)
               \/ \E pc \in {"aie_off", "pie_off", "closing"} : BeginDisable(s, pc)
      BY <3>1 DEF Open, Read, Release, BeginDisable
    <3>2. CASE AieOn(s) \/ PieOn(s) \/ TimeSet(s) \/ IrqpEnable(s) \/ DisableBits(s)
      BY <1>1, <3>2 DEF AieOn, PieOn, TimeSet, IrqpEnable, DisableBits, EnableBits, Timers
    <3>3. CASE (\E phys \in Times : AlmSet(s, phys)) \/ (\E delta \in Deltas : IrqpSet(s, delta))
      BY <3>3 DEF AlmSet, IrqpSet
    <3>4. CASE Reprogram(s)
      BY <1>1, <3>4 DEF Reprogram, LookEmpty, LookPast, LookFuture, Clear, Program, Timers
    <3>5. QED
      BY <1>7, <3>1, <3>2, <3>3, <3>4 DEF Call, Continue
  <2>3. QED
    BY <2>1, <2>2 DEF TimeRead
<1>8. QED
  BY <1>2, <1>3, <1>4, <1>5, <1>6, <1>7 DEF LuxNext, Work

LEMMA AlarmsInit == LuxInit => Alarms!Init
<1> SUFFICES ASSUME LuxInit PROVE Alarms!Init
  OBVIOUS
<1>1. tree = <<>> /\ timer.time = 0 /\ sub = [s \in Subs |-> Fresh]
  BY DEF LuxInit
<1>2. Pending = {} /\ Ringing = {}
  <2>1. run[Worker] = At("idle")
    BY DEF LuxInit, Threads
  <2>2. QED
    BY <1>1, <2>1 DEF Pending, InTree, Ringing, At
<1>3. /\ Phys = [s \in Subs |-> 0] /\ Lengths = [s \in Subs |-> 0]
      /\ Repeating = [s \in Subs |-> FALSE] /\ Rung = [s \in Subs |-> FALSE]
  BY <1>1 DEF Phys, Lengths, Repeating, Rung, Fresh
<1>4. QED
  BY <1>1, <1>2, <1>3 DEF Alarms!Init, Pending, Phys, Lengths, Repeating, Rung, Ringing

LEMMA CallSeen ==
  ASSUME TimerInv, WorkerInv, TimerInv', PeriodsInv, NEW s \in Subs, Call(s) \/ Continue(s)
  PROVE  Alarms!Next \/ UNCHANGED Alarms!vars
<1> /\ run'[Worker] = run[Worker] /\ Ringing' = Ringing
    /\ lock = Nobody \/ run[s].pc = "closed" => s \notin Ringing
  BY RingingSeen
<1>1. CASE Open(s) \/ Release(s)
  BY <1>1, ForgetSeen DEF Alarms!Next
<1>2. CASE Read(s)
  BY <1>2, ReadSeen DEF Alarms!Next
<1>3. CASE AieOn(s) \/ PieOn(s) \/ IrqpEnable(s)
  <2>1. \E reload \in BOOLEAN : EnableBits(s, reload) /\ (reload => sub[s].delta # 0)
    BY <1>3 DEF AieOn, PieOn, IrqpEnable, PeriodsInv
  <2>2. Alarms!Repeat(s) \/ UNCHANGED Alarms!vars
    BY <2>1, EnableSeen
  <2>3. QED
    BY <2>2 DEF Alarms!Next
<1>4. CASE DisableBits(s)
  <2>1. Alarms!Once(s) \/ UNCHANGED Alarms!vars
    BY <1>4, DisableSeen
  <2>2. QED
    BY <2>1 DEF Alarms!Next
<1>5. ASSUME NEW phys \in Times, AlmSet(s, phys) PROVE Alarms!Next
  <2>1. s \notin Ringing
    BY <1>5 DEF AlmSet
  <2>2. Alarms!Set(s, phys)
    BY <1>5, <2>1, AlmSetSeen
  <2>3. QED
    BY <2>2 DEF Alarms!Next
<1>6. ASSUME NEW delta \in Deltas, IrqpSet(s, delta) PROVE Alarms!Next
  <2>1. s \notin Ringing
    BY <1>6 DEF IrqpSet
  <2>2. Alarms!SetPeriod(s, delta)
    BY <1>6, <2>1, IrqpSetSeen
  <2>3. QED
    BY <2>2 DEF Alarms!Next
<1>7. CASE Reprogram(s) \/ TimeSet(s)
           \/ \E pc \in {"aie_off", "pie_off", "closing"} : BeginDisable(s, pc)
  BY <1>7, QuietCallSeen
<1>8. QED
  BY <1>1, <1>2, <1>3, <1>4, <1>5, <1>6, <1>7 DEF Call, Continue

LEMMA StepSeen ==
  ASSUME TimerInv, WorkerInv, TimerInv', PeriodsInv, TimeRead, [LuxNext]_vars
  PROVE  [Alarms!Next]_(Alarms!vars)
<1>1. CASE UNCHANGED vars
  <2>1. timer' = timer /\ UNCHANGED <<tree, sub, run>>
    BY <1>1 DEF vars
  <2>2. QED
    BY <2>1, Unseen
<1>2. CASE Pop
  <2>1. \E s \in Subs : Alarms!Ring(s)
    BY <1>2, PopSeen DEF TimeRead, Pop, Rings, WorkPcs
  <2>2. QED
    BY <2>1 DEF Alarms!Next
<1>3. CASE AddAgain
  <2>1. \E s \in Subs : Alarms!Again(s)
    BY <1>3, AgainSeen
  <2>2. QED
    BY <2>1 DEF Alarms!Next
<1>4. CASE WorkStart \/ WorkDone \/ Reprogram(Worker)
  BY <1>4, QuietSeen
<1>5. QED
  BY <1>1, <1>2, <1>3, <1>4, DeviceSeen, CallSeen DEF LuxNext, Work

(***************************************************************************)
(* The timer implements AlarmService, for any number of subscribers, any   *)
(* periods and however long the clock runs: whichever way the tree is      *)
(* ordered, and whatever the subscribers do to theirs while the worker has *)
(* the lock or somebody reprograms the timer without it, no alarm rings    *)
(* before it is due (lux_timer_work_func compares with a time that can     *)
(* only have passed), none is moved or dropped by another's call or close, *)
(* and a periodic one keeps its beat.                                      *)
(***************************************************************************)
THEOREM TimerImplementsAlarms == LuxSpec => ImplementsAlarms
<1>1. TimerInv /\ WorkerInv /\ TimerInv' /\ PeriodsInv /\ TimeRead /\ [LuxNext]_vars
        => [Alarms!Next]_(Alarms!vars)
  BY StepSeen
<1>2. QED
  BY <1>1, TimerInvariant, PeriodsInit, PeriodsStep, TimeReadInit, TimeReadStep, AlarmsInit, PTL
     DEF LuxSpec, ImplementsAlarms, Alarms!Spec
================================================================================
