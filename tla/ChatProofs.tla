------------------------------- MODULE ChatProofs -------------------------------
(***************************************************************************)
(* Proofs about ChatService: the age of answers, the bound and the keys of *)
(* the cache, the cooldown between runs and the rate limiter, for every    *)
(* set of users and questions, every limit and every cache size.           *)
(***************************************************************************)
EXTENDS ChatService, FoldTheorems, SequenceTheorems

-----------------------------------------------------------------------------
(* The invariant *)

\* An entry that is not expired rests on data at most a run older than it.
Sound ==
  {e \in [question : Questions, age : 0 .. CacheTTL + 1, dataAge : 0 .. CacheTTL + RunLimit + 1] :
     e.age <= CacheTTL => e.dataAge <= e.age + RunLimit}

Distinct(entries) ==
  \A i, j \in 1 .. Len(entries) : entries[i].question = entries[j].question => i = j

CacheInv == cache \in Seq(Sound) /\ Distinct(cache) /\ Len(cache) <= CacheMax

Runs == [question : Questions, age : 0 .. RunLimit, owner : Users \cup {"none"}]

\* The only start within the cooldown is the last one.
RunInv ==
  /\ last \in 0 .. Cooldown /\ runs \in SUBSET Runs
  /\ started = IF last < Cooldown THEN <<last>> ELSE <<>>

Clients ==
  [pc : {"idle", "sent", "waiting"}, what : Questions \cup Reports \cup {"none"},
   age : 0 .. ClientLimit, dataAge : 0 .. CacheTTL + RunLimit]

UserInv == user \in [Users -> Clients]

\* The limiter's events are in the order they came, and those it still has to
\* count are the accepted commands of the last 60 seconds.
Limited(events, recent) ==
  /\ events \in Seq(0 .. Window + 1) /\ recent \in Seq(0 .. Window)
  /\ \A i, j \in 1 .. Len(events) : i <= j => events[i] >= events[j]
  /\ recent = Recent(events) /\ Len(recent) <= RateMax

WindowInv ==
  /\ DOMAIN window = Users /\ DOMAIN accepted = Users
  /\ window = [u \in Users |-> window[u]] /\ accepted = [u \in Users |-> accepted[u]]
  /\ \A u \in Users : Limited(window[u], accepted[u])

ChatInv == CacheInv /\ RunInv /\ UserInv /\ WindowInv

LEMMA ChatBounds ==
  /\ RateMax \in Nat \ {0} /\ Window \in Nat \ {0} /\ ClientLimit \in Nat \ {0}
  /\ RunLimit \in Nat \ {0} /\ Cooldown \in Nat \ {0} /\ CacheTTL \in Nat \ {0}
  /\ CacheMax \in Nat \ {0} /\ "none" \notin Users
BY ChatAssumption

-----------------------------------------------------------------------------
(* Sequences of which the head goes *)

\* The first of some places.
LEMMA FirstPlace ==
  ASSUME NEW n \in Nat, NEW places \in SUBSET (1 .. n), places # {}
  PROVE  Min(places) \in places /\ \A p \in places : Min(places) <= p
<1>1. IsFiniteSet(1 .. n)
  <2>1. 1 \in Int /\ n \in Int
    OBVIOUS
  <2> QED
    BY ONLY <2>1, FS_Interval
<1>2. IsFiniteSet(places)
  BY <1>1, FS_Subset
<1>3. places \in SUBSET Int
  OBVIOUS
<1> QED
  BY <1>2, <1>3, ExtremesExist

\* Without its first elements, a sequence keeps the others.
LEMMA WithoutFirst ==
  ASSUME NEW S, NEW seq \in Seq(S), NEW d \in Nat, d <= Len(seq)
  PROVE  /\ SubSeq(seq, d + 1, Len(seq)) \in Seq(S)
         /\ Len(SubSeq(seq, d + 1, Len(seq))) = Len(seq) - d
         /\ \A i \in 1 .. Len(seq) - d : SubSeq(seq, d + 1, Len(seq))[i] = seq[d + i]
<1> DEFINE n == Len(seq)
<1>1. n \in Nat /\ \A i \in 1 .. n : seq[i] \in S
  BY LenProperties, ElementOfSeq
<1> HIDE DEF n
<1>2. d + 1 \in Int /\ n \in Int /\ \A i \in d + 1 .. n : seq[i] \in S
  BY <1>1
<1>3. /\ SubSeq(seq, d + 1, n) \in Seq(S)
      /\ Len(SubSeq(seq, d + 1, n)) = IF d + 1 <= n THEN n - (d + 1) + 1 ELSE 0
      /\ \A i \in 1 .. n - (d + 1) + 1 : SubSeq(seq, d + 1, n)[i] = seq[(d + 1) + i - 1]
  BY <1>2, SubSeqProperties
<1>4. d <= n
  BY DEF n
<1>5. Len(SubSeq(seq, d + 1, n)) = n - d
  BY <1>1, <1>3, <1>4
<1>6. \A i \in 1 .. n - d : SubSeq(seq, d + 1, n)[i] = seq[d + i]
  <2>1. n - (d + 1) + 1 = n - d
    BY <1>1
  <2>2. \A i \in 1 .. n - d : (d + 1) + i - 1 = d + i
    BY <1>1
  <2> QED
    BY <1>3, <2>1, <2>2
<1> QED
  BY <1>3, <1>5, <1>6 DEF n

\* From there on: a sequence of what is left.
LEMMA FromProperties ==
  ASSUME NEW S, NEW seq \in Seq(S), NEW places \in SUBSET (1 .. Len(seq))
  PROVE  /\ From(seq, places) \in Seq(S)
         /\ places = {} => Len(From(seq, places)) = 0
         /\ places # {} =>
              /\ Min(places) \in places /\ \A p \in places : Min(places) <= p
              /\ Len(From(seq, places)) = Len(seq) - Min(places) + 1
              /\ \A i \in 1 .. Len(From(seq, places)) :
                   From(seq, places)[i] = seq[Min(places) + i - 1]
<1>1. Len(seq) \in Nat /\ \A i \in 1 .. Len(seq) : seq[i] \in S
  BY LenProperties, ElementOfSeq
<1>2. CASE places = {}
  BY <1>2, EmptySeq DEF From
<1>3. CASE places # {}
  <2>1. Min(places) \in places /\ \A p \in places : Min(places) <= p
    BY <1>1, <1>3, FirstPlace
  <2> DEFINE m == Min(places)
             n == Len(seq)
  <2>2. m \in Int /\ n \in Int /\ 1 <= m /\ m <= n /\ \A i \in m .. n : seq[i] \in S
    <3>1. m \in 1 .. n /\ n \in Nat /\ \A i \in 1 .. n : seq[i] \in S
      BY <1>1, <2>1
    <3> HIDE DEF m, n
    <3> QED
      BY <3>1
  <2>3. From(seq, places) = SubSeq(seq, m, n)
    BY <1>3 DEF From
  <2> HIDE DEF m, n
  <2>4. /\ SubSeq(seq, m, n) \in Seq(S)
        /\ Len(SubSeq(seq, m, n)) = IF m <= n THEN n - m + 1 ELSE 0
        /\ \A i \in 1 .. n - m + 1 : SubSeq(seq, m, n)[i] = seq[m + i - 1]
    BY <2>2, SubSeqProperties
  <2> QED
    BY <1>3, <2>1, <2>2, <2>3, <2>4 DEF m, n
<1> QED
  BY <1>2, <1>3

\* Without one element, the others keep their order.
LEMMA RemoveAtProperties ==
  ASSUME NEW S, NEW seq \in Seq(S), NEW k \in 1 .. Len(seq)
  PROVE  /\ RemoveAt(seq, k) \in Seq(S)
         /\ Len(RemoveAt(seq, k)) = Len(seq) - 1
         /\ \A i \in 1 .. Len(seq) - 1 :
              RemoveAt(seq, k)[i] = IF i < k THEN seq[i] ELSE seq[i + 1]
<1> DEFINE n == Len(seq)
           left == SubSeq(seq, 1, k - 1)
           right == SubSeq(seq, k + 1, n)
<1>1. n \in Nat /\ k \in Nat /\ 1 <= k /\ k <= n /\ \A i \in 1 .. n : seq[i] \in S
  BY LenProperties, ElementOfSeq
<1> HIDE DEF n
<1>2. /\ left \in Seq(S) /\ Len(left) = k - 1
      /\ \A i \in 1 .. k - 1 : left[i] = seq[i]
  <2>1. 1 \in Int /\ k - 1 \in Int /\ \A i \in 1 .. k - 1 : seq[i] \in S
    BY <1>1
  <2>2. /\ SubSeq(seq, 1, k - 1) \in Seq(S)
        /\ Len(SubSeq(seq, 1, k - 1)) = IF 1 <= k - 1 THEN (k - 1) - 1 + 1 ELSE 0
        /\ \A i \in 1 .. (k - 1) - 1 + 1 : SubSeq(seq, 1, k - 1)[i] = seq[1 + i - 1]
    BY <2>1, SubSeqProperties
  <2> QED
    BY <1>1, <2>2
<1>3. /\ right \in Seq(S) /\ Len(right) = n - k
      /\ \A i \in 1 .. n - k : right[i] = seq[k + i]
  <2>1. k + 1 \in Int /\ n \in Int /\ \A i \in k + 1 .. n : seq[i] \in S
    BY <1>1
  <2>2. /\ SubSeq(seq, k + 1, n) \in Seq(S)
        /\ Len(SubSeq(seq, k + 1, n)) = IF k + 1 <= n THEN n - (k + 1) + 1 ELSE 0
        /\ \A i \in 1 .. n - (k + 1) + 1 : SubSeq(seq, k + 1, n)[i] = seq[(k + 1) + i - 1]
    BY <2>1, SubSeqProperties
  <2> QED
    BY <1>1, <2>2
<1>4. RemoveAt(seq, k) = left \o right
  BY DEF RemoveAt, n
<1> HIDE DEF left, right
<1>5. /\ left \o right \in Seq(S)
      /\ Len(left \o right) = Len(left) + Len(right)
      /\ \A i \in 1 .. Len(left) + Len(right) :
           (left \o right)[i] = IF i <= Len(left) THEN left[i] ELSE right[i - Len(left)]
  BY <1>2, <1>3, ConcatProperties
<1>6. Len(left) + Len(right) = n - 1
  BY <1>1, <1>2, <1>3
<1>7. ASSUME NEW i \in 1 .. n - 1
      PROVE  (left \o right)[i] = IF i < k THEN seq[i] ELSE seq[i + 1]
  <2>1. CASE i < k
    BY <1>1, <1>2, <1>5, <1>6, <2>1
  <2>2. CASE ~(i < k)
    <3>1. i - (k - 1) \in 1 .. n - k /\ k + (i - (k - 1)) = i + 1
      BY <1>1, <2>2
    <3>2. (left \o right)[i] = right[i - (k - 1)]
      BY <1>1, <1>2, <1>5, <1>6, <2>2
    <3>3. right[i - (k - 1)] = seq[k + (i - (k - 1))]
      BY <1>3, <3>1
    <3> QED
      BY <2>2, <3>1, <3>2, <3>3
  <2> QED
    BY <2>1, <2>2
<1> QED
  BY <1>1, <1>4, <1>5, <1>6, <1>7 DEF n

-----------------------------------------------------------------------------
(* The cache *)

\* What is left of a cache keeps its keys.
LEMMA LeftOver ==
  ASSUME NEW all \in Seq(Sound), Distinct(all), NEW some \in Seq(Sound), NEW d \in Nat,
         Len(all) = d + Len(some), \A i \in 1 .. Len(some) : some[i] = all[d + i]
  PROVE  Distinct(some)
<1>1. Len(all) \in Nat /\ Len(some) \in Nat
  BY LenProperties
<1> SUFFICES ASSUME NEW i \in 1 .. Len(some), NEW j \in 1 .. Len(some),
                    some[i].question = some[j].question
             PROVE  i = j
  BY DEF Distinct
<1>2. d + i \in 1 .. Len(all) /\ d + j \in 1 .. Len(all)
  BY <1>1
<1>3. all[d + i].question = all[d + j].question
  OBVIOUS
<1>4. d + i = d + j
  BY <1>2, <1>3 DEF Distinct
<1> QED
  BY <1>1, <1>4

\* The cleanup leaves a cache within its bound.
LEMMA CleanedSound ==
  ASSUME NEW entries \in Seq(Sound), Distinct(entries)
  PROVE  Cleaned(entries) \in Seq(Sound) /\ Distinct(Cleaned(entries))
         /\ Len(Cleaned(entries)) <= CacheMax
<1> DEFINE young == {i \in DOMAIN entries : entries[i].age <= CacheTTL}
           kept == WithoutOldHead(entries)
           over == Len(kept) - CacheMax
<1>1. Len(entries) \in Nat /\ DOMAIN entries = 1 .. Len(entries) /\ CacheMax \in Nat
  BY LenProperties, ChatBounds
<1>2. young \in SUBSET (1 .. Len(entries)) /\ kept = From(entries, young)
  BY <1>1 DEF WithoutOldHead
<1> HIDE DEF young, kept
<1>3. kept \in Seq(Sound) /\ Len(kept) \in Nat
  BY <1>2, FromProperties, LenProperties
<1>4. Distinct(kept)
  <2>1. CASE young = {}
    <3>1. Len(kept) = 0
      BY <1>2, <2>1, FromProperties
    <3> QED
      BY <3>1 DEF Distinct
  <2>2. CASE young # {}
    <3>1. /\ Min(young) \in 1 .. Len(entries)
          /\ Len(kept) = Len(entries) - Min(young) + 1
          /\ \A i \in 1 .. Len(kept) : kept[i] = entries[Min(young) + i - 1]
      BY <1>2, <2>2, FromProperties
    <3> DEFINE d == Min(young) - 1
    <3>2. d \in Nat /\ Len(entries) = d + Len(kept)
      BY <1>1, <1>3, <3>1
    <3>3. \A i \in 1 .. Len(kept) : Min(young) + i - 1 = d + i
      BY <1>1, <1>3, <3>1
    <3>4. \A i \in 1 .. Len(kept) : kept[i] = entries[d + i]
      BY <3>1, <3>3
    <3> HIDE DEF d
    <3> QED
      BY <1>3, <3>2, <3>4, LeftOver
  <2> QED
    BY <2>1, <2>2
<1>5. CASE over > 0
  <2>1. over \in Nat /\ over <= Len(kept) /\ Len(kept) - over = CacheMax
    BY <1>1, <1>3, <1>5
  <2>2. Cleaned(entries) = SubSeq(kept, over + 1, Len(kept))
    BY <1>5 DEF Cleaned, kept
  <2> HIDE DEF over
  <2>3. /\ Cleaned(entries) \in Seq(Sound)
        /\ Len(Cleaned(entries)) = Len(kept) - over
        /\ \A i \in 1 .. Len(kept) - over : Cleaned(entries)[i] = kept[over + i]
    BY <1>3, <2>1, <2>2, WithoutFirst
  <2>4. Len(kept) = over + Len(Cleaned(entries))
    BY <1>3, <2>1, <2>3
  <2>5. Distinct(Cleaned(entries))
    BY <1>3, <1>4, <2>1, <2>3, <2>4, LeftOver
  <2> QED
    BY <1>1, <2>1, <2>3, <2>5
<1>6. CASE ~(over > 0)
  <2>1. Cleaned(entries) = kept
    BY <1>6 DEF Cleaned, kept
  <2> QED
    BY <1>1, <1>3, <1>4, <1>6, <2>1
<1> QED
  BY <1>5, <1>6

\* Without its entry for a question, a cache has none for it.
LEMMA OthersSound ==
  ASSUME NEW entries \in Seq(Sound), Distinct(entries), NEW q
  PROVE  /\ Others(entries, q) \in Seq(Sound) /\ Distinct(Others(entries, q))
         /\ \A i \in 1 .. Len(Others(entries, q)) : Others(entries, q)[i].question # q
         /\ Len(Others(entries, q)) =
              IF Places(entries, q) = {} THEN Len(entries) ELSE Len(entries) - 1
<1> DEFINE n == Len(entries)
<1>1. n \in Nat /\ DOMAIN entries = 1 .. n
  BY LenProperties
<1>2. Places(entries, q) = {i \in 1 .. n : entries[i].question = q}
  BY <1>1 DEF Places
<1>3. CASE Places(entries, q) = {}
  BY <1>2, <1>3 DEF Others
<1>4. CASE Places(entries, q) # {}
  <2> DEFINE k == Min(Places(entries, q))
             rest == RemoveAt(entries, k)
  <2>1. k \in Places(entries, q)
    <3>1. Places(entries, q) \in SUBSET (1 .. n)
      BY <1>2
    <3> QED
      BY <1>1, <1>4, <3>1, FirstPlace
  <2>2. k \in 1 .. n /\ entries[k].question = q
    BY <1>2, <2>1
  <2>3. Others(entries, q) = rest
    BY <1>4 DEF Others
  <2> HIDE DEF k
  <2>4. /\ rest \in Seq(Sound) /\ Len(rest) = n - 1
        /\ \A i \in 1 .. n - 1 : rest[i] = IF i < k THEN entries[i] ELSE entries[i + 1]
    BY <2>2, RemoveAtProperties
  <2> HIDE DEF rest, n
  <2> DEFINE old(i) == IF i < k THEN i ELSE i + 1
  <2>5. ASSUME NEW i \in 1 .. n - 1
        PROVE  old(i) \in 1 .. n /\ old(i) # k /\ rest[i] = entries[old(i)]
    BY <1>1, <2>2, <2>4
  <2>6. \A i, j \in 1 .. n - 1 : old(i) = old(j) => i = j
    BY <1>1, <2>2
  <2> HIDE DEF old
  <2>7. Distinct(rest)
    <3> SUFFICES ASSUME NEW i \in 1 .. n - 1, NEW j \in 1 .. n - 1,
                        rest[i].question = rest[j].question
                 PROVE  i = j
      BY <2>4 DEF Distinct
    <3>1. entries[old(i)].question = entries[old(j)].question
      BY <2>5
    <3>2. old(i) \in 1 .. n /\ old(j) \in 1 .. n
      BY <2>5
    <3>3. old(i) = old(j)
      BY <3>1, <3>2 DEF Distinct, n
    <3> QED
      BY <2>6, <3>3
  <2>8. ASSUME NEW i \in 1 .. n - 1 PROVE rest[i].question # q
    <3>1. old(i) \in 1 .. n /\ old(i) # k /\ rest[i] = entries[old(i)]
      BY <2>5
    <3>2. entries[old(i)].question = q => old(i) = k
      BY <2>2, <3>1 DEF Distinct, n
    <3> QED
      BY <3>1, <3>2
  <2> QED
    BY <1>4, <2>3, <2>4, <2>7, <2>8 DEF n
<1> QED
  BY <1>3, <1>4

\* A new key at the end keeps the keys apart.
LEMMA AppendedSound ==
  ASSUME NEW entries \in Seq(Sound), Distinct(entries), NEW e \in Sound,
         \A i \in 1 .. Len(entries) : entries[i].question # e.question
  PROVE  /\ Append(entries, e) \in Seq(Sound) /\ Distinct(Append(entries, e))
         /\ Len(Append(entries, e)) = Len(entries) + 1
<1> DEFINE more == Append(entries, e)
           n == Len(entries)
<1>1. /\ more \in Seq(Sound) /\ Len(more) = n + 1 /\ more[n + 1] = e
      /\ \A i \in 1 .. n : more[i] = entries[i]
  BY AppendProperties
<1>2. n \in Nat
  BY LenProperties
<1>3. Distinct(more)
  <2> SUFFICES ASSUME NEW i \in 1 .. n + 1, NEW j \in 1 .. n + 1,
                      more[i].question = more[j].question
               PROVE  i = j
    BY <1>1 DEF Distinct
  <2> HIDE DEF more, n
  <2>1. CASE i \in 1 .. n /\ j \in 1 .. n
    BY <1>1, <2>1 DEF Distinct, n
  <2>2. CASE i = n + 1 /\ j \in 1 .. n
    BY <1>1, <2>2 DEF n
  <2>3. CASE j = n + 1 /\ i \in 1 .. n
    BY <1>1, <2>3 DEF n
  <2> QED
    BY <1>2, <2>1, <2>2, <2>3
<1> QED
  BY <1>1, <1>3

\* What a lookup leaves, with the entry it returned or without.
LEMMA LookupSound ==
  ASSUME CacheInv, NEW q
  PROVE  /\ AfterMiss(q) \in Seq(Sound) /\ Distinct(AfterMiss(q))
         /\ Len(AfterMiss(q)) <= CacheMax
         /\ \A hit \in Hits(q) :
              LET after == Append(Others(Cleaned(cache), q), hit) IN
              /\ hit \in Sound /\ hit.age <= CacheTTL
              /\ after \in Seq(Sound) /\ Distinct(after) /\ Len(after) <= CacheMax
<1> DEFINE cleaned == Cleaned(cache)
           rest == Others(cleaned, q)
<1>1. cleaned \in Seq(Sound) /\ Distinct(cleaned) /\ Len(cleaned) <= CacheMax
  BY CleanedSound DEF CacheInv
<1>2. /\ Len(cleaned) \in Nat /\ DOMAIN cleaned = 1 .. Len(cleaned) /\ CacheMax \in Nat
      /\ \A i \in 1 .. Len(cleaned) : cleaned[i] \in Sound
  BY <1>1, LenProperties, ElementOfSeq, ChatBounds
<1> HIDE DEF cleaned
<1>3. /\ rest \in Seq(Sound) /\ Distinct(rest)
      /\ \A i \in 1 .. Len(rest) : rest[i].question # q
      /\ Len(rest) = IF Places(cleaned, q) = {} THEN Len(cleaned) ELSE Len(cleaned) - 1
  BY <1>1, OthersSound
<1> HIDE DEF rest
<1>4. /\ Len(rest) <= CacheMax
      /\ Places(cleaned, q) # {} => Len(rest) + 1 <= CacheMax
  <2>1. Len(cleaned) \in Nat /\ CacheMax \in Nat /\ Len(cleaned) <= CacheMax
    BY <1>1, <1>2
  <2>2. Len(rest) = IF Places(cleaned, q) = {} THEN Len(cleaned) ELSE Len(cleaned) - 1
    BY <1>3
  <2> QED
    BY ONLY <2>1, <2>2
<1>5. ASSUME NEW hit \in Hits(q)
      PROVE  /\ hit \in Sound /\ hit.age <= CacheTTL
             /\ Append(rest, hit) \in Seq(Sound) /\ Distinct(Append(rest, hit))
             /\ Len(Append(rest, hit)) <= CacheMax
  <2>1. PICK i \in 1 .. Len(cleaned) : hit = cleaned[i]
    BY <1>2 DEF Hits, ToSet, cleaned
  <2>2. hit \in Sound /\ hit.question = q /\ hit.age <= CacheTTL
    BY <1>2, <2>1 DEF Hits
  <2>3. Places(cleaned, q) # {}
    BY <1>2, <2>1, <2>2 DEF Places
  <2>4. \A j \in 1 .. Len(rest) : rest[j].question # hit.question
    BY <1>3, <2>2
  <2>5. /\ Append(rest, hit) \in Seq(Sound) /\ Distinct(Append(rest, hit))
        /\ Len(Append(rest, hit)) = Len(rest) + 1
    BY <1>3, <2>2, <2>4, AppendedSound
  <2> QED
    BY <1>4, <2>2, <2>3, <2>5
<1> QED
  BY <1>3, <1>4, <1>5 DEF AfterMiss, rest, cleaned

\* What a finished run stores.
LEMMA SetSound ==
  ASSUME CacheInv, NEW q \in Questions, NEW dataAge \in 0 .. RunLimit
  PROVE  /\ AfterSet(q, dataAge) \in Seq(Sound) /\ Distinct(AfterSet(q, dataAge))
         /\ Len(AfterSet(q, dataAge)) <= CacheMax
<1> DEFINE rest == Others(Cleaned(cache), q)
           new == [question |-> q, age |-> 0, dataAge |-> dataAge]
<1>1. Cleaned(cache) \in Seq(Sound) /\ Distinct(Cleaned(cache))
  BY CleanedSound DEF CacheInv
<1>2. /\ rest \in Seq(Sound) /\ Distinct(rest)
      /\ \A i \in 1 .. Len(rest) : rest[i].question # q
  BY <1>1, OthersSound
<1>3. new \in Sound
  BY ChatBounds DEF Sound
<1>4. new.question = q
  OBVIOUS
<1>5. AfterSet(q, dataAge) = Cleaned(Append(rest, new))
  BY DEF AfterSet
<1> HIDE DEF rest, new
<1>6. Append(rest, new) \in Seq(Sound) /\ Distinct(Append(rest, new))
  BY <1>2, <1>3, <1>4, AppendedSound
<1> QED
  BY <1>5, <1>6, CleanedSound

-----------------------------------------------------------------------------
(* The rate limiter *)

\* In a window in order, the recent events are the last ones.
LEMMA RecentIs ==
  ASSUME NEW events \in Seq(0 .. Window + 1), NEW d \in 0 .. Len(events),
         \A i \in 1 .. Len(events) : events[i] <= Window <=> i > d
  PROVE  /\ Recent(events) \in Seq(0 .. Window + 1) /\ Len(Recent(events)) = Len(events) - d
         /\ \A i \in 1 .. Len(events) - d : Recent(events)[i] = events[d + i]
<1> DEFINE n == Len(events)
           young == {i \in DOMAIN events : events[i] <= Window}
<1>1. n \in Nat /\ DOMAIN events = 1 .. n
  BY LenProperties
<1>2. \A i \in 1 .. n : i \in young <=> i > d
  BY <1>1
<1>3. young \in SUBSET (1 .. n) /\ Recent(events) = From(events, young)
  BY <1>1 DEF Recent
<1> HIDE DEF young
<1>4. Recent(events) \in Seq(0 .. Window + 1)
  BY <1>3, FromProperties
<1>5. CASE young = {}
  <2>1. d = n
    <3>1. d + 1 \notin 1 .. n \/ ~(d + 1 > d)
      BY <1>2, <1>5
    <3>2. d \in 0 .. n
      OBVIOUS
    <3> HIDE DEF n
    <3> QED
      BY ONLY <1>1, <3>1, <3>2
  <2>2. Len(Recent(events)) = 0
    BY <1>3, <1>5, FromProperties
  <2> QED
    BY <1>1, <1>4, <2>1, <2>2
<1>6. CASE young # {}
  <2>1. /\ Min(young) \in young /\ \A p \in young : Min(young) <= p
        /\ Len(Recent(events)) = n - Min(young) + 1
        /\ \A i \in 1 .. Len(Recent(events)) : Recent(events)[i] = events[Min(young) + i - 1]
    BY <1>3, <1>6, FromProperties
  <2> DEFINE m == Min(young)
  <2>2. m \in 1 .. n /\ m > d
    BY <1>2, <1>3, <2>1
  <2>3. d + 1 \in young
    BY <1>1, <1>2, <2>2
  <2>4. m <= d + 1
    BY <2>1, <2>3
  <2>5. m = d + 1
    BY <1>1, <2>2, <2>4
  <2>6. Len(Recent(events)) = n - d
    BY <1>1, <2>1, <2>5
  <2>7. \A i \in 1 .. n - d : m + i - 1 = d + i
    BY <1>1, <2>5
  <2> QED
    BY <1>4, <2>1, <2>6, <2>7
<1> QED
  BY <1>5, <1>6

\* A window in order has such a place.
LEMMA RecentFrom ==
  ASSUME NEW events \in Seq(0 .. Window + 1),
         \A i, j \in 1 .. Len(events) : i <= j => events[i] >= events[j]
  PROVE  \E d \in 0 .. Len(events) : \A i \in 1 .. Len(events) : events[i] <= Window <=> i > d
<1> DEFINE n == Len(events)
           young == {i \in 1 .. n : events[i] <= Window}
<1>1. n \in Nat /\ Window \in Nat /\ \A i \in 1 .. n : events[i] \in Nat
  <2>1. \A i \in 1 .. n : events[i] \in 0 .. Window + 1
    BY ElementOfSeq
  <2> QED
    BY <2>1, LenProperties, ChatBounds
<1>2. CASE young = {}
  <2>1. n \in 0 .. n /\ \A i \in 1 .. n : events[i] <= Window <=> i > n
    BY <1>1, <1>2
  <2> QED
    BY <2>1
<1>3. CASE young # {}
  <2>1. young \in SUBSET (1 .. n)
    OBVIOUS
  <2>2. Min(young) \in young /\ \A p \in young : Min(young) <= p
    BY <1>1, <1>3, <2>1, FirstPlace
  <2> DEFINE m == Min(young)
  <2>3. m \in 1 .. n /\ events[m] <= Window /\ \A p \in young : m <= p
    BY <2>2
  <2> HIDE DEF m
  <2>4. m - 1 \in 0 .. n
    BY <1>1, <2>3
  <2>5. ASSUME NEW i \in 1 .. n PROVE events[i] <= Window <=> i > m - 1
    <3>1. CASE i >= m
      <4>1. events[m] >= events[i]
        BY <2>3, <3>1
      <4> QED
        BY <1>1, <2>3, <3>1, <4>1
    <3>2. CASE ~(i >= m)
      <4>1. i \notin young
        BY <1>1, <2>3, <3>2
      <4> QED
        BY <1>1, <2>3, <3>2, <4>1
    <3> QED
      BY <3>1, <3>2
  <2> QED
    BY <2>4, <2>5
<1> QED
  BY <1>2, <1>3

LEMMA Narrowed ==
  ASSUME NEW S, NEW T, NEW seq \in Seq(S), \A i \in 1 .. Len(seq) : seq[i] \in T
  PROVE  seq \in Seq(T)
<1>1. Len(seq) \in Nat /\ seq \in [1 .. Len(seq) -> S]
  BY LenProperties
<1>2. seq \in [1 .. Len(seq) -> T]
  BY <1>1
<1> QED
  BY <1>1, <1>2, SeqDef

\* Events that are all recent stay.
LEMMA AllRecent ==
  ASSUME NEW events \in Seq(0 .. Window)
  PROVE  events \in Seq(0 .. Window + 1) /\ Recent(events) = events
<1>1. Len(events) \in Nat /\ Window \in Nat /\ \A i \in 1 .. Len(events) : events[i] \in 0 .. Window
  BY LenProperties, ElementOfSeq, ChatBounds
<1>2. events \in Seq(0 .. Window + 1)
  <2>1. \A i \in 1 .. Len(events) : events[i] \in 0 .. Window + 1
    BY <1>1
  <2> QED
    BY <2>1, Narrowed
<1>3. 0 \in 0 .. Len(events) /\ \A i \in 1 .. Len(events) : events[i] <= Window <=> i > 0
  BY <1>1
<1>4. /\ Recent(events) \in Seq(0 .. Window + 1) /\ Len(Recent(events)) = Len(events) - 0
      /\ \A i \in 1 .. Len(events) - 0 : Recent(events)[i] = events[0 + i]
  BY <1>2, <1>3, RecentIs
<1>5. Len(events) - 0 = Len(events) /\ \A i \in 1 .. Len(events) : 0 + i = i
  BY <1>1
<1>6. \A i \in 1 .. Len(events) : Recent(events)[i] = events[i]
  BY <1>4, <1>5
<1> QED
  BY <1>2, <1>4, <1>5, <1>6, SeqEqual

\* A command is counted, or refused because there are enough.
LEMMA LimiterCounts ==
  ASSUME NEW events, NEW recent, Limited(events, recent)
  PROVE  /\ Limited(Recent(events), recent)
         /\ Len(Recent(events)) < RateMax => Limited(Append(Recent(events), 0), Append(recent, 0))
<1>1. /\ events \in Seq(0 .. Window + 1) /\ recent \in Seq(0 .. Window)
      /\ \A i, j \in 1 .. Len(events) : i <= j => events[i] >= events[j]
      /\ recent = Recent(events) /\ Len(recent) <= RateMax
  BY DEF Limited
<1>2. PICK d \in 0 .. Len(events) :
             \A i \in 1 .. Len(events) : events[i] <= Window <=> i > d
  BY <1>1, RecentFrom
<1>3. /\ Len(recent) = Len(events) - d
      /\ \A i \in 1 .. Len(events) - d : recent[i] = events[d + i]
  BY <1>1, <1>2, RecentIs
<1>4. /\ Len(events) \in Nat /\ Len(recent) \in Nat /\ Window \in Nat /\ RateMax \in Nat
      /\ \A i \in 1 .. Len(recent) : recent[i] \in 0 .. Window
  BY <1>1, LenProperties, ElementOfSeq, ChatBounds
<1>5. recent \in Seq(0 .. Window + 1) /\ Recent(recent) = recent
  BY <1>1, AllRecent
<1>6. ASSUME NEW i \in 1 .. Len(recent), NEW j \in 1 .. Len(recent), i <= j
      PROVE  recent[i] >= recent[j]
  <2>1. d + i \in 1 .. Len(events) /\ d + j \in 1 .. Len(events) /\ d + i <= d + j
    BY <1>2, <1>3, <1>4, <1>6
  <2>2. recent[i] = events[d + i] /\ recent[j] = events[d + j]
    BY <1>3
  <2> QED
    BY <1>1, <2>1, <2>2
<1>7. Limited(Recent(events), recent)
  BY <1>1, <1>5, <1>6 DEF Limited
<1>8. ASSUME Len(recent) < RateMax PROVE Limited(Append(recent, 0), Append(recent, 0))
  <2> DEFINE more == Append(recent, 0)
             n == Len(recent)
  <2>1. 0 \in 0 .. Window
    BY <1>4
  <2>2. /\ more \in Seq(0 .. Window) /\ Len(more) = n + 1 /\ more[n + 1] = 0
        /\ \A i \in 1 .. n : more[i] = recent[i]
    BY <1>1, <2>1, AppendProperties
  <2> HIDE DEF more
  <2>3. more \in Seq(0 .. Window + 1) /\ Recent(more) = more
    BY <2>2, AllRecent
  <2>4. \A i \in 1 .. n : recent[i] >= 0
    BY <1>4
  <2>5. Len(more) <= RateMax
    BY <1>4, <1>8, <2>2
  <2>6. ASSUME NEW i \in 1 .. n + 1, NEW j \in 1 .. n + 1, i <= j PROVE more[i] >= more[j]
    <3> HIDE DEF n
    <3>1. n \in Nat
      BY <1>4 DEF n
    <3>2. CASE j \in 1 .. n
      <4>1. i \in 1 .. n
        BY <2>6, <3>1, <3>2
      <4> QED
        BY <1>6, <2>2, <2>6, <3>2, <4>1 DEF n
    <3>3. CASE j = n + 1 /\ i \in 1 .. n
      BY <2>2, <2>4, <3>3
    <3>4. CASE j = n + 1 /\ i = n + 1
      BY <2>2, <3>4
    <3> QED
      BY <3>1, <3>2, <3>3, <3>4
  <2> QED
    BY <2>2, <2>3, <2>5, <2>6 DEF Limited, more
<1> QED
  BY <1>1, <1>7, <1>8

\* Time passes: an event leaves the window when the accepted command it stands
\* for is more than 60 seconds old.
LEMMA LimiterAges ==
  ASSUME NEW events, NEW recent, Limited(events, recent)
  PROVE  Limited([i \in DOMAIN events |-> Older(events[i], Window)],
                 From([i \in DOMAIN recent |-> recent[i] + 1],
                      {i \in DOMAIN recent : recent[i] < Window}))
<1> DEFINE n == Len(events)
           older == [i \in DOMAIN events |-> Older(events[i], Window)]
           aged == [i \in DOMAIN recent |-> recent[i] + 1]
           places == {i \in DOMAIN recent : recent[i] < Window}
<1>1. /\ events \in Seq(0 .. Window + 1) /\ recent \in Seq(0 .. Window)
      /\ \A i, j \in 1 .. n : i <= j => events[i] >= events[j]
      /\ recent = Recent(events) /\ Len(recent) <= RateMax
  BY DEF Limited
<1>2. PICK d \in 0 .. n : \A i \in 1 .. n : events[i] <= Window <=> i > d
  BY <1>1, RecentFrom
<1>3. Len(recent) = n - d /\ \A i \in 1 .. n - d : recent[i] = events[d + i]
  BY <1>1, <1>2, RecentIs
<1>4. /\ n \in Nat /\ Window \in Nat /\ RateMax \in Nat /\ d \in Nat /\ d <= n
      /\ DOMAIN events = 1 .. n /\ DOMAIN recent = 1 .. Len(recent)
      /\ \A i \in 1 .. n : events[i] \in 0 .. Window + 1
      /\ \A i \in 1 .. Len(recent) : recent[i] \in 0 .. Window
  <2>1. n \in Nat /\ DOMAIN events = 1 .. n /\ \A i \in 1 .. n : events[i] \in 0 .. Window + 1
    BY <1>1, LenProperties, ElementOfSeq
  <2>2. DOMAIN recent = 1 .. Len(recent) /\ \A i \in 1 .. Len(recent) : recent[i] \in 0 .. Window
    BY <1>1, LenProperties, ElementOfSeq
  <2>3. Window \in Nat /\ RateMax \in Nat
    BY ChatBounds
  <2>4. d \in Nat /\ d <= n
    BY <1>2, <2>1
  <2> QED
    BY ONLY <2>1, <2>2, <2>3, <2>4
<1>5. DOMAIN recent = 1 .. n - d
  BY <1>3, <1>4
<1>6. /\ older \in Seq(0 .. Window + 1) /\ Len(older) = n
      /\ \A i \in 1 .. n : older[i] = Older(events[i], Window)
  <2>1. \A i \in 1 .. n : Older(events[i], Window) \in 0 .. Window + 1
    BY <1>4 DEF Older
  <2>2. older \in [1 .. n -> 0 .. Window + 1]
    BY <1>4, <2>1
  <2>3. older \in Seq(0 .. Window + 1)
    BY <1>4, <2>2, SeqDef
  <2> QED
    BY <1>4, <2>2, <2>3, LenProperties
<1>7. /\ aged \in Seq(0 .. Window + 1) /\ Len(aged) = n - d
      /\ \A i \in 1 .. n - d : aged[i] = events[d + i] + 1
  <2>1. \A i \in 1 .. n - d : recent[i] + 1 \in 0 .. Window + 1
    BY <1>3, <1>4
  <2>2. aged \in [1 .. n - d -> 0 .. Window + 1]
    BY <1>5, <2>1
  <2>3. n - d \in Nat
    BY <1>4
  <2>4. aged \in Seq(0 .. Window + 1)
    BY <2>2, <2>3, SeqDef
  <2> QED
    BY <1>3, <1>5, <2>2, <2>3, <2>4, LenProperties
<1>8. From(aged, places) = Recent(aged)
  <2>1. DOMAIN aged = DOMAIN recent
    OBVIOUS
  <2>2. \A i \in DOMAIN recent : aged[i] <= Window <=> recent[i] < Window
    <3>1. \A i \in DOMAIN recent : recent[i] \in Int /\ aged[i] = recent[i] + 1
      BY <1>4
    <3> QED
      BY <1>4, <3>1
  <2>3. places = {i \in DOMAIN aged : aged[i] <= Window}
    BY <2>1, <2>2
  <2> QED
    BY <2>3 DEF Recent
<1> HIDE DEF n, older, aged, places
<1>9. ASSUME NEW i \in 1 .. n, NEW j \in 1 .. n, i <= j PROVE older[i] >= older[j]
  <2>1. events[i] >= events[j] /\ events[i] \in 0 .. Window + 1 /\ events[j] \in 0 .. Window + 1
    BY <1>1, <1>4, <1>9
  <2>2. older[i] = Older(events[i], Window) /\ older[j] = Older(events[j], Window)
    BY <1>6
  <2>3. Window \in Nat
    BY <1>4
  <2> QED
    BY ONLY <2>1, <2>2, <2>3 DEF Older
<1>10. PICK c \in 0 .. n : \A i \in 1 .. n : older[i] <= Window <=> i > c
  <2>1. \A i, j \in 1 .. Len(older) : i <= j => older[i] >= older[j]
    BY <1>6, <1>9
  <2>2. \E c \in 0 .. Len(older) : \A i \in 1 .. Len(older) : older[i] <= Window <=> i > c
    BY <1>6, <2>1, RecentFrom
  <2> QED
    BY <1>6, <2>2
<1>11. c \in Nat /\ c <= n /\ d <= c
  <2>1. ASSUME c < d PROVE FALSE
    <3>1. d \in 1 .. n
      BY <1>4, <1>10, <2>1
    <3>2. older[d] <= Window /\ ~(events[d] <= Window)
      BY <1>2, <1>4, <1>10, <2>1, <3>1
    <3> QED
      BY <1>4, <1>6, <3>1, <3>2 DEF Older
  <2> QED
    BY <1>4, <1>10, <2>1
<1>12. ASSUME NEW i \in 1 .. n - d
       PROVE  \/ aged[i] = older[d + i]
              \/ ~(older[d + i] <= Window) /\ ~(aged[i] <= Window)
  <2>1. d + i \in 1 .. n
    BY <1>4
  <2>2. aged[i] = events[d + i] + 1 /\ older[d + i] = Older(events[d + i], Window)
    BY <1>6, <1>7, <2>1
  <2>3. events[d + i] \in 0 .. Window + 1
    BY <1>4, <2>1
  <2> QED
    BY <1>4, <2>2, <2>3 DEF Older
<1>13. /\ Recent(older) \in Seq(0 .. Window + 1) /\ Len(Recent(older)) = n - c
       /\ \A i \in 1 .. n - c : Recent(older)[i] = older[c + i]
  <2>1. c \in 0 .. Len(older) /\ \A i \in 1 .. Len(older) : older[i] <= Window <=> i > c
    BY <1>6, <1>10
  <2> QED
    BY <1>6, <2>1, RecentIs
<1> DEFINE b == c - d
<1>14. b \in 0 .. n - d /\ (n - d) - b = n - c /\ d + b = c
  BY <1>4, <1>11
<1>15. \A i \in 1 .. n - d : aged[i] <= Window <=> i > b
  <2> SUFFICES ASSUME NEW i \in 1 .. n - d PROVE aged[i] <= Window <=> i > b
    OBVIOUS
  <2>1. d + i \in 1 .. n /\ (d + i > c <=> i > b)
    BY <1>4, <1>11
  <2>2. older[d + i] <= Window <=> d + i > c
    BY <1>10, <2>1
  <2>3. aged[i] <= Window <=> older[d + i] <= Window
    BY <1>12
  <2> QED
    BY <2>1, <2>2, <2>3
<1> HIDE DEF b
<1>16. /\ Recent(aged) \in Seq(0 .. Window + 1) /\ Len(Recent(aged)) = (n - d) - b
       /\ \A i \in 1 .. (n - d) - b : Recent(aged)[i] = aged[b + i]
  <2>1. b \in 0 .. Len(aged) /\ \A i \in 1 .. Len(aged) : aged[i] <= Window <=> i > b
    BY <1>7, <1>14, <1>15
  <2>2. /\ Recent(aged) \in Seq(0 .. Window + 1) /\ Len(Recent(aged)) = Len(aged) - b
        /\ \A i \in 1 .. Len(aged) - b : Recent(aged)[i] = aged[b + i]
    <3>1. aged \in Seq(0 .. Window + 1)
      BY <1>7
    <3> QED
      BY ONLY <2>1, <3>1, RecentIs
  <2>3. Len(aged) = n - d
    BY <1>7
  <2> QED
    BY ONLY <2>2, <2>3
<1>17. ASSUME NEW i \in 1 .. n - c
       PROVE  Recent(aged)[i] = Recent(older)[i] /\ Recent(older)[i] \in 0 .. Window
  <2>1. /\ b + i \in 1 .. n - d /\ d + (b + i) = c + i /\ c + i \in 1 .. n /\ c + i > c
        /\ i \in 1 .. (n - d) - b
    BY <1>4, <1>11, <1>14
  <2>2. older[c + i] <= Window
    BY <1>10, <2>1
  <2>3. aged[b + i] = older[c + i]
    BY <1>12, <2>1, <2>2
  <2>4. older[c + i] \in 0 .. Window + 1
    BY <1>6, <2>1, ElementOfSeq
  <2>5. Recent(aged)[i] = aged[b + i]
    BY <1>16, <2>1
  <2>6. Recent(older)[i] = older[c + i]
    BY <1>13
  <2>7. older[c + i] \in 0 .. Window
    BY <1>4, <2>2, <2>4
  <2> QED
    BY ONLY <2>3, <2>5, <2>6, <2>7
<1>18. Recent(aged) = Recent(older)
  <2>1. Len(Recent(aged)) = Len(Recent(older))
    BY <1>13, <1>14, <1>16
  <2>2. \A i \in 1 .. Len(Recent(aged)) : Recent(aged)[i] = Recent(older)[i]
    BY <1>13, <1>17, <2>1
  <2> QED
    BY <1>13, <1>16, <2>1, <2>2, SeqEqual
<1>19. Recent(older) \in Seq(0 .. Window)
  <2>1. \A i \in 1 .. Len(Recent(older)) : Recent(older)[i] \in 0 .. Window
    BY <1>13, <1>17
  <2> QED
    BY <1>13, <2>1, Narrowed
<1>20. Len(Recent(older)) <= RateMax
  <2>1. n - d <= RateMax
    BY <1>1, <1>3
  <2> QED
    BY <1>4, <1>11, <1>13, <2>1
<1>21. Limited(older, Recent(older))
  BY <1>6, <1>9, <1>19, <1>20 DEF Limited
<1> QED
  BY <1>8, <1>18, <1>21 DEF older, aged, places

-----------------------------------------------------------------------------
(* The steps *)

\* Whatever a user is told rests on data within the bound.
LEMMA RepliedTyped ==
  ASSUME UserInv, NEW u \in Users, NEW dataAge \in 0 .. CacheTTL + RunLimit
  PROVE  Replied(u, dataAge) \in [Users -> Clients]
<1>1. [pc |-> "idle", what |-> "none", age |-> 0, dataAge |-> dataAge] \in Clients
  BY ChatBounds DEF Clients
<1> QED
  BY <1>1 DEF Replied, UserInv

LEMMA RefusedTyped ==
  ASSUME UserInv, NEW u \in Users
  PROVE  Replied(u, 0) \in [Users -> Clients]
<1>1. 0 \in 0 .. CacheTTL + RunLimit
  BY ChatBounds
<1> QED
  BY <1>1, RepliedTyped

\* The owner of a run is a user, or gone.
LEMMA OwnerTyped ==
  ASSUME ChatInv, NEW run \in runs, NEW dataAge \in 0 .. CacheTTL + RunLimit,
         ReplyToOwner(run, dataAge)
  PROVE  UserInv'
<1>1. run.owner \in Users \cup {"none"}
  BY DEF ChatInv, RunInv, Runs
<1>2. CASE run.owner = "none"
  BY <1>2 DEF ReplyToOwner, ChatInv, UserInv
<1>3. CASE run.owner # "none"
  <2>1. run.owner \in Users
    BY <1>1, <1>3
  <2>2. user' = Replied(run.owner, dataAge)
    BY <1>3 DEF ReplyToOwner
  <2>3. UserInv
    BY DEF ChatInv
  <2> QED
    BY <2>1, <2>2, <2>3, RepliedTyped DEF UserInv
<1> QED
  BY <1>2, <1>3

\* The entries of the cache age in place.
LEMMA CacheAges ==
  ASSUME CacheInv, Tick
  PROVE  CacheInv'
<1> DEFINE n == Len(cache)
<1>1. /\ cache \in Seq(Sound) /\ Distinct(cache) /\ n <= CacheMax
      /\ n \in Nat /\ DOMAIN cache = 1 .. n /\ \A i \in 1 .. n : cache[i] \in Sound
  BY LenProperties, ElementOfSeq DEF CacheInv
<1>2. ASSUME NEW e \in Sound
      PROVE  /\ [e EXCEPT !.age = Older(@, CacheTTL),
                          !.dataAge = Older(@, CacheTTL + RunLimit)] \in Sound
             /\ [e EXCEPT !.age = Older(@, CacheTTL),
                          !.dataAge = Older(@, CacheTTL + RunLimit)].question = e.question
  <2> DEFINE age == Older(e.age, CacheTTL)
             dataAge == Older(e.dataAge, CacheTTL + RunLimit)
  <2>1. /\ e = [question |-> e.question, age |-> e.age, dataAge |-> e.dataAge]
        /\ e.question \in Questions /\ e.age \in 0 .. CacheTTL + 1
        /\ e.dataAge \in 0 .. CacheTTL + RunLimit + 1
        /\ e.age <= CacheTTL => e.dataAge <= e.age + RunLimit
    BY DEF Sound
  <2>2. /\ age \in 0 .. CacheTTL + 1 /\ dataAge \in 0 .. CacheTTL + RunLimit + 1
        /\ age <= CacheTTL => dataAge <= age + RunLimit
    BY <2>1, ChatBounds DEF Older
  <2>3. ASSUME NEW a \in 0 .. CacheTTL + 1, NEW b \in 0 .. CacheTTL + RunLimit + 1,
               a <= CacheTTL => b <= a + RunLimit
        PROVE  /\ [e EXCEPT !.age = a, !.dataAge = b] \in Sound
               /\ [e EXCEPT !.age = a, !.dataAge = b].question = e.question
    <3>1. e \in [question : Questions, age : 0 .. CacheTTL + 1,
                 dataAge : 0 .. CacheTTL + RunLimit + 1]
      BY DEF Sound
    <3> QED
      BY ONLY <2>3, <3>1 DEF Sound
  <2> HIDE DEF age, dataAge
  <2> QED
    BY <2>2, <2>3 DEF age, dataAge
<1> DEFINE aged(e) == [e EXCEPT !.age = Older(@, CacheTTL),
                                !.dataAge = Older(@, CacheTTL + RunLimit)]
<1>3. cache' = [i \in 1 .. n |-> aged(cache[i])]
  BY <1>1 DEF Tick
<1>4. \A i \in 1 .. n : aged(cache[i]) \in Sound /\ aged(cache[i]).question = cache[i].question
  BY <1>1, <1>2
<1> HIDE DEF aged, n
<1>5. cache' \in [1 .. n -> Sound] /\ \A i \in 1 .. n : cache'[i].question = cache[i].question
  BY <1>3, <1>4
<1>6. cache' \in Seq(Sound) /\ Len(cache') = n
  <2>1. cache' \in Seq(Sound)
    BY <1>1, <1>5, SeqDef
  <2>2. DOMAIN cache' = 1 .. n
    BY <1>5
  <2>3. Len(cache') \in Nat /\ DOMAIN cache' = 1 .. Len(cache')
    BY <2>1, LenProperties
  <2> QED
    BY ONLY <1>1, <2>1, <2>2, <2>3
<1>7. Distinct(cache')
  BY <1>1, <1>5, <1>6 DEF Distinct, n
<1> QED
  BY <1>1, <1>6, <1>7 DEF CacheInv

\* All of a sequence of one element.
LEMMA WholeOfOne ==
  ASSUME NEW a \in Nat
  PROVE  SubSeq(<<a>>, 1, 1) = <<a>>
<1> DEFINE one == <<a>>
<1>1. one \in Seq(Nat) /\ Len(one) = 1 /\ one[1] = a
  OBVIOUS
<1> HIDE DEF one
<1>2. 1 \in Int /\ \A i \in 1 .. 1 : one[i] \in Nat
  BY <1>1
<1>3. /\ SubSeq(one, 1, 1) \in Seq(Nat)
      /\ Len(SubSeq(one, 1, 1)) = IF 1 <= 1 THEN 1 - 1 + 1 ELSE 0
      /\ \A i \in 1 .. 1 - 1 + 1 : SubSeq(one, 1, 1)[i] = one[1 + i - 1]
  BY <1>2, SubSeqProperties
<1>4. Len(SubSeq(one, 1, 1)) = 1 /\ SubSeq(one, 1, 1)[1] = one[1]
  BY <1>3
<1>5. SubSeq(one, 1, 1) = one
  BY <1>1, <1>3, <1>4, SeqEqual
<1> QED
  BY <1>5 DEF one

\* Runs age, and the last start with them, until it is the cooldown ago.
LEMMA RunsAge ==
  ASSUME RunInv, Tick
  PROVE  RunInv'
<1>1. /\ last \in 0 .. Cooldown /\ last' = IF last < Cooldown THEN last + 1 ELSE last
      /\ runs' = {[r EXCEPT !.age = @ + 1] : r \in runs}
      /\ Cooldown \in Nat /\ RunLimit \in Nat
  BY ChatBounds DEF RunInv, Tick
<1>2. ASSUME NEW r \in runs
      PROVE  [r EXCEPT !.age = @ + 1] \in Runs
  <2>1. r \in Runs /\ r.age < RunLimit
    BY DEF RunInv, Tick
  <2> QED
    BY <1>1, <2>1 DEF Runs
<1>3. last' \in 0 .. Cooldown /\ runs' \in SUBSET Runs
  BY <1>1, <1>2
<1> DEFINE older == [i \in DOMAIN started |-> started[i] + 1]
           places == {i \in DOMAIN started : started[i] + 1 < Cooldown}
<1>4. started' = From(older, places)
  BY DEF Tick
<1>5. CASE last < Cooldown
  <2>1. started = <<last>>
    BY <1>5 DEF RunInv
  <2>2. older = <<last + 1>> /\ DOMAIN started = {1} /\ started[1] = last
    BY <2>1
  <2>3. CASE last + 1 < Cooldown
    <3>1. places = {1}
      BY <2>2, <2>3
    <3>2. Min({1}) = 1
      <4>1. 1 \in Nat /\ {1} \in SUBSET (1 .. 1) /\ {1} # {}
        OBVIOUS
      <4> QED
        BY ONLY <4>1, FirstPlace
    <3>3. From(older, places) = SubSeq(<<last + 1>>, 1, 1)
      BY <2>2, <3>1, <3>2 DEF From
    <3>4. SubSeq(<<last + 1>>, 1, 1) = <<last + 1>>
      <4>1. last + 1 \in Nat
        BY <1>1
      <4> QED
        BY ONLY <4>1, WholeOfOne
    <3> QED
      BY <1>1, <1>3, <1>4, <1>5, <2>3, <3>3, <3>4 DEF RunInv
  <2>4. CASE ~(last + 1 < Cooldown)
    <3>1. places = {}
      BY <2>2, <2>4
    <3>2. started' = <<>>
      BY <1>4, <3>1 DEF From
    <3> QED
      BY <1>1, <1>3, <1>5, <2>4, <3>2 DEF RunInv
  <2> QED
    BY <2>3, <2>4
<1>6. CASE ~(last < Cooldown)
  <2>1. started = <<>>
    BY <1>6 DEF RunInv
  <2>2. places = {}
    BY <2>1
  <2>3. started' = <<>>
    BY <1>4, <2>2 DEF From
  <2> QED
    BY <1>1, <1>3, <1>6, <2>3 DEF RunInv
<1> QED
  BY <1>5, <1>6

\* A run less changes nothing of when runs were let through.
LEMMA RunEnds ==
  ASSUME RunInv, NEW run \in runs, runs' = runs \ {run}, UNCHANGED <<last, started>>
  PROVE  RunInv'
BY DEF RunInv

\* A new run, when the last one was let through at least the cooldown before.
LEMMA RunStarts ==
  ASSUME ChatInv, NEW u \in Users, StartRun(u)
  PROVE  RunInv'
<1> DEFINE new == [question |-> user[u].what, age |-> 0, owner |-> u]
<1>1. /\ runs' = runs \cup {new} /\ last' = 0 /\ last >= Cooldown
      /\ started' = Append(started, 0)
      /\ Cooldown \in Nat \ {0} /\ RunLimit \in Nat
  BY ChatBounds DEF StartRun, MayStart
<1>2. new \in Runs
  BY <1>1 DEF StartRun, Runs
<1> HIDE DEF new
<1>3. runs' \in SUBSET Runs /\ last' \in 0 .. Cooldown
  BY <1>1, <1>2 DEF ChatInv, RunInv
<1>4. started = <<>>
  BY <1>1 DEF ChatInv, RunInv
<1>5. started' = <<last'>> /\ last' < Cooldown
  BY <1>1, <1>4
<1> QED
  BY <1>3, <1>5 DEF RunInv

\* Runs go on without their owner.
LEMMA OwnerLeaves ==
  ASSUME RunInv, NEW u \in Users, runs' = Orphaned(u), UNCHANGED <<last, started>>
  PROVE  RunInv'
<1>1. \A r \in runs : r \in Runs
  BY DEF RunInv
<1>2. \A r \in runs : [r EXCEPT !.owner = IF @ = u THEN "none" ELSE @] \in Runs
  BY <1>1 DEF Runs
<1>3. runs' \in SUBSET Runs
  BY <1>2 DEF Orphaned
<1> QED
  BY <1>3 DEF RunInv

\* The commands under way age, up to the client's timeout.
LEMMA CommandsAge ==
  ASSUME UserInv, Tick
  PROVE  UserInv'
<1>1. ASSUME NEW u \in Users
      PROVE  (IF user[u].pc = "idle" THEN [user[u] EXCEPT !.dataAge = 0]
                                     ELSE [user[u] EXCEPT !.age = @ + 1]) \in Clients
  <2>1. /\ user[u] \in Clients
        /\ ClientLimit \in Nat /\ CacheTTL + RunLimit \in Nat
    BY ChatBounds DEF UserInv
  <2>2. CASE user[u].pc = "idle"
    BY <2>1, <2>2 DEF Clients
  <2>3. CASE user[u].pc # "idle"
    <3>1. user[u].age < ClientLimit
      BY <2>3 DEF Tick
    <3> QED
      BY <2>1, <2>3, <3>1 DEF Clients
  <2> QED
    BY <2>2, <2>3
<1> QED
  BY <1>1 DEF UserInv, Tick

\* Every window ages.
LEMMA WindowsAge ==
  ASSUME WindowInv, Tick
  PROVE  WindowInv'
<1> DEFINE events(u) == [i \in DOMAIN window[u] |-> Older(window[u][i], Window)]
           recent(u) == From([i \in DOMAIN accepted[u] |-> accepted[u][i] + 1],
                             {i \in DOMAIN accepted[u] : accepted[u][i] < Window})
<1>1. window' = [u \in Users |-> events(u)] /\ accepted' = [u \in Users |-> recent(u)]
  BY DEF Tick
<1>2. ASSUME NEW u \in Users PROVE Limited(events(u), recent(u))
  <2>1. Limited(window[u], accepted[u])
    BY DEF WindowInv
  <2> QED
    BY <2>1, LimiterAges
<1> HIDE DEF events, recent
<1>3. DOMAIN window' = Users /\ DOMAIN accepted' = Users
  BY <1>1
<1>4. window' = [u \in Users |-> window'[u]] /\ accepted' = [u \in Users |-> accepted'[u]]
  BY <1>1
<1>5. \A u \in Users : Limited(window'[u], accepted'[u])
  BY <1>1, <1>2
<1> QED
  BY <1>3, <1>4, <1>5 DEF WindowInv, Limited

\* One window changes as the limiter changes it.
LEMMA WindowKept ==
  ASSUME WindowInv, NEW u \in Users, NEW events, NEW recent, Limited(events, recent),
         window' = [window EXCEPT ![u] = events], accepted' = [accepted EXCEPT ![u] = recent]
  PROVE  WindowInv'
<1>1. DOMAIN window' = Users /\ DOMAIN accepted' = Users
  BY DEF WindowInv
<1>2. window' = [v \in Users |-> window'[v]] /\ accepted' = [v \in Users |-> accepted'[v]]
  <2>1. window' = [v \in Users |-> IF v = u THEN events ELSE window[v]]
    BY DEF WindowInv
  <2>2. accepted' = [v \in Users |-> IF v = u THEN recent ELSE accepted[v]]
    BY DEF WindowInv
  <2> QED
    BY <2>1, <2>2
<1>3. ASSUME NEW v \in Users PROVE Limited(window'[v], accepted'[v])
  <2>1. CASE v = u
    <3>1. window'[v] = events /\ accepted'[v] = recent
      BY <2>1 DEF WindowInv
    <3> QED
      BY <3>1
  <2>2. CASE v # u
    <3>1. window'[v] = window[v] /\ accepted'[v] = accepted[v]
      BY <2>2 DEF WindowInv
    <3> QED
      BY <3>1 DEF WindowInv
  <2> QED
    BY <2>1, <2>2
<1> QED
  BY <1>1, <1>2, <1>3 DEF WindowInv, Limited

\* A command passes the limiter or does not.
LEMMA CommandLimited ==
  ASSUME WindowInv, UserInv, NEW u \in Users, NEW what \in Questions \cup Reports,
         Command(u, what)
  PROVE  WindowInv' /\ UserInv'
<1> DEFINE recent == Recent(window[u])
<1>1. Limited(window[u], accepted[u])
  BY DEF WindowInv
<1>2. Limited(recent, accepted[u])
  BY <1>1, LimiterCounts
<1>3. Len(recent) < RateMax => Limited(Append(recent, 0), Append(accepted[u], 0))
  BY <1>1, LimiterCounts
<1>4. Len(recent) \in Nat /\ RateMax \in Nat
  <2>1. recent \in Seq(0 .. Window + 1)
    BY <1>2 DEF Limited
  <2> QED
    BY <2>1, LenProperties, ChatBounds
<1> HIDE DEF recent
<1>5. CASE Len(recent) >= RateMax
  <2>1. window' = [window EXCEPT ![u] = recent] /\ accepted' = accepted /\ user' = Replied(u, 0)
    BY <1>5 DEF Command, recent
  <2>2. accepted' = [accepted EXCEPT ![u] = accepted[u]]
    BY <2>1 DEF WindowInv
  <2>3. WindowInv'
    BY <1>2, <2>1, <2>2, WindowKept
  <2> QED
    BY <2>1, <2>3, RefusedTyped DEF UserInv
<1>6. CASE ~(Len(recent) >= RateMax)
  <2>1. /\ window' = [window EXCEPT ![u] = Append(recent, 0)]
        /\ accepted' = [accepted EXCEPT ![u] = Append(@, 0)]
        /\ user' = [user EXCEPT ![u] = [pc |-> "sent", what |-> what, age |-> 0, dataAge |-> 0]]
    BY <1>6 DEF Command, recent
  <2>2. accepted' = [accepted EXCEPT ![u] = Append(accepted[u], 0)]
    BY <2>1
  <2>3. Limited(Append(recent, 0), Append(accepted[u], 0))
    BY <1>3, <1>4, <1>6
  <2>4. WindowInv'
    BY <2>1, <2>2, <2>3, WindowKept
  <2>5. [pc |-> "sent", what |-> what, age |-> 0, dataAge |-> 0] \in Clients
    BY ChatBounds DEF Clients
  <2>6. UserInv'
    BY <2>1, <2>5 DEF UserInv
  <2> QED
    BY <2>4, <2>6
<1> QED
  BY <1>5, <1>6

-----------------------------------------------------------------------------
(* The theorems *)

\* A limiter without events.
LEMMA NoEvents == Limited(<<>>, <<>>)
<1>1. <<>> \in Seq(0 .. Window) /\ <<>> \in Seq(0 .. Window + 1) /\ Len(<<>>) = 0
  OBVIOUS
<1>2. Recent(<<>>) = <<>>
  BY <1>1, AllRecent
<1> QED
  BY <1>1, <1>2, ChatBounds DEF Limited

LEMMA ChatInit == Init => ChatInv
<1> SUFFICES ASSUME Init PROVE ChatInv
  OBVIOUS
<1>1. CacheInv
  BY EmptySeq, ChatBounds DEF Init, CacheInv, Distinct
<1>2. RunInv
  BY ChatBounds DEF Init, RunInv
<1>3. UserInv
  <2>1. [pc |-> "idle", what |-> "none", age |-> 0, dataAge |-> 0] \in Clients
    BY ChatBounds DEF Clients
  <2> QED
    BY <2>1 DEF Init, UserInv
<1>5. WindowInv
  BY NoEvents DEF Init, WindowInv
<1> QED
  BY <1>1, <1>2, <1>3, <1>5 DEF ChatInv

LEMMA ChatStep == ChatInv /\ [Next]_vars => ChatInv'
<1> SUFFICES ASSUME ChatInv, [Next]_vars PROVE ChatInv'
  OBVIOUS
<1>0. CacheInv /\ RunInv /\ UserInv /\ WindowInv
  BY DEF ChatInv
<1>a. UNCHANGED <<window, accepted>> => WindowInv'
  BY <1>0 DEF WindowInv, Limited
<1>b. UNCHANGED <<last, started, runs>> => RunInv'
  BY <1>0 DEF RunInv
<1>c. UNCHANGED cache => CacheInv'
  BY <1>0 DEF CacheInv
<1>1. CASE \E u \in Users : Refuse(u) \/ TurnDown(u) \/ Report(u)
  <2>1. UNCHANGED <<cache, last, started, runs, window, accepted>> /\ \E u \in Users : user' = Replied(u, 0)
    BY <1>1 DEF Refuse, TurnDown, Report
  <2>2. UserInv'
    BY <1>0, <2>1, RefusedTyped DEF UserInv
  <2> QED
    BY <1>a, <1>b, <1>c, <2>1, <2>2 DEF ChatInv
<1>2. CASE \E u \in Users, what \in Questions \cup Reports : Command(u, what)
  <2>1. PICK u \in Users, what \in Questions \cup Reports : Command(u, what)
    BY <1>2
  <2>2. WindowInv' /\ UserInv'
    BY <1>0, <2>1, CommandLimited
  <2>3. UNCHANGED <<cache, last, started, runs>>
    BY <2>1 DEF Command
  <2> QED
    BY <1>b, <1>c, <2>2, <2>3 DEF ChatInv
<1>3. CASE \E u \in Users : AnswerFromCache(u)
  <2>1. PICK u \in Users : AnswerFromCache(u)
    BY <1>3
  <2>2. PICK hit \in Hits(user[u].what) :
          /\ user' = Replied(u, hit.dataAge)
          /\ cache' = Append(Others(Cleaned(cache), user[u].what), hit)
    BY <2>1 DEF AnswerFromCache
  <2>3. hit \in Sound /\ hit.age <= CacheTTL /\ CacheInv'
    BY <1>0, <2>2, LookupSound DEF CacheInv, Distinct
  <2>4. hit.dataAge \in 0 .. CacheTTL + RunLimit
    BY <2>3, ChatBounds DEF Sound
  <2>5. UserInv'
    BY <1>0, <2>2, <2>4, RepliedTyped DEF UserInv
  <2>6. UNCHANGED <<last, started, runs, window, accepted>>
    BY <2>1 DEF AnswerFromCache
  <2> QED
    BY <1>a, <1>b, <2>3, <2>5, <2>6 DEF ChatInv
<1>4. CASE \E u \in Users : CoolDown(u)
  <2>1. PICK u \in Users : CoolDown(u)
    BY <1>4
  <2>2. /\ user' = Replied(u, 0) /\ cache' = AfterMiss(user[u].what)
        /\ UNCHANGED <<last, started, runs, window, accepted>>
    BY <2>1 DEF CoolDown
  <2>3. CacheInv'
    BY <1>0, <2>2, LookupSound DEF CacheInv, Distinct
  <2>4. UserInv'
    BY <1>0, <2>2, RefusedTyped DEF UserInv
  <2> QED
    BY <1>a, <1>b, <2>2, <2>3, <2>4 DEF ChatInv
<1>5. CASE \E u \in Users : StartRun(u)
  <2>1. PICK u \in Users : StartRun(u)
    BY <1>5
  <2>2. /\ user' = [user EXCEPT ![u].pc = "waiting"] /\ cache' = AfterMiss(user[u].what)
        /\ UNCHANGED <<window, accepted>>
    BY <2>1 DEF StartRun
  <2>3. CacheInv'
    BY <1>0, <2>2, LookupSound DEF CacheInv, Distinct
  <2>4. UserInv'
    <3>1. [user[u] EXCEPT !.pc = "waiting"] \in Clients
      BY <1>0 DEF UserInv, Clients
    <3>2. user' = [user EXCEPT ![u] = [user[u] EXCEPT !.pc = "waiting"]]
      BY <2>2
    <3> QED
      BY <1>0, <3>1, <3>2 DEF UserInv
  <2>5. RunInv'
    BY <2>1, RunStarts
  <2> QED
    BY <1>a, <2>2, <2>3, <2>4, <2>5 DEF ChatInv
<1>6. CASE \E u \in Users : GiveUp(u)
  <2>1. PICK u \in Users : GiveUp(u)
    BY <1>6
  <2>2. /\ user' = Replied(u, 0) /\ runs' = Orphaned(u)
        /\ UNCHANGED <<cache, last, started, window, accepted>>
    BY <2>1 DEF GiveUp, Unanswered
  <2>3. UserInv'
    BY <1>0, <2>2, RefusedTyped DEF UserInv
  <2>4. RunInv'
    BY <1>0, <2>2, OwnerLeaves
  <2> QED
    BY <1>a, <1>c, <2>2, <2>3, <2>4 DEF ChatInv
<1>7. CASE \E run \in runs : Finish(run)
  <2>1. PICK run \in runs : Finish(run)
    BY <1>7
  <2>2. /\ cache' = AfterSet(run.question, run.age) /\ ReplyToOwner(run, run.age)
        /\ runs' = runs \ {run} /\ UNCHANGED <<last, started, window, accepted>>
    BY <2>1 DEF Finish
  <2>3. run.question \in Questions /\ run.age \in 0 .. RunLimit
    BY <1>0 DEF RunInv, Runs
  <2>4. CacheInv'
    BY <1>0, <2>2, <2>3, SetSound DEF CacheInv, Distinct
  <2>5. UserInv'
    <3>1. run.age \in 0 .. CacheTTL + RunLimit
      BY <2>3, ChatBounds
    <3> QED
      BY <2>2, <3>1, OwnerTyped
  <2>6. RunInv'
    BY <1>0, <2>2, RunEnds
  <2> QED
    BY <1>a, <2>2, <2>4, <2>5, <2>6 DEF ChatInv
<1>8. CASE \E run \in runs : Fail(run)
  <2>1. PICK run \in runs : Fail(run)
    BY <1>8
  <2>2. /\ ReplyToOwner(run, 0) /\ runs' = runs \ {run}
        /\ UNCHANGED <<cache, last, started, window, accepted>>
    BY <2>1 DEF Fail
  <2>3. UserInv'
    <3>1. 0 \in 0 .. CacheTTL + RunLimit
      BY ChatBounds
    <3> QED
      BY <2>2, <3>1, OwnerTyped
  <2>4. RunInv'
    BY <1>0, <2>2, RunEnds
  <2> QED
    BY <1>a, <1>c, <2>2, <2>3, <2>4 DEF ChatInv
<1>d. [u \in Users |-> IF user[u].pc = "idle" THEN user[u] ELSE Replied(u, 0)[u]]
        \in [Users -> Clients]
  <2>1. \A u \in Users : user[u] \in Clients /\ Replied(u, 0)[u] \in Clients
    BY <1>0, RefusedTyped DEF UserInv
  <2> QED
    BY <2>1
<1>9. CASE RestartApi
  <2>1. CacheInv'
    BY <1>9, EmptySeq, ChatBounds DEF RestartApi, CacheInv, Distinct
  <2>2. RunInv'
    BY <1>9, ChatBounds DEF RestartApi, RunInv
  <2>3. UserInv'
    BY <1>9, <1>d DEF RestartApi, UserInv
  <2> QED
    BY <1>9, <1>a, <2>1, <2>2, <2>3 DEF ChatInv, RestartApi
<1>12. CASE RestartDiscordBot
  <2>1. /\ window' = [u \in Users |-> <<>>] /\ accepted' = [u \in Users |-> <<>>]
        /\ runs' = {[r EXCEPT !.owner = "none"] : r \in runs}
        /\ UNCHANGED <<cache, last, started>>
    BY <1>12 DEF RestartDiscordBot
  <2>2. RunInv'
    <3>1. \A r \in runs : r \in Runs
      BY <1>0 DEF RunInv
    <3>2. \A r \in runs : [r EXCEPT !.owner = "none"] \in Runs
      BY <3>1 DEF Runs
    <3>3. runs' \in SUBSET Runs
      BY <2>1, <3>2
    <3> QED
      BY <1>0, <2>1, <3>3 DEF RunInv
  <2>3. UserInv'
    BY <1>12, <1>d DEF RestartDiscordBot, UserInv
  <2>4. WindowInv'
    BY <2>1, NoEvents DEF WindowInv, Limited
  <2> QED
    BY <1>c, <2>1, <2>2, <2>3, <2>4 DEF ChatInv
<1>10. CASE Tick
  BY <1>0, <1>10, CacheAges, RunsAge, CommandsAge, WindowsAge DEF ChatInv
<1>11. CASE UNCHANGED vars
  BY <1>0, <1>11, <1>a, <1>b, <1>c DEF vars, ChatInv, UserInv
<1> QED
  BY <1>1, <1>2, <1>3, <1>4, <1>5, <1>6, <1>7, <1>8, <1>9, <1>10, <1>11,
     <1>12 DEF Next

\* The invariant holds in every state: the cache, the cooldown, the users and
\* the limiter of discord_bot/main.py and agents/router.py.
THEOREM ChatInvariance == Spec => []ChatInv
BY ChatInit, ChatStep, PTL DEF Spec

\* No user is told anything that rests on data older than the cache keeps an
\* answer and a run may take, and the cache keeps its bound and its keys apart
\* (process_chat, _get_cached_response and _set_cached_response).
THEOREM AnswersFresh == Spec => []FreshAnswers
<1>1. ChatInv => FreshAnswers
  <2> SUFFICES ASSUME ChatInv PROVE FreshAnswers
    OBVIOUS
  <2>1. /\ cache \in Seq(Sound) /\ Distinct(cache) /\ Len(cache) <= CacheMax
        /\ DOMAIN cache = 1 .. Len(cache) /\ \A i \in 1 .. Len(cache) : cache[i] \in Sound
    BY LenProperties, ElementOfSeq DEF ChatInv, CacheInv
  <2>2. CacheSound
    BY <2>1 DEF CacheSound, Distinct
  <2>3. \A u \in Users : user[u] \in Clients
    BY DEF ChatInv, UserInv
  <2>4. TypeOK
    BY <2>1, <2>3 DEF TypeOK, Sound, Clients, ChatInv, RunInv, Runs
  <2>5. ASSUME NEW u \in Users PROVE user[u].dataAge <= CacheTTL + RunLimit
    BY <2>3, ChatBounds DEF Clients
  <2> QED
    BY <2>2, <2>4, <2>5 DEF FreshAnswers
<1> QED
  BY <1>1, ChatInvariance, PTL

\* While the API's process runs, no two runs are let through less than the
\* cooldown apart, ended and failed ones included (_is_cooldown_blocked); while
\* the Discord bot's process runs, no user gets more commands past
\* PerUserRateLimiter.allow in 60 seconds than allowed.
THEOREM Limits == Spec => []LimitsHeld
<1>1. ChatInv => LimitsHeld
  <2> SUFFICES ASSUME ChatInv PROVE LimitsHeld
    OBVIOUS
  <2>1. Len(started) <= 1
    BY DEF ChatInv, RunInv
  <2>2. \A u \in Users : Len(accepted[u]) <= RateMax
    BY DEF ChatInv, WindowInv, Limited
  <2> QED
    BY <2>1, <2>2 DEF LimitsHeld
<1> QED
  BY <1>1, ChatInvariance, PTL

=============================================================================
