--------------------------- MODULE MediaStoreProofs ---------------------------
(***************************************************************************)
(* That what is kept of an item stays readable, for every number of        *)
(* attempts and faults, whatever the job, the purge and the migration do.  *)
(***************************************************************************)
EXTENDS MediaStore, FunctionTheorems, FiniteSetTheorems, TLAPS

-------------------------------------------------------------------------------
(* The operators on keys and lists.                                        *)

\* Among the elements of a finite set, ranked without ties, there is one for each place.
LEMMA OnePerPlace ==
  ASSUME NEW S, IsFiniteSet(S), NEW r \in [S -> Int],
         \A x, y \in S : r[x] = r[y] => x = y,
         NEW i \in 1..Cardinality(S)
  PROVE  \E x \in S : Cardinality({y \in S : r[y] < r[x]}) = i - 1
<1> DEFINE Below(x) == {y \in S : r[y] < r[x]}
           place == [x \in S |-> Cardinality(Below(x))]
           Places == 0..(Cardinality(S) - 1)
<1>1. Cardinality(S) \in Nat
  BY FS_CardinalityType
<1>2. ASSUME NEW x \in S
      PROVE  IsFiniteSet(Below(x)) /\ Cardinality(Below(x)) \in Places
  <2>1. Below(x) \in SUBSET (S \ {x})
    OBVIOUS
  <2>2. IsFiniteSet(S \ {x}) /\ Cardinality(S \ {x}) = Cardinality(S) - 1
    BY FS_RemoveElement
  <2>3. IsFiniteSet(Below(x)) /\ Cardinality(Below(x)) <= Cardinality(S \ {x})
    BY <2>1, <2>2, FS_Subset
  <2>4. Cardinality(Below(x)) \in Nat
    BY <2>3, FS_CardinalityType
  <2> QED
    BY <1>1, <2>2, <2>3, <2>4
<1>3. ASSUME NEW x \in S, NEW y \in S, r[x] < r[y]
      PROVE  Cardinality(Below(x)) < Cardinality(Below(y))
  <2>1. Below(x) \cup {x} \in SUBSET Below(y)
    BY <1>3
  <2>2. x \notin Below(x)
    OBVIOUS
  <2>3. Cardinality(Below(x) \cup {x}) = Cardinality(Below(x)) + 1
    BY <1>2, <2>2, FS_AddElement
  <2>4. Cardinality(Below(x) \cup {x}) <= Cardinality(Below(y))
    BY <1>2, <2>1, FS_Subset
  <2> HIDE DEF Below
  <2>5. Cardinality(Below(x)) \in Int /\ Cardinality(Below(y)) \in Int
    BY <1>1, <1>2
  <2> QED
    BY <2>3, <2>4, <2>5
<1> HIDE DEF Below
<1>4. ASSUME NEW x \in S, NEW y \in S, Cardinality(Below(x)) = Cardinality(Below(y))
      PROVE  x = y
  <2> Cardinality(Below(x)) \in Int /\ Cardinality(Below(y)) \in Int
    BY <1>1, <1>2
  <2>1. ~(r[x] < r[y])
    BY <1>3, <1>4
  <2>2. ~(r[y] < r[x])
    BY <1>3, <1>4
  <2>3. r[x] = r[y]
    BY <2>1, <2>2
  <2> QED
    BY <2>3
<1>5. place \in [S -> Places]
  BY <1>2
<1>6. IsInjective(place)
  BY <1>4 DEF IsInjective
<1>7. place \in Injection(S, Places)
  BY <1>5, <1>6 DEF Injection
<1>8. IsFiniteSet(Places) /\ Cardinality(Places) = Cardinality(S)
  <2>1. 0 \in Int /\ Cardinality(S) - 1 \in Int
    BY <1>1
  <2>2. /\ IsFiniteSet(Places)
        /\ Cardinality(Places) = IF 0 > Cardinality(S) - 1 THEN 0 ELSE Cardinality(S) - 1 - 0 + 1
    BY <2>1, FS_Interval
  <2> QED
    BY <1>1, <2>2
<1>9. place \in Surjection(S, Places)
  BY <1>7, <1>8, FS_Injection
<1> HIDE DEF place
<1>10. i - 1 \in Places
  BY <1>1
<1> HIDE DEF Places
<1>11. PICK x \in S : place[x] = i - 1
  BY <1>9, <1>10 DEF Surjection
<1> QED
  BY <1>11 DEF place, Below

\* InOrder lists elements of the set.
LEMMA InOrderLists ==
  ASSUME NEW S, IsFiniteSet(S), NEW r \in [S -> Int],
         \A x, y \in S : r[x] = r[y] => x = y
  PROVE  InOrder(S, r) \in [1..Cardinality(S) -> S]
<1> DEFINE At(i, x) == Cardinality({y \in S : r[y] < r[x]}) = i - 1
<1>1. \A i \in 1..Cardinality(S) : \E x \in S : At(i, x)
  BY OnePerPlace
<1>2. InOrder(S, r) = [i \in 1..Cardinality(S) |-> CHOOSE x \in S : At(i, x)]
  BY DEF InOrder
<1> HIDE DEF At
<1>3. \A i \in 1..Cardinality(S) : (CHOOSE x \in S : At(i, x)) \in S
  BY <1>1
<1> QED
  BY <1>2, <1>3

\* persist_item_media writes clips it was given, each under its number.
LEMMA ItemWritesAre ==
  ASSUME NEW S \in SUBSET Takes
  PROVE  /\ ItemWrites(S) \in Seq(Writes)
         /\ \A i \in DOMAIN ItemWrites(S) : \E m \in S : ItemWrites(S)[i] = Write(m, ItemKey(m))
<1> DEFINE r == [m \in S |-> m]
           clips == InOrder(S, r)
<1>1. Takes \in SUBSET Int /\ IsFiniteSet(Takes)
  BY MediaAssumption, FS_Interval DEF Takes
<1>2. IsFiniteSet(S)
  BY <1>1, FS_Subset
<1>3. r \in [S -> Int] /\ \A x, y \in S : r[x] = r[y] => x = y
  BY <1>1
<1> HIDE DEF r
<1>4. clips \in [1..Cardinality(S) -> S]
  BY <1>2, <1>3, InOrderLists
<1>5. Cardinality(S) \in Nat
  BY <1>2, FS_CardinalityType
<1>6. ItemWrites(S) = [i \in 1..Cardinality(S) |-> Write(clips[i], ItemKey(clips[i]))]
  BY <1>4 DEF ItemWrites, r
<1> HIDE DEF clips
<1>7. \A i \in 1..Cardinality(S) : clips[i] \in S
  BY <1>4
<1>8. \A m \in S : Write(m, ItemKey(m)) \in Writes
  BY DEF Write, ItemKey, Keys, Writes
<1>9. ItemWrites(S) \in [1..Cardinality(S) -> Writes]
  BY <1>6, <1>7, <1>8
<1>10. ItemWrites(S) \in Seq(Writes)
  BY <1>5, <1>9
<1>11. ASSUME NEW i \in DOMAIN ItemWrites(S)
       PROVE  \E m \in S : ItemWrites(S)[i] = Write(m, ItemKey(m))
  BY <1>6, <1>7, <1>9
<1> QED
  BY <1>10, <1>11

\* The keys of an item are finitely many, and storage_key orders them.
LEMMA KeysAreRanked ==
  /\ IsFiniteSet(Keys)
  /\ \A k \in Keys : Rank(k) \in Int
  /\ \A k, l \in Keys : Rank(k) = Rank(l) => k = l
<1> USE MediaAssumption
<1>1. \A k \in Keys : k.dir \in {"item", "demo"} /\ k.n \in Int
  BY DEF Keys, VideoKey, Takes
<1>2. ASSUME NEW k \in Keys
      PROVE  Rank(k) \in (-1)..(4 * MaxAttempts)
  <2>1. CASE k = VideoKey
    BY <2>1 DEF Rank, VideoKey
  <2>2. CASE k \in [dir : {"item", "demo"}, n : Takes]
    BY <2>2 DEF Rank, Takes
  <2> QED
    BY <2>1, <2>2 DEF Keys
<1>3. ASSUME NEW k \in Keys, NEW l \in Keys, Rank(k) = Rank(l)
      PROVE  k = l
  <2>1. ASSUME NEW x \in Keys
        PROVE  /\ x = [dir |-> x.dir, n |-> x.n] /\ x.dir \in {"item", "demo"}
               /\ x.n \in (-1)..(2 * MaxAttempts - 1) /\ (x.n = -1 => x.dir = "item")
    <3>1. CASE x = VideoKey
      BY <3>1 DEF VideoKey
    <3>2. CASE x \in [dir : {"item", "demo"}, n : Takes]
      BY <3>2 DEF Takes
    <3> QED
      BY <3>1, <3>2 DEF Keys
  <2>2. k.dir = l.dir /\ k.n = l.n
    BY <1>3, <2>1 DEF Rank
  <2> QED
    BY <2>1, <2>2
<1>4. IsFiniteSet(Keys)
  <2> DEFINE f == [k \in Keys |-> Rank(k)]
             R == (-1)..(4 * MaxAttempts)
  <2>1. f \in Injection(Keys, R)
    BY <1>2, <1>3 DEF Injection, IsInjective
  <2>2. -1 \in Int /\ 4 * MaxAttempts \in Int
    OBVIOUS
  <2>3. IsFiniteSet(R)
    BY <2>2, FS_Interval
  <2> HIDE DEF f, R
  <2> QED
    BY <2>1, <2>3, FS_Injection
<1> QED
  BY <1>2, <1>3, <1>4

\* A query lists rows of the set it was asked for, as they are.
LEMMA ListedAre ==
  ASSUME MediaTypeOK, NEW ks \in SUBSET Keys, \A k \in ks : rows[k] # None
  PROVE  /\ Listed(ks) \in Seq(ListedRows)
         /\ \A i \in DOMAIN Listed(ks) :
              Listed(ks)[i].key \in ks /\ Listed(ks)[i].sha = rows[Listed(ks)[i].key].sha
<1> DEFINE r == [k \in ks |-> Rank(k)]
           s == InOrder(ks, r)
<1>1. IsFiniteSet(ks)
  BY KeysAreRanked, FS_Subset
<1>2. r \in [ks -> Int] /\ \A x, y \in ks : r[x] = r[y] => x = y
  BY KeysAreRanked
<1> HIDE DEF r
<1>3. s \in [1..Cardinality(ks) -> ks]
  BY <1>1, <1>2, InOrderLists
<1>4. Cardinality(ks) \in Nat
  BY <1>1, FS_CardinalityType
<1>5. Listed(ks) = [i \in 1..Cardinality(ks) |->
        [key |-> s[i], sha |-> rows[s[i]].sha, from |-> DeleteBackend(rows[s[i]].at)]]
  BY <1>3 DEF Listed, r
<1> HIDE DEF s
<1>6. \A i \in 1..Cardinality(ks) : s[i] \in ks
  BY <1>3
<1>7. \A k \in ks : rows[k] \in ArtifactRows
  BY DEF MediaTypeOK
<1>8. \A k \in ks : rows[k].sha \in Takes \cup {Video} /\ DeleteBackend(rows[k].at) \in Backends
  <2>1. storage = "dual" \/ storage \in Backends
    BY DEF MediaTypeOK, Backends
  <2> QED
    BY <1>7, <2>1 DEF ArtifactRows, DeleteBackend
<1>9. \A k \in ks : [key |-> k, sha |-> rows[k].sha, from |-> DeleteBackend(rows[k].at)]
                     \in ListedRows
  BY <1>8 DEF ListedRows
<1>10. Listed(ks) \in [1..Cardinality(ks) -> ListedRows]
  BY <1>5, <1>6, <1>9
<1>11. Listed(ks) \in Seq(ListedRows)
  BY <1>4, <1>10
<1>12. ASSUME NEW i \in DOMAIN Listed(ks)
       PROVE  Listed(ks)[i].key \in ks /\ Listed(ks)[i].sha = rows[Listed(ks)[i].key].sha
  BY <1>5, <1>6, <1>10
<1> QED
  BY <1>11, <1>12

\* No two clips that an item may keep share a key.
LEMMA KeysApart ==
  ASSUME NEW m \in Takes
  PROVE  /\ DurableKey(m) \in Keys /\ ItemKey(m) \in Keys
         /\ ItemKey(m) # VideoKey
         /\ \A l \in Takes : ItemKey(m) = ItemKey(l) => m = l
         /\ m % 2 = 1 =>
              /\ DurableKey(m) # VideoKey
              /\ \A l \in Takes : DurableKey(m) # ItemKey(l)
              /\ \A l \in Takes : DurableKey(m) = DurableKey(l) => m = l
         /\ m % 2 # 1 => m + 1 \in Takes /\ (m + 1) % 2 = 1
<1> USE MediaAssumption
<1>1. m \in Nat /\ m \div 2 \in Takes
  BY DEF Takes
<1>2. DurableKey(m) \in Keys /\ ItemKey(m) \in Keys
  BY <1>1 DEF DurableKey, ItemKey, Keys
<1>3. ItemKey(m) # VideoKey /\ \A l \in Takes : ItemKey(m) = ItemKey(l) => m = l
  BY <1>1 DEF ItemKey, VideoKey
<1>4. ASSUME m % 2 = 1
      PROVE  /\ DurableKey(m) # VideoKey
             /\ \A l \in Takes : DurableKey(m) # ItemKey(l)
  BY <1>4 DEF DurableKey, ItemKey, VideoKey
<1>5. ASSUME m % 2 = 1, NEW l \in Takes, DurableKey(m) = DurableKey(l)
      PROVE  m = l
  <2>1. l % 2 # 0 /\ m \div 2 = l \div 2
    BY <1>5 DEF DurableKey
  <2>2. l \in Nat
    BY DEF Takes
  <2> QED
    BY <1>1, <1>5, <2>1, <2>2
<1>6. m % 2 # 1 => m + 1 \in Takes /\ (m + 1) % 2 = 1
  BY <1>1 DEF Takes
<1> QED
  BY <1>2, <1>3, <1>4, <1>5, <1>6

\* A list that is worked off from its head.
LEMMA HeadAndTail ==
  ASSUME NEW T, NEW s \in Seq(T), s # << >>
  PROVE  /\ Head(s) \in T /\ 1 \in DOMAIN s /\ Head(s) = s[1]
         /\ Tail(s) \in Seq(T)
         /\ \A i \in DOMAIN Tail(s) : i + 1 \in DOMAIN s /\ Tail(s)[i] = s[i + 1]
OBVIOUS

\* The same for the lists of the purge and of the migration.
LEMMA ListHeadAndTail ==
  ASSUME NEW s \in Seq(ListedRows)
  PROVE  /\ \A i \in DOMAIN s : s[i].key \in Keys
         /\ s # << >> =>
              /\ Head(s).key \in Keys /\ Head(s).sha \in Takes \cup {Video}
              /\ Head(s).from \in Backends
              /\ 1 \in DOMAIN s /\ Head(s) = s[1]
              /\ Tail(s) \in Seq(ListedRows)
              /\ \A i \in DOMAIN Tail(s) : \E j \in DOMAIN s : Tail(s)[i] = s[j]
<1>1. \A i \in DOMAIN s : s[i] \in ListedRows
  OBVIOUS
<1>2. \A e \in ListedRows : e.key \in Keys /\ e.sha \in Takes \cup {Video} /\ e.from \in Backends
  BY DEF ListedRows
<1> QED
  BY <1>1, <1>2, HeadAndTail

-------------------------------------------------------------------------------
(* What several actions have in common.                                    *)

\* While the job is at work nothing has expired, is purged or is moved.
LEMMA JobAlone ==
  ASSUME MediaInv, ~Over
  PROVE  purge = << >> /\ copy = << >> /\ \A k \in Keys : rows[k] # None => ~rows[k].due
BY DEF MediaInv, UpkeepAfterJob

\* A step of the job leaves it so.
LEMMA JobAloneStays ==
  ASSUME MediaInv, ~Over, UNCHANGED <<purge, copy>>,
         \A k \in Keys : rows'[k] # None => ~rows'[k].due
  PROVE  UpkeepAfterJob' /\ PurgeOnlyExpired' /\ CopyIsCurrent'
<1>1. purge' = << >> /\ copy' = << >>
  BY JobAlone
<1> QED
  BY <1>1 DEF UpkeepAfterJob, PurgeOnlyExpired, CopyIsCurrent

\* The purge and the migration leave the job's own state alone.
LEMMA JobIsOver ==
  ASSUME MediaInv, Over, UNCHANGED jobVars
  PROVE  /\ UpkeepAfterJob' /\ VerdictOnDemo' /\ NoClipYet' /\ PendingWrites' /\ LedgerIsStored'
         /\ pc = "over" /\ writing = << >>
<1> USE DEF jobVars
<1>1. Over'
  BY DEF Over
<1>2. UpkeepAfterJob' /\ LedgerIsStored'
  BY <1>1 DEF UpkeepAfterJob, LedgerIsStored
<1>3. VerdictOnDemo' /\ NoClipYet'
  BY DEF MediaInv, VerdictOnDemo, NoClipYet
<1>4. writing' = << >> /\ ~half'
  BY DEF MediaInv, PendingWrites, Over
<1>5. PendingWrites'
  BY <1>4 DEF PendingWrites
<1> QED
  BY <1>2, <1>3, <1>5 DEF Over

\* What the next write is allowed to replace: a demo of the ledger by the same demo, and the
\* demo at hand by itself as long as it has not passed.
LEMMA NextWrite ==
  ASSUME MediaInv, writing # << >>
  PROVE  LET w == Head(writing) IN
         /\ w.what \in Takes \cup {Video} /\ w.key \in Keys /\ WriteIsDue(w) /\ ~Over
         /\ \A m \in Takes : m % 2 = 1 /\ w.key = DurableKey(m) => w.what = m
         /\ /\ (n % 2 = 1 /\ pc \in {"media", "qc"}) \/ verdict = "passed"
            /\ pointer[n] # None
            /\ w.key = pointer[n].key
            => w.what = n /\ verdict # "passed"
<1> DEFINE w == Head(writing)
<1>1. w \in Writes /\ 1 \in DOMAIN writing /\ w = writing[1]
  BY HeadAndTail DEF MediaInv, MediaTypeOK
<1>2. WriteIsDue(w)
  BY <1>1 DEF MediaInv, PendingWrites
<1>3. ~Over
  BY DEF Over
<1> HIDE DEF w
<1>4. n \in Takes /\ \A m \in 0..n : m \in Takes
  BY MediaAssumption DEF MediaInv, MediaTypeOK, Takes
<1>5. ASSUME NEW m \in Takes, m % 2 = 1, w.key = DurableKey(m)
      PROVE  w.what = m
  BY <1>2, <1>4, <1>5, KeysApart DEF WriteIsDue, Write
<1>6. ASSUME (n % 2 = 1 /\ pc \in {"media", "qc"}) \/ verdict = "passed", pointer[n] # None,
             w.key = pointer[n].key
      PROVE  w.what = n /\ verdict # "passed"
  <2>1. n % 2 = 1 /\ (pc \in {"media", "qc", "take"} => verdict # "passed")
    BY <1>6 DEF MediaInv, VerdictOnDemo
  <2>2. w.key \in {DurableKey(n), ItemKey(n)}
    BY <1>6 DEF MediaInv, DemoIsStored
  <2>3. CASE pc = "media" /\ w = Write(n, DurableKey(n))
    BY <2>1, <2>3 DEF Write
  <2>4. ASSUME pc \in {"take", "qc", "upscale", "over"},
               NEW m \in 0..n, w = Write(m, ItemKey(m)),
               pc \in {"upscale", "over"} => pointer[m] = None
        PROVE  w.what = n /\ verdict # "passed"
    <3>1. m = n
      BY <1>4, <2>1, <2>2, <2>4, KeysApart DEF Write
    <3> QED
      BY <1>6, <2>1, <2>4, <3>1 DEF Write
  <2>5. ~(w = Write(Video, VideoKey))
    BY <1>4, <2>1, <2>2, KeysApart DEF Write
  <2> QED
    BY <1>2, <2>3, <2>4, <2>5 DEF WriteIsDue
<1> QED
  BY <1>1, <1>2, <1>3, <1>5, <1>6 DEF w, Writes

\* The writes of persist_item_media, for clips that have no pointer.
LEMMA ClipsAreDue ==
  ASSUME MediaInv, NEW S \in Fetched(Unstored)
  PROVE  /\ ItemWrites(S) \in Seq(Writes)
         /\ \A i \in DOMAIN ItemWrites(S) :
              \E m \in 0..n : pointer[m] = None /\ ItemWrites(S)[i] = Write(m, ItemKey(m))
<1>1. S \in SUBSET Takes /\ \A m \in S : m \in 0..n /\ pointer[m] = None
  BY MediaAssumption DEF MediaInv, MediaTypeOK, Fetched, Unstored, Takes
<1> QED
  BY <1>1, ItemWritesAre

\* The initial states.
LEMMA MediaInvInit == MediaInit => MediaInv
<1> SUFFICES ASSUME MediaInit PROVE MediaInv
  OBVIOUS
<1> USE MediaAssumption DEF MediaInit
<1>1. 0 \in Takes /\ 0 % 2 # 1
  BY DEF Takes
<1>2. MediaTypeOK
  BY <1>1 DEF MediaTypeOK, WriteBackend, Backends
<1>3. UpkeepAfterJob /\ VerdictOnDemo /\ NoClipYet
  BY DEF UpkeepAfterJob, VerdictOnDemo, NoClipYet
<1>4. PendingWrites
  BY DEF PendingWrites
<1>5. LedgerIsStored /\ DemoIsStored
  BY <1>1 DEF LedgerIsStored, DemoIsStored, Pointers, Keys, Backends
<1>6. RowsHaveBytes /\ PurgeOnlyExpired /\ CopyIsCurrent
  BY DEF RowsHaveBytes, PurgeOnlyExpired, CopyIsCurrent
<1> QED
  BY <1>2, <1>3, <1>4, <1>5, <1>6 DEF MediaInv

-------------------------------------------------------------------------------
(* Every step of the job keeps the invariant.                              *)

\* A take begins: the ledger's clip, or a new one that is still to be stored.
LEMMA GenerateKeepsInv ==
  ASSUME MediaInv, Generate
  PROVE  MediaInv'
<1> USE DEF MediaInv
<1>1. /\ pc = "take" /\ pc' = "media" /\ writing = << >> /\ pointer[n] = None /\ n \in Takes
      /\ verdict = "none" /\ ~half /\ ~Over /\ done \in [Takes -> Pointers \cup {None, Lost}]
      /\ pointer \in [Takes -> Pointers \cup {None}]
      /\ UNCHANGED <<storage, mine, n, verdict, half, rows, objects, purge, cut, copy, stage>>
  BY DEF Generate, MediaTypeOK, NoClipYet, VerdictOnDemo, PendingWrites, Over, storeVars, upkeepVars
<1>2. /\ done' = done \/ done' = [done EXCEPT ![n] = Lost]
      /\ writing' \in {<< >>, <<Write(n, DurableKey(n))>>}
      /\ \/ pointer' = pointer
         \/ /\ done[n] # None /\ done' = done
            /\ pointer' = [pointer EXCEPT ![n] = IF done[n] = Lost THEN None ELSE done[n]]
  BY <1>1 DEF Generate
<1>3. MediaTypeOK'
  <2> DEFINE first == Write(n, DurableKey(n))
  <2>1. first \in Writes
    BY <1>1, KeysApart DEF Write, Writes
  <2> HIDE DEF first
  <2>2. << >> \in Seq(Writes) /\ <<first>> \in Seq(Writes)
    BY <2>1
  <2>3. writing' \in Seq(Writes)
    BY <1>2, <2>2 DEF first
  <2>4. done' \in [Takes -> Pointers \cup {None, Lost}]
    BY <1>1, <1>2
  <2>5. pointer' \in [Takes -> Pointers \cup {None}]
    BY <1>1, <1>2
  <2> QED
    BY <1>1, <2>3, <2>4, <2>5 DEF MediaTypeOK
<1>4. UpkeepAfterJob' /\ PurgeOnlyExpired' /\ CopyIsCurrent'
  BY <1>1, JobAlone, JobAloneStays
<1>5. VerdictOnDemo'
  BY <1>1 DEF VerdictOnDemo
<1>6. NoClipYet'
  <2>1. \A m \in Takes : m # n => pointer'[m] = pointer[m]
    BY <1>1, <1>2
  <2>2. \A m \in Takes : m > n => m # n
    BY <1>1 DEF Takes
  <2> QED
    BY <1>1, <2>1, <2>2 DEF NoClipYet
<1>7. PendingWrites'
  <2>1. \A i \in DOMAIN writing' : writing'[i] = Write(n, DurableKey(n))
    BY <1>2
  <2> QED
    BY <1>1, <2>1 DEF PendingWrites, WriteIsDue
<1>8. LedgerIsStored'
  <2>1. ASSUME NEW m \in Takes, m % 2 = 1, done'[m] \in Pointers
        PROVE  done'[m].key = DurableKey(m) /\ StoredAs(m, done[m])'
    <3>1. done'[m] = done[m]
      BY <1>1, <1>2, <2>1, MediaAssumption
    <3> QED
      BY <1>1, <2>1, <3>1 DEF LedgerIsStored, StoredAs
  <2> QED
    BY <2>1 DEF LedgerIsStored
<1>9. DemoIsStored'
  <2>1. ASSUME n % 2 = 1, pointer'[n] # None
        PROVE  pointer'[n].key = DurableKey(n) /\ StoredAs(n, pointer[n])'
    <3>1. pointer'[n] = done[n] /\ done[n] \in Pointers
      BY <1>1, <1>2, <2>1
    <3> QED
      BY <1>1, <2>1, <3>1 DEF LedgerIsStored, StoredAs
  <2> QED
    BY <1>1, <2>1 DEF DemoIsStored
<1>10. RowsHaveBytes'
  BY <1>1 DEF RowsHaveBytes
<1> QED
  BY <1>3, <1>4, <1>5, <1>6, <1>7, <1>8, <1>9, <1>10

\* A clip cannot be made: the item is over, and what it has is left as it is.
LEMMA ClipFailsKeepsInv ==
  ASSUME MediaInv, ClipFails
  PROVE  MediaInv'
<1> USE DEF MediaInv, ClipFails, storeVars, upkeepVars
<1>1. verdict = "none" /\ ~half /\ ~Over /\ Over'
  BY DEF VerdictOnDemo, PendingWrites, Over
<1>2. MediaTypeOK'
  BY DEF MediaTypeOK
<1>3. UpkeepAfterJob' /\ LedgerIsStored'
  BY <1>1 DEF UpkeepAfterJob, LedgerIsStored
<1>4. VerdictOnDemo' /\ NoClipYet'
  BY <1>1 DEF VerdictOnDemo, NoClipYet
<1>5. PendingWrites'
  BY <1>1 DEF PendingWrites
<1>6. DemoIsStored'
  BY <1>1 DEF DemoIsStored
<1>7. RowsHaveBytes' /\ PurgeOnlyExpired' /\ CopyIsCurrent'
  BY DEF RowsHaveBytes, PurgeOnlyExpired, CopyIsCurrent
<1> QED
  BY <1>2, <1>3, <1>4, <1>5, <1>6, <1>7

\* Bytes are stored: they replace no other clip's that is counted on.
LEMMA PutBytesKeepsInv ==
  ASSUME MediaInv, PutBytes
  PROVE  MediaInv'
<1> DEFINE w == Head(writing)
<1> USE DEF MediaInv, upkeepVars
<1>1. /\ writing # << >> /\ ~half /\ half' /\ half' \in BOOLEAN
      /\ objects' = [objects EXCEPT ![mine][w.key] = w.what]
      /\ UNCHANGED <<storage, mine, pc, n, pointer, verdict, writing, done, rows, purge, cut,
                     copy, stage>>
  BY DEF PutBytes
<1>2. /\ w.what \in Takes \cup {Video} /\ w.key \in Keys /\ ~Over
      /\ \A m \in Takes : m % 2 = 1 /\ w.key = DurableKey(m) => w.what = m
      /\ /\ (n % 2 = 1 /\ pc \in {"media", "qc"}) \/ verdict = "passed"
         /\ pointer[n] # None
         /\ w.key = pointer[n].key
         => w.what = n /\ verdict # "passed"
  BY <1>1, NextWrite
<1>3. /\ mine \in Backends /\ objects \in [Backends -> [Keys -> Takes \cup {Video, None}]]
      /\ n \in Takes /\ pointer \in [Takes -> Pointers \cup {None}]
      /\ rows \in [Keys -> ArtifactRows \cup {None}]
  BY DEF MediaTypeOK
<1> HIDE DEF w
<1>4. /\ objects'[mine][w.key] = w.what
      /\ \A b \in Backends, k \in Keys : objects'[b][k] \in {objects[b][k], w.what}
      /\ \A b \in Backends, k \in Keys : k # w.key => objects'[b][k] = objects[b][k]
      /\ objects' \in [Backends -> [Keys -> Takes \cup {Video, None}]]
  BY <1>1, <1>2, <1>3
<1>5. ASSUME NEW m \in Takes, NEW p \in Pointers, StoredAs(m, p), w.key = p.key => w.what = m
      PROVE  StoredAs(m, p)'
  <2>1. p.key \in Keys /\ p.at \in Backends /\ rows[p.key].at \in Backends
    BY <1>3, <1>5 DEF Pointers, StoredAs, ArtifactRows
  <2> QED
    BY <1>1, <1>4, <1>5, <2>1 DEF StoredAs
<1>6. MediaTypeOK'
  BY <1>1, <1>4 DEF MediaTypeOK
<1>7. UpkeepAfterJob' /\ PurgeOnlyExpired' /\ CopyIsCurrent'
  BY <1>1, <1>2, JobAlone, JobAloneStays
<1>8. VerdictOnDemo' /\ NoClipYet'
  BY <1>1 DEF VerdictOnDemo, NoClipYet
<1>9. PendingWrites'
  BY <1>1, <1>4 DEF PendingWrites, WriteIsDue, w
<1>10. LedgerIsStored'
  BY <1>1, <1>2, <1>5 DEF LedgerIsStored
<1>11. DemoIsStored'
  <2>1. ASSUME (n % 2 = 1 /\ pc \in {"media", "qc"}) \/ verdict = "passed", pointer[n] # None
        PROVE  StoredAs(n, pointer[n])'
    BY <1>1, <1>2, <1>3, <1>5, <2>1 DEF DemoIsStored, StoredAs
  <2> QED
    BY <1>1, <2>1 DEF DemoIsStored
<1>12. RowsHaveBytes'
  <2>1. w.what # None
    BY <1>2, MediaAssumption
  <2>2. \A k \in Keys : rows[k] # None => rows[k].at \in Backends
    BY <1>3 DEF ArtifactRows
  <2> QED
    BY <1>1, <1>4, <2>1, <2>2 DEF RowsHaveBytes
<1> QED
  BY <1>6, <1>7, <1>8, <1>9, <1>10, <1>11, <1>12

\* The row of the bytes just stored is recorded, and the clip gets its pointer.
LEMMA RecordRowKeepsInv ==
  ASSUME MediaInv, RecordRow
  PROVE  MediaInv'
<1> DEFINE w == Head(writing)
           stored == [key |-> w.key, at |-> mine]
<1> USE DEF MediaInv, upkeepVars
<1>1. /\ writing # << >> /\ half /\ half' = FALSE
      /\ rows' = [rows EXCEPT ![w.key] = Row(w)]
      /\ writing' = Tail(writing)
      /\ pointer' = IF pc \in {"media", "take", "qc"}
                    THEN [pointer EXCEPT ![w.what] = stored] ELSE pointer
      /\ done' = IF pc = "media" THEN [done EXCEPT ![w.what] = stored] ELSE done
      /\ UNCHANGED <<storage, mine, pc, n, verdict, objects, purge, cut, copy, stage>>
  BY DEF RecordRow
<1>2. /\ w.what \in Takes \cup {Video} /\ w.key \in Keys /\ WriteIsDue(w) /\ ~Over
      /\ \A m \in Takes : m % 2 = 1 /\ w.key = DurableKey(m) => w.what = m
      /\ /\ (n % 2 = 1 /\ pc \in {"media", "qc"}) \/ verdict = "passed"
         /\ pointer[n] # None
         /\ w.key = pointer[n].key
         => w.what = n /\ verdict # "passed"
  BY <1>1, NextWrite
<1>3. /\ mine \in Backends /\ n \in Takes /\ pointer \in [Takes -> Pointers \cup {None}]
      /\ done \in [Takes -> Pointers \cup {None, Lost}]
      /\ rows \in [Keys -> ArtifactRows \cup {None}] /\ writing \in Seq(Writes)
      /\ objects[mine][w.key] = w.what
  BY <1>1 DEF MediaTypeOK, PendingWrites
<1>4. /\ Tail(writing) \in Seq(Writes)
      /\ \A i \in DOMAIN Tail(writing) : WriteIsDue(Tail(writing)[i])
  BY <1>1, <1>3, HeadAndTail DEF PendingWrites
<1>5. /\ pc = "media" => w.what = n /\ w.key = DurableKey(n)
      /\ pc \in {"take", "qc"} =>
           w.what \in 0..n /\ w.key = ItemKey(w.what) /\ (pc = "take" => w.what < n)
  BY <1>2 DEF WriteIsDue, Write
<1> HIDE DEF w
<1>6. /\ Row(w) \in ArtifactRows /\ Row(w) # None /\ ~Row(w).due
      /\ Row(w).at = mine /\ Row(w).sha = w.what
  <2>1. Row(w) \in ArtifactRows
    BY <1>2, <1>3 DEF Row, ArtifactRows
  <2>2. Row(w) # None
    BY <2>1, MediaAssumption
  <2> QED
    BY <2>1, <2>2 DEF Row
<1>7. stored \in Pointers /\ stored.key = w.key /\ stored.at = mine
  BY <1>2, <1>3 DEF Pointers
<1> HIDE DEF stored
<1>8. /\ rows' \in [Keys -> ArtifactRows \cup {None}] /\ rows'[w.key] = Row(w)
      /\ \A k \in Keys : k # w.key => rows'[k] = rows[k]
  BY <1>1, <1>2, <1>3, <1>6
<1>9. ASSUME NEW m \in Takes, NEW p \in Pointers, StoredAs(m, p), w.key = p.key => w.what = m
      PROVE  StoredAs(m, p)'
  <2>1. p.key \in Keys
    BY DEF Pointers
  <2>2. CASE p.key # w.key
    BY <1>1, <1>8, <1>9, <2>1, <2>2 DEF StoredAs
  <2>3. CASE p.key = w.key
    BY <1>1, <1>3, <1>6, <1>8, <1>9, <2>3 DEF StoredAs
  <2> QED
    BY <2>2, <2>3
<1>10. ASSUME NEW m \in Takes, NEW p \in Pointers, p = stored, m = w.what
       PROVE  StoredAs(m, p)'
  <2>1. p.key = w.key /\ p.at = mine /\ rows'[p.key] = Row(w)
    BY <1>7, <1>8, <1>10
  <2> QED
    BY <1>1, <1>3, <1>6, <1>10, <2>1 DEF StoredAs
<1>11. MediaTypeOK'
  <2>1. pointer' \in [Takes -> Pointers \cup {None}]
    BY <1>1, <1>3, <1>7
  <2>2. done' \in [Takes -> Pointers \cup {None, Lost}]
    BY <1>1, <1>3, <1>7
  <2>3. writing' \in Seq(Writes) /\ half' \in BOOLEAN
    BY <1>1, <1>4
  <2> QED
    BY <1>1, <1>8, <2>1, <2>2, <2>3 DEF MediaTypeOK
<1>12. UpkeepAfterJob' /\ PurgeOnlyExpired' /\ CopyIsCurrent'
  <2>1. \A k \in Keys : rows'[k] # None => ~rows'[k].due
    BY <1>2, <1>6, <1>8, JobAlone
  <2> QED
    BY <1>1, <1>2, <2>1, JobAloneStays
<1>13. VerdictOnDemo'
  BY <1>1 DEF VerdictOnDemo
<1>14. NoClipYet'
  <2>1. ASSUME NEW m \in Takes, m > n \/ (m = n /\ pc = "take")
        PROVE  pointer'[m] = pointer[m]
    <3>1. pc \in {"media", "take", "qc"} => m # w.what
      BY <1>3, <1>5, <2>1 DEF Takes
    <3> QED
      BY <1>1, <1>3, <3>1
  <2> QED
    BY <1>1, <2>1 DEF NoClipYet
<1>15. PendingWrites'
  BY <1>1, <1>4 DEF PendingWrites, WriteIsDue
<1>16. LedgerIsStored'
  <2>1. ASSUME NEW m \in Takes, m % 2 = 1, done'[m] \in Pointers
        PROVE  done'[m].key = DurableKey(m) /\ StoredAs(m, done[m])'
    <3>1. CASE pc = "media" /\ m = n
      <4>1. done'[m] = stored /\ w.what = m
        BY <1>1, <1>3, <1>5, <3>1
      <4> QED
        BY <1>5, <1>7, <1>10, <2>1, <3>1, <4>1 DEF StoredAs
    <3>2. CASE ~(pc = "media" /\ m = n)
      <4>1. done'[m] = done[m]
        BY <1>1, <1>3, <1>5, <3>2
      <4>2. done[m].key = DurableKey(m) /\ StoredAs(m, done[m])
        BY <1>2, <2>1, <4>1 DEF LedgerIsStored
      <4>3. w.key = done[m].key => w.what = m
        BY <1>2, <2>1, <4>2
      <4> QED
        BY <1>9, <2>1, <4>1, <4>2, <4>3 DEF StoredAs
    <3> QED
      BY <3>1, <3>2
  <2> QED
    BY <2>1 DEF LedgerIsStored
<1>17. DemoIsStored'
  <2>1. ASSUME (n % 2 = 1 /\ pc \in {"media", "qc"}) \/ verdict = "passed", pointer'[n] # None
        PROVE  /\ pointer'[n].key \in {DurableKey(n), ItemKey(n)} /\ StoredAs(n, pointer[n])'
               /\ verdict = "passed" =>
                    rows'[pointer'[n].key].class = "keep" /\ ~rows'[pointer'[n].key].due
    <3>1. verdict = "passed" => pc \notin {"media", "take", "qc"}
      BY DEF VerdictOnDemo
    <3>2. CASE pc \in {"media", "qc"} /\ w.what = n
      <4>1. pointer'[n] = stored
        BY <1>1, <1>3, <3>2
      <4>2. w.key \in {DurableKey(n), ItemKey(n)}
        BY <1>5, <3>2
      <4>3. StoredAs(n, pointer[n])'
        BY <1>1, <1>3, <1>7, <1>10, <3>2, <4>1 DEF StoredAs
      <4> QED
        BY <1>7, <3>1, <3>2, <4>1, <4>2, <4>3
    <3>3. CASE ~(pc \in {"media", "qc"} /\ w.what = n)
      <4>1. pointer'[n] = pointer[n] /\ pointer[n] \in Pointers
        BY <1>1, <1>3, <2>1, <3>1, <3>3
      <4>2. /\ pointer[n].key \in {DurableKey(n), ItemKey(n)} /\ StoredAs(n, pointer[n])
            /\ verdict = "passed" =>
                 rows[pointer[n].key].class = "keep" /\ ~rows[pointer[n].key].due
        BY <2>1, <4>1 DEF DemoIsStored
      <4>3. w.key # pointer[n].key
        BY <1>2, <1>5, <2>1, <3>1, <3>3, <4>1
      <4>4. StoredAs(n, pointer[n])'
        BY <1>1, <1>3, <1>9, <4>1, <4>2, <4>3 DEF StoredAs
      <4>5. rows'[pointer[n].key] = rows[pointer[n].key]
        BY <1>8, <4>1, <4>3 DEF Pointers
      <4> QED
        BY <4>1, <4>2, <4>4, <4>5
    <3> QED
      BY <3>2, <3>3
  <2> QED
    BY <1>1, <2>1 DEF DemoIsStored
<1>18. RowsHaveBytes'
  <2>1. w.what # None
    BY <1>2, MediaAssumption
  <2> QED
    BY <1>1, <1>3, <1>6, <1>8, <2>1 DEF RowsHaveBytes
<1> QED
  BY <1>11, <1>12, <1>13, <1>14, <1>15, <1>16, <1>17, <1>18

\* The rest of a video node: the clips without a pointer are written, and the item goes on to
\* its demo or to the quality check.
LEMMA PersistItemKeepsInv ==
  ASSUME MediaInv, PersistItem
  PROVE  MediaInv'
<1> USE DEF MediaInv, storeVars, upkeepVars
<1>1. PICK S \in Fetched(Unstored) : writing' = ItemWrites(S)
  BY DEF PersistItem
<1>2. /\ pc = "media" /\ writing = << >> /\ ~half /\ ~Over /\ verdict = "none" /\ n \in Takes
      /\ \/ n % 2 = 0 /\ pc' = "take" /\ n' = n + 1
         \/ n % 2 # 0 /\ pc' = "qc" /\ n' = n
      /\ UNCHANGED <<storage, mine, pointer, verdict, half, done, rows, objects, purge, cut, copy,
                     stage>>
  BY DEF PersistItem, PendingWrites, Over, VerdictOnDemo, MediaTypeOK
<1>3. /\ writing' \in Seq(Writes)
      /\ \A i \in DOMAIN writing' : \E m \in 0..n : writing'[i] = Write(m, ItemKey(m))
  BY <1>1, ClipsAreDue
<1>4. n' \in Takes /\ n \in Nat /\ (pc' = "qc" => n % 2 = 1)
  BY <1>2, KeysApart, MediaAssumption DEF Takes
<1>5. MediaTypeOK'
  BY <1>2, <1>3, <1>4 DEF MediaTypeOK
<1>6. UpkeepAfterJob' /\ PurgeOnlyExpired' /\ CopyIsCurrent'
  BY <1>2, JobAlone, JobAloneStays
<1>7. VerdictOnDemo'
  BY <1>2, <1>4 DEF VerdictOnDemo
<1>8. NoClipYet'
  <2>1. \A m \in Takes : m > n' \/ (m = n' /\ pc' = "take") => m > n
    BY <1>2, <1>4 DEF Takes
  <2> QED
    BY <1>2, <2>1 DEF NoClipYet
<1>9. PendingWrites'
  <2>1. ASSUME NEW m \in 0..n
        PROVE  m \in 0..n' /\ (pc' = "take" => m < n')
    BY <1>2, <1>4
  <2>2. \A i \in DOMAIN writing' : WriteIsDue(writing[i])'
    BY <1>2, <1>3, <2>1 DEF WriteIsDue
  <2> QED
    BY <1>2, <2>2 DEF PendingWrites
<1>10. LedgerIsStored'
  BY <1>2 DEF LedgerIsStored, StoredAs
<1>11. DemoIsStored'
  BY <1>2, <1>4 DEF DemoIsStored, StoredAs
<1>12. RowsHaveBytes'
  BY <1>2 DEF RowsHaveBytes
<1> QED
  BY <1>5, <1>6, <1>7, <1>8, <1>9, <1>10, <1>11, <1>12

\* Classification changes neither what a row names nor which rows there are.
LEMMA ClassifiedKeeps ==
  ASSUME MediaInv, ~Over, NEW class \in [Keys -> {"keep", "intermediate", "rejected"}],
         Classified(class)
  PROVE  /\ rows' \in [Keys -> ArtifactRows \cup {None}]
         /\ \A k \in Keys :
              /\ rows'[k] = None <=> rows[k] = None
              /\ rows[k] # None =>
                   rows'[k].at = rows[k].at /\ rows'[k].sha = rows[k].sha /\ ~rows'[k].due
         /\ \A k \in Keys, m \in 0..n :
              rows[k] # None /\ pointer[m] # None /\ pointer[m].key = k => rows'[k].class = class[k]
<1> DEFINE Reached(k) == \E m \in 0..n : pointer[m] # None /\ pointer[m].key = k
           With(k) == [rows[k] EXCEPT !.class = class[k], !.due = FALSE]
<1>1. /\ rows \in [Keys -> ArtifactRows \cup {None}]
      /\ \A k \in Keys : rows[k] # None => ~rows[k].due
  BY JobAlone DEF MediaInv, MediaTypeOK
<1>2. rows' = [k \in Keys |-> IF rows[k] # None /\ Reached(k) THEN With(k) ELSE rows[k]]
  BY DEF Classified
<1> HIDE DEF Reached
<1>3. ASSUME NEW k \in Keys, rows[k] # None
      PROVE  /\ With(k) \in ArtifactRows
             /\ With(k).at = rows[k].at /\ With(k).sha = rows[k].sha
             /\ ~With(k).due /\ With(k).class = class[k]
  <2>1. rows[k] \in ArtifactRows
    BY <1>1, <1>3
  <2> QED
    BY <2>1 DEF ArtifactRows
<1>4. None \notin ArtifactRows
  BY MediaAssumption
<1> HIDE DEF With
<1>5. rows' \in [Keys -> ArtifactRows \cup {None}]
  BY <1>1, <1>2, <1>3
<1>6. ASSUME NEW k \in Keys
      PROVE  /\ rows'[k] = None <=> rows[k] = None
             /\ rows[k] # None =>
                  rows'[k].at = rows[k].at /\ rows'[k].sha = rows[k].sha /\ ~rows'[k].due
  BY <1>1, <1>2, <1>3, <1>4
<1>7. ASSUME NEW k \in Keys, NEW m \in 0..n,
             rows[k] # None, pointer[m] # None, pointer[m].key = k
      PROVE  rows'[k].class = class[k]
  <2>1. Reached(k)
    BY <1>7 DEF Reached
  <2> QED
    BY <1>2, <1>3, <1>7, <2>1
<1> QED
  BY <1>5, <1>6, <1>7

\* The quality check: the demo passes and is the one to keep, another attempt begins, or the
\* item is dropped.
LEMMA QcKeepsInv ==
  ASSUME MediaInv, Qc
  PROVE  MediaInv'
<1> DEFINE Kept == [k \in Keys |-> IF pointer[n] # None /\ k = pointer[n].key
                                   THEN "keep" ELSE "intermediate"]
<1> USE DEF MediaInv, upkeepVars
<1>1. /\ pc = "qc" /\ writing = << >> /\ half = FALSE /\ ~Over /\ n \in Takes /\ n \in Nat
      /\ n % 2 = 1 /\ pointer \in [Takes -> Pointers \cup {None}]
      /\ UNCHANGED <<storage, mine, pointer, writing, half, done, objects, purge, cut, copy, stage>>
  BY MediaAssumption
  DEF Qc, PendingWrites, Over, VerdictOnDemo, MediaTypeOK, Takes
<1>2. \/ verdict' = "passed" /\ Classified(Kept) /\ pc' = "assembly" /\ n' = n
      \/ n + 1 \in Takes /\ n' = n + 1 /\ pc' = "take" /\ verdict' = verdict /\ rows' = rows
      \/ verdict' = "dropped" /\ Classified([k \in Keys |-> "rejected"]) /\ pc' = "over" /\ n' = n
  BY DEF Qc
<1>3. /\ rows' \in [Keys -> ArtifactRows \cup {None}]
      /\ \A k \in Keys :
           /\ rows'[k] = None <=> rows[k] = None
           /\ rows[k] # None =>
                rows'[k].at = rows[k].at /\ rows'[k].sha = rows[k].sha /\ ~rows'[k].due
  <2>1. CASE Classified(Kept)
    BY <1>1, <2>1, ClassifiedKeeps
  <2>2. CASE Classified([k \in Keys |-> "rejected"])
    BY <1>1, <2>2, ClassifiedKeeps
  <2>3. CASE rows' = rows
    BY <1>1, <2>3, JobAlone DEF MediaTypeOK
  <2> QED
    BY <1>2, <2>1, <2>2, <2>3
<1>4. ASSUME NEW m \in Takes, NEW p \in Pointers, StoredAs(m, p)
      PROVE  StoredAs(m, p)'
  BY <1>1, <1>3, <1>4 DEF StoredAs, Pointers
<1>5. MediaTypeOK'
  BY <1>1, <1>2, <1>3 DEF MediaTypeOK
<1>6. UpkeepAfterJob' /\ PurgeOnlyExpired' /\ CopyIsCurrent'
  <2>1. \A k \in Keys : rows'[k] # None => ~rows'[k].due
    BY <1>3
  <2> QED
    BY <1>1, <2>1, JobAloneStays
<1>7. VerdictOnDemo'
  BY <1>1, <1>2 DEF VerdictOnDemo
<1>8. NoClipYet'
  <2>1. \A m \in Takes : m > n' \/ (m = n' /\ pc' = "take") => m > n
    BY <1>1, <1>2 DEF Takes
  <2> QED
    BY <1>1, <2>1 DEF NoClipYet
<1>9. PendingWrites'
  BY <1>1 DEF PendingWrites
<1>10. LedgerIsStored'
  BY <1>1, <1>4 DEF LedgerIsStored, StoredAs
<1>11. DemoIsStored'
  <2>1. ASSUME verdict' = "passed", pointer[n] # None
        PROVE  /\ pointer[n].key \in {DurableKey(n), ItemKey(n)} /\ StoredAs(n, pointer[n])'
               /\ rows'[pointer[n].key].class = "keep" /\ ~rows'[pointer[n].key].due
    <3>1. pc' = "assembly" /\ n' = n /\ Classified(Kept)
      BY <1>1, <1>2, <2>1 DEF VerdictOnDemo
    <3>2. pointer[n].key \in {DurableKey(n), ItemKey(n)} /\ StoredAs(n, pointer[n])
      BY <1>1, <2>1 DEF DemoIsStored
    <3>3. pointer[n] \in Pointers /\ pointer[n].key \in Keys /\ n \in 0..n
      BY <1>1, <2>1 DEF Pointers
    <3>4. StoredAs(n, pointer[n])'
      BY <1>1, <1>4, <3>1, <3>2, <3>3 DEF StoredAs
    <3>5. rows[pointer[n].key] # None
      BY <3>2 DEF StoredAs
    <3>6. Kept \in [Keys -> {"keep", "intermediate", "rejected"}] /\ Kept[pointer[n].key] = "keep"
      BY <2>1, <3>3
    <3> HIDE DEF Kept
    <3>7. rows'[pointer[n].key].class = Kept[pointer[n].key]
      BY <1>1, <2>1, <3>1, <3>3, <3>5, <3>6, ClassifiedKeeps
    <3> QED
      BY <1>3, <3>2, <3>3, <3>4, <3>5, <3>6, <3>7
  <2>2. pc' \notin {"media", "qc"} /\ (verdict' = "passed" => n' = n)
    BY <1>1, <1>2 DEF VerdictOnDemo
  <2> QED
    BY <1>1, <2>1, <2>2 DEF DemoIsStored
<1>12. RowsHaveBytes'
  BY <1>1, <1>3, JobAlone DEF RowsHaveBytes
<1> QED
  BY <1>5, <1>6, <1>7, <1>8, <1>9, <1>10, <1>11, <1>12

\* The last two nodes: the video is written, and the clips without a pointer are.
LEMMA LastNodesKeepInv ==
  ASSUME MediaInv, Assemble \/ Upscale
  PROVE  MediaInv'
<1> DEFINE video == Write(Video, VideoKey)
<1> USE DEF MediaInv, storeVars, upkeepVars
<1>1. /\ pc \in {"assembly", "upscale"} /\ writing = << >> /\ half = FALSE /\ ~Over
      /\ n % 2 = 1 /\ pc' \in {"upscale", "over"}
      /\ UNCHANGED <<storage, mine, n, pointer, verdict, half, done, rows, objects, purge, cut,
                     copy, stage>>
  BY DEF Assemble, Upscale, PendingWrites, Over, VerdictOnDemo
<1>2. \/ writing' = << >>
      \/ \E S \in Fetched(Unstored) :
           writing' \in {<<video>> \o ItemWrites(S), Append(ItemWrites(S), video)}
  BY <1>1 DEF Assemble, Upscale
<1>3. video \in Writes
  BY DEF Write, Keys, Writes
<1> HIDE DEF video
<1>4. /\ writing' \in Seq(Writes)
      /\ \A i \in DOMAIN writing' :
           \/ writing'[i] = video
           \/ \E m \in 0..n : pointer[m] = None /\ writing'[i] = Write(m, ItemKey(m))
  <2>1. CASE writing' = << >>
    BY <2>1
  <2>2. ASSUME NEW S \in Fetched(Unstored),
               writing' \in {<<video>> \o ItemWrites(S), Append(ItemWrites(S), video)}
        PROVE  <1>4!:
    <3> DEFINE clips == ItemWrites(S)
    <3>1. /\ clips \in Seq(Writes)
          /\ \A i \in DOMAIN clips :
               \E m \in 0..n : pointer[m] = None /\ clips[i] = Write(m, ItemKey(m))
      BY ClipsAreDue
    <3> HIDE DEF clips
    <3>2. CASE writing' = <<video>> \o clips
      <4>1. /\ writing' \in Seq(Writes)
            /\ \A i \in DOMAIN writing' :
                 writing'[i] = video \/ (i - 1 \in DOMAIN clips /\ writing'[i] = clips[i - 1])
        BY <1>3, <3>1, <3>2
      <4> QED
        BY <3>1, <4>1
    <3>3. CASE writing' = Append(clips, video)
      <4>1. /\ writing' \in Seq(Writes)
            /\ \A i \in DOMAIN writing' :
                 writing'[i] = video \/ (i \in DOMAIN clips /\ writing'[i] = clips[i])
        BY <1>3, <3>1, <3>3
      <4> QED
        BY <3>1, <4>1
    <3> QED
      BY <2>2, <3>2, <3>3 DEF clips
  <2> QED
    BY <1>2, <2>1, <2>2
<1>5. MediaTypeOK'
  BY <1>1, <1>4 DEF MediaTypeOK
<1>6. UpkeepAfterJob' /\ PurgeOnlyExpired' /\ CopyIsCurrent'
  BY <1>1, JobAlone, JobAloneStays
<1>7. VerdictOnDemo' /\ NoClipYet'
  BY <1>1 DEF VerdictOnDemo, NoClipYet
<1>8. PendingWrites'
  <2>1. \A i \in DOMAIN writing' : WriteIsDue(writing[i])'
    BY <1>1, <1>4 DEF WriteIsDue, video
  <2> QED
    BY <1>1, <2>1 DEF PendingWrites
<1>9. LedgerIsStored'
  BY <1>1 DEF LedgerIsStored, StoredAs
<1>10. DemoIsStored'
  BY <1>1 DEF DemoIsStored, StoredAs
<1>11. RowsHaveBytes'
  BY <1>1 DEF RowsHaveBytes
<1> QED
  BY <1>5, <1>6, <1>7, <1>8, <1>9, <1>10, <1>11

\* A worker that dies leaves the ledger, the rows and the bytes as they are.
LEMMA CrashJobKeepsInv ==
  ASSUME MediaInv, CrashJob
  PROVE  MediaInv'
<1> USE DEF MediaInv, storeVars, upkeepVars
<1>1. /\ ~Over /\ mine' \in Backends /\ pc' \in {"take", "over"} /\ n' = 0 /\ 0 \in Takes
      /\ pointer' = [m \in Takes |-> None] /\ verdict' = "none"
      /\ writing' = << >> /\ half' = FALSE
      /\ UNCHANGED <<storage, done, rows, objects, purge, cut, copy, stage>>
  BY MediaAssumption DEF CrashJob, WriteBackend, Backends, Takes
<1>2. MediaTypeOK'
  <2>1. pointer' \in [Takes -> Pointers \cup {None}]
    BY <1>1
  <2>2. writing' \in Seq(Writes)
    BY <1>1
  <2> QED
    BY <1>1, <2>1, <2>2 DEF MediaTypeOK
<1>3. UpkeepAfterJob' /\ PurgeOnlyExpired' /\ CopyIsCurrent'
  BY <1>1, JobAlone, JobAloneStays
<1>4. VerdictOnDemo' /\ NoClipYet'
  BY <1>1 DEF VerdictOnDemo, NoClipYet
<1>5. PendingWrites' /\ DemoIsStored'
  <2>1. pointer'[n'] = None
    BY <1>1
  <2> QED
    BY <1>1, <2>1 DEF PendingWrites, DemoIsStored
<1>6. LedgerIsStored'
  BY <1>1 DEF LedgerIsStored, StoredAs
<1>7. RowsHaveBytes'
  BY <1>1 DEF RowsHaveBytes
<1> QED
  BY <1>2, <1>3, <1>4, <1>5, <1>6, <1>7

-------------------------------------------------------------------------------
(* Every step of the purge and of the migration keeps it.                  *)

\* They have work only when the job is over.
LEMMA UpkeepIsAfter ==
  ASSUME MediaInv,
         purge # << >> \/ copy # << >> \/ Expired # {}
  PROVE  Over
BY DEF MediaInv, UpkeepAfterJob, Expired

\* A row expires; the deliverable's does not.
LEMMA ExpireKeepsInv ==
  ASSUME MediaInv, NEW class \in {"rejected", "intermediate"}, Expire(class)
  PROVE  MediaInv'
<1> DEFINE aged == {k \in Keys : rows[k] # None /\ rows[k].class = class /\ ~rows[k].due}
           With(k) == [rows[k] EXCEPT !.due = TRUE]
<1> USE DEF MediaInv, upkeepVars
<1>1. /\ Over /\ rows' = [k \in Keys |-> IF k \in aged THEN With(k) ELSE rows[k]]
      /\ UNCHANGED <<storage, jobVars, objects, purge, cut, copy, stage>>
  BY DEF Expire
<1>2. /\ UpkeepAfterJob' /\ VerdictOnDemo' /\ NoClipYet' /\ PendingWrites' /\ LedgerIsStored'
      /\ pc = "over"
  BY <1>1, JobIsOver
<1>3. rows \in [Keys -> ArtifactRows \cup {None}] /\ None \notin ArtifactRows
  BY MediaAssumption DEF MediaTypeOK
<1>4. ASSUME NEW k \in Keys, rows[k] # None
      PROVE  /\ With(k) \in ArtifactRows /\ With(k).due
             /\ With(k).at = rows[k].at /\ With(k).sha = rows[k].sha
             /\ With(k).class = rows[k].class
  <2>1. rows[k] \in ArtifactRows
    BY <1>3, <1>4
  <2> QED
    BY <2>1 DEF ArtifactRows
<1>5. \A k \in aged : k \in Keys /\ rows[k] # None /\ rows[k].class # "keep"
  OBVIOUS
<1> HIDE DEF With, aged
<1>6. rows' \in [Keys -> ArtifactRows \cup {None}]
  BY <1>1, <1>3, <1>4, <1>5
<1>7. ASSUME NEW k \in Keys
      PROVE  /\ rows'[k] = None <=> rows[k] = None
             /\ rows[k] # None =>
                  /\ rows'[k].at = rows[k].at /\ rows'[k].sha = rows[k].sha
                  /\ rows[k].class = "keep" => rows'[k] = rows[k]
                  /\ rows[k].due => rows'[k].due
  BY <1>1, <1>3, <1>4, <1>5
<1>8. MediaTypeOK'
  BY <1>1, <1>6 DEF MediaTypeOK, jobVars
<1>9. DemoIsStored'
  <2>1. n \in Takes /\ pointer \in [Takes -> Pointers \cup {None}]
    BY DEF MediaTypeOK
  <2>2. pointer[n] # None => pointer[n].key \in Keys
    BY <2>1 DEF Pointers
  <2> QED
    BY <1>1, <1>2, <1>7, <2>2 DEF DemoIsStored, StoredAs, jobVars
<1>10. RowsHaveBytes'
  BY <1>1, <1>3, <1>4, <1>5 DEF RowsHaveBytes
<1>11. PurgeOnlyExpired'
  <2>1. \A i \in DOMAIN purge : purge[i].key \in Keys
    BY ListHeadAndTail DEF MediaTypeOK
  <2> QED
    BY <1>1, <1>7, <2>1 DEF PurgeOnlyExpired
<1>12. CopyIsCurrent'
  <2>1. /\ \A i \in DOMAIN copy : copy[i].key \in Keys
        /\ copy # << >> => Head(copy).key \in Keys
    BY ListHeadAndTail DEF MediaTypeOK
  <2>2. \A k \in Keys : rows'[k] # None /\ ~rows'[k].due => rows[k] # None /\ ~rows[k].due
    BY <1>7
  <2> QED
    BY <1>1, <1>7, <2>1, <2>2 DEF CopyIsCurrent
<1> QED
  BY <1>2, <1>8, <1>9, <1>10, <1>11, <1>12

\* The two queries: the lists hold rows as they are, the purge's only expired ones.
LEMMA ListingsKeepInv ==
  ASSUME MediaInv, StartPurge \/ StartCopy
  PROVE  MediaInv'
<1> USE DEF MediaInv, storeVars
<1>1. /\ Over /\ UNCHANGED <<storage, jobVars, rows, objects, cut>> /\ stage' \in {stage, "get"}
      /\ \/ purge' = Listed(Expired) /\ copy' = copy /\ stage' = stage
         \/ copy' = Listed(Movable) /\ purge' = purge /\ stage' = "get"
  BY UpkeepIsAfter DEF StartPurge, StartCopy
<1>2. /\ UpkeepAfterJob' /\ VerdictOnDemo' /\ NoClipYet' /\ PendingWrites' /\ LedgerIsStored'
  BY <1>1, JobIsOver
<1>3. /\ Listed(Expired) \in Seq(ListedRows)
      /\ \A i \in DOMAIN Listed(Expired) : Listed(Expired)[i].key \in Expired
  BY ListedAre DEF Expired
<1>4. /\ Listed(Movable) \in Seq(ListedRows)
      /\ \A i \in DOMAIN Listed(Movable) :
           Listed(Movable)[i].sha = rows[Listed(Movable)[i].key].sha
  BY ListedAre DEF Movable
<1>5. MediaTypeOK'
  <2>1. purge' \in Seq(ListedRows) /\ copy' \in Seq(ListedRows) /\ stage' \in {"get", "verify", "switch"}
    BY <1>1, <1>3, <1>4 DEF MediaTypeOK
  <2> QED
    BY <1>1, <2>1 DEF MediaTypeOK, jobVars
<1>6. DemoIsStored' /\ RowsHaveBytes'
  BY <1>1 DEF DemoIsStored, StoredAs, RowsHaveBytes, jobVars
<1>7. PurgeOnlyExpired'
  BY <1>1, <1>3 DEF PurgeOnlyExpired, Expired
<1>8. CopyIsCurrent'
  BY <1>1, <1>4 DEF CopyIsCurrent
<1> QED
  BY <1>2, <1>5, <1>6, <1>7, <1>8

\* The purge deletes the bytes of an expired row, and of no other.
LEMMA PurgeBytesKeepsInv ==
  ASSUME MediaInv, PurgeBytes
  PROVE  MediaInv'
<1> DEFINE a == Head(purge)
<1> USE DEF MediaInv
<1>1. /\ Over /\ purge # << >> /\ objects' = [objects EXCEPT ![a.from][a.key] = None] /\ cut' = TRUE
      /\ UNCHANGED <<storage, jobVars, rows, purge, copy, stage>>
  BY UpkeepIsAfter DEF PurgeBytes
<1>2. /\ UpkeepAfterJob' /\ VerdictOnDemo' /\ NoClipYet' /\ PendingWrites' /\ LedgerIsStored'
      /\ pc = "over"
  BY <1>1, JobIsOver
<1>3. a.key \in Keys /\ a.from \in Backends /\ 1 \in DOMAIN purge /\ a = purge[1]
  BY <1>1, ListHeadAndTail DEF MediaTypeOK
<1>4. rows[a.key] # None => rows[a.key].due
  BY <1>3 DEF PurgeOnlyExpired
<1>5. /\ objects \in [Backends -> [Keys -> Takes \cup {Video, None}]]
      /\ rows \in [Keys -> ArtifactRows \cup {None}]
      /\ n \in Takes /\ pointer \in [Takes -> Pointers \cup {None}]
  BY DEF MediaTypeOK
<1> HIDE DEF a
<1>6. /\ objects' \in [Backends -> [Keys -> Takes \cup {Video, None}]]
      /\ \A b \in Backends, k \in Keys :
           rows[k] # None /\ ~rows[k].due => objects'[b][k] = objects[b][k]
  BY <1>1, <1>3, <1>4, <1>5
<1>7. MediaTypeOK'
  BY <1>1, <1>6 DEF MediaTypeOK, jobVars
<1>8. \A k \in Keys : rows[k] # None => rows[k].at \in Backends
  BY <1>5 DEF ArtifactRows
<1>9. DemoIsStored'
  <2>1. pointer[n] # None => pointer[n].key \in Keys /\ pointer[n].at \in Backends
    BY <1>5 DEF Pointers
  <2> QED
    BY <1>1, <1>2, <1>6, <1>8, <2>1 DEF DemoIsStored, StoredAs, jobVars
<1>10. RowsHaveBytes'
  BY <1>1, <1>6, <1>8 DEF RowsHaveBytes
<1>11. PurgeOnlyExpired'
  BY <1>1 DEF PurgeOnlyExpired
<1>12. CopyIsCurrent'
  <2>1. copy # << >> => Head(copy).key \in Keys
    BY ListHeadAndTail DEF MediaTypeOK
  <2> QED
    BY <1>1, <1>6, <2>1 DEF CopyIsCurrent, Backends
<1> QED
  BY <1>2, <1>7, <1>9, <1>10, <1>11, <1>12

\* Then its row; or it stops and leaves the rest to the next purge.
LEMMA PurgeRowKeepsInv ==
  ASSUME MediaInv, PurgeRow \/ CrashPurge
  PROVE  MediaInv'
<1> USE DEF MediaInv, storeVars
<1>1. /\ Over /\ purge # << >> /\ cut' = FALSE
      /\ UNCHANGED <<storage, jobVars, objects, copy, stage>>
      /\ \/ rows' = [rows EXCEPT ![Head(purge).key] = None] /\ purge' = Tail(purge)
         \/ rows' = rows /\ purge' = << >>
  BY UpkeepIsAfter DEF PurgeRow, CrashPurge
<1>2. /\ UpkeepAfterJob' /\ VerdictOnDemo' /\ NoClipYet' /\ PendingWrites' /\ LedgerIsStored'
      /\ pc = "over"
  BY <1>1, JobIsOver
<1>3. /\ Head(purge).key \in Keys /\ 1 \in DOMAIN purge /\ Head(purge) = purge[1]
      /\ Tail(purge) \in Seq(ListedRows)
      /\ \A i \in DOMAIN Tail(purge) : \E j \in DOMAIN purge : Tail(purge)[i] = purge[j]
  BY <1>1, ListHeadAndTail DEF MediaTypeOK
<1>4. /\ rows \in [Keys -> ArtifactRows \cup {None}]
      /\ n \in Takes /\ pointer \in [Takes -> Pointers \cup {None}]
  BY DEF MediaTypeOK
<1>5. /\ rows' \in [Keys -> ArtifactRows \cup {None}]
      /\ \A k \in Keys : rows'[k] \in {rows[k], None}
      /\ \A k \in Keys : rows[k] # None /\ ~rows[k].due => rows'[k] = rows[k]
  <2>1. rows[Head(purge).key] # None => rows[Head(purge).key].due
    BY <1>3 DEF PurgeOnlyExpired
  <2> QED
    BY <1>1, <1>3, <1>4, <2>1
<1>6. MediaTypeOK'
  <2>1. << >> \in Seq(ListedRows)
    OBVIOUS
  <2>2. purge' \in Seq(ListedRows)
    BY <1>1, <1>3, <2>1
  <2> QED
    BY <1>1, <1>5, <2>2 DEF MediaTypeOK, jobVars
<1>7. DemoIsStored'
  <2>1. pointer[n] # None => pointer[n].key \in Keys
    BY <1>4 DEF Pointers
  <2> QED
    BY <1>1, <1>2, <1>5, <2>1 DEF DemoIsStored, StoredAs, jobVars
<1>8. RowsHaveBytes'
  BY <1>1, <1>5 DEF RowsHaveBytes
<1>9. PurgeOnlyExpired'
  <2>1. \A i \in DOMAIN purge' : \E j \in DOMAIN purge : purge'[i] = purge[j]
    BY <1>1, <1>3
  <2>2. \A j \in DOMAIN purge : purge[j].key \in Keys
    BY ListHeadAndTail DEF MediaTypeOK
  <2> QED
    BY <1>5, <2>1, <2>2 DEF PurgeOnlyExpired
<1>10. CopyIsCurrent'
  <2>1. /\ \A i \in DOMAIN copy : copy[i].key \in Keys
        /\ copy # << >> => Head(copy).key \in Keys
    BY ListHeadAndTail DEF MediaTypeOK
  <2> QED
    BY <1>1, <1>5, <2>1 DEF CopyIsCurrent
<1> QED
  BY <1>2, <1>6, <1>7, <1>8, <1>9, <1>10

\* The deployment is reconfigured.
LEMMA CutoverKeepsInv ==
  ASSUME MediaInv, Cutover
  PROVE  MediaInv'
<1> USE DEF MediaInv, jobVars, storeVars, upkeepVars
<1>1. /\ storage' \in {"dual", "s3"}
      /\ UNCHANGED <<mine, pc, n, pointer, verdict, writing, half, done, rows, objects, purge, cut,
                     copy, stage>>
  BY DEF Cutover
<1>2. MediaTypeOK'
  BY <1>1 DEF MediaTypeOK
<1>3. UpkeepAfterJob' /\ VerdictOnDemo' /\ NoClipYet'
  BY <1>1 DEF UpkeepAfterJob, VerdictOnDemo, NoClipYet, Over
<1>4. PendingWrites'
  BY <1>1 DEF PendingWrites, WriteIsDue
<1>5. LedgerIsStored' /\ DemoIsStored'
  BY <1>1 DEF LedgerIsStored, DemoIsStored, StoredAs, Over
<1>6. RowsHaveBytes' /\ PurgeOnlyExpired' /\ CopyIsCurrent'
  BY <1>1 DEF RowsHaveBytes, PurgeOnlyExpired, CopyIsCurrent
<1> QED
  BY <1>2, <1>3, <1>4, <1>5, <1>6

\* The migration writes to S3 the bytes that the row names, or that nothing names any more.
LEMMA CopyObjectKeepsInv ==
  ASSUME MediaInv, CopyObject, stage' = "verify"
  PROVE  MediaInv'
<1> DEFINE a == Head(copy)
<1> USE DEF MediaInv
<1>1. /\ Over /\ copy # << >> /\ stage = "get"
      /\ objects' = [objects EXCEPT !["s3"][a.key] = a.sha]
      /\ UNCHANGED <<storage, jobVars, rows, purge, cut, copy>>
  BY UpkeepIsAfter DEF CopyObject, Stop
<1>2. /\ UpkeepAfterJob' /\ VerdictOnDemo' /\ NoClipYet' /\ PendingWrites' /\ LedgerIsStored'
      /\ pc = "over"
  BY <1>1, JobIsOver
<1>3. /\ a.key \in Keys /\ a.sha \in Takes \cup {Video} /\ 1 \in DOMAIN copy /\ a = copy[1]
      /\ "s3" \in Backends
  BY <1>1, ListHeadAndTail DEF MediaTypeOK, Backends
<1>4. rows[a.key] # None => rows[a.key].sha = a.sha
  BY <1>3 DEF CopyIsCurrent
<1>5. /\ objects \in [Backends -> [Keys -> Takes \cup {Video, None}]]
      /\ rows \in [Keys -> ArtifactRows \cup {None}]
      /\ n \in Takes /\ pointer \in [Takes -> Pointers \cup {None}]
  BY DEF MediaTypeOK
<1> HIDE DEF a
<1>6. /\ objects' \in [Backends -> [Keys -> Takes \cup {Video, None}]]
      /\ objects'["s3"][a.key] = a.sha
      /\ \A b \in Backends, k \in Keys :
           objects'[b][k] = objects[b][k] \/ (k = a.key /\ objects'[b][k] = a.sha)
  BY <1>1, <1>3, <1>5
<1>7. MediaTypeOK'
  BY <1>1, <1>6 DEF MediaTypeOK, jobVars
<1>8. \A k \in Keys : rows[k] # None => rows[k].at \in Backends
  BY <1>5 DEF ArtifactRows
<1>9. DemoIsStored'
  <2>1. ASSUME verdict = "passed", pointer[n] # None
        PROVE  StoredAs(n, pointer[n])'
    <3>1. pointer[n].key \in Keys /\ pointer[n].at \in Backends
      BY <1>5, <2>1 DEF Pointers
    <3>2. StoredAs(n, pointer[n])
      BY <2>1 DEF DemoIsStored
    <3>3. rows[pointer[n].key] # None /\ (a.key = pointer[n].key => a.sha = n)
      BY <1>4, <3>2 DEF StoredAs
    <3>4. rows[pointer[n].key].at \in Backends
      BY <1>8, <3>1, <3>3
    <3> QED
      BY <1>1, <1>6, <3>1, <3>2, <3>3, <3>4 DEF StoredAs, jobVars
  <2> QED
    BY <1>1, <1>2, <2>1 DEF DemoIsStored, jobVars
<1>10. RowsHaveBytes'
  <2>1. a.sha # None
    BY <1>3, MediaAssumption
  <2> QED
    BY <1>1, <1>6, <1>8, <2>1 DEF RowsHaveBytes
<1>11. PurgeOnlyExpired'
  BY <1>1 DEF PurgeOnlyExpired
<1>12. CopyIsCurrent'
  BY <1>1, <1>6 DEF CopyIsCurrent, a
<1> QED
  BY <1>2, <1>7, <1>9, <1>10, <1>11, <1>12

\* It stops, or finds the copy as it was sent; nothing is switched yet.
LEMMA VerifyCopyKeepsInv ==
  ASSUME MediaInv, (CopyObject /\ stage' # "verify") \/ VerifyCopy \/ CrashCopy
  PROVE  MediaInv'
<1> USE DEF MediaInv, storeVars
<1>1. /\ Over /\ UNCHANGED <<storage, jobVars, rows, objects, purge, cut>>
      /\ \/ copy' = << >> /\ stage' = "get"
         \/ copy' = copy /\ stage = "verify" /\ stage' = "switch"
  BY UpkeepIsAfter DEF CopyObject, VerifyCopy, CrashCopy, Stop
<1>2. UpkeepAfterJob' /\ VerdictOnDemo' /\ NoClipYet' /\ PendingWrites' /\ LedgerIsStored'
  BY <1>1, JobIsOver
<1>3. MediaTypeOK'
  <2>1. << >> \in Seq(ListedRows)
    OBVIOUS
  <2>2. copy' \in Seq(ListedRows) /\ stage' \in {"get", "verify", "switch"}
    BY <1>1, <2>1 DEF MediaTypeOK
  <2> QED
    BY <1>1, <2>2 DEF MediaTypeOK, jobVars
<1>4. DemoIsStored' /\ RowsHaveBytes' /\ PurgeOnlyExpired'
  BY <1>1 DEF DemoIsStored, StoredAs, RowsHaveBytes, PurgeOnlyExpired, jobVars
<1>5. CopyIsCurrent'
  BY <1>1 DEF CopyIsCurrent
<1> QED
  BY <1>2, <1>3, <1>4, <1>5

\* A row is switched to the bytes that were verified; if it has expired since, whether
\* they are still there does not matter.
LEMMA SwitchBackendKeepsInv ==
  ASSUME MediaInv, SwitchBackend
  PROVE  MediaInv'
<1> DEFINE a == Head(copy)
           Moved == [rows[a.key] EXCEPT !.at = "s3"]
<1> USE DEF MediaInv
<1>1. /\ Over /\ copy # << >> /\ stage = "switch" /\ stage' = "get" /\ copy' = Tail(copy)
      /\ rows' = IF rows[a.key] = None THEN rows ELSE [rows EXCEPT ![a.key].at = "s3"]
      /\ UNCHANGED <<storage, jobVars, objects, purge, cut>>
  BY UpkeepIsAfter DEF SwitchBackend
<1>2. /\ UpkeepAfterJob' /\ VerdictOnDemo' /\ NoClipYet' /\ PendingWrites' /\ LedgerIsStored'
      /\ pc = "over"
  BY <1>1, JobIsOver
<1>3. /\ a.key \in Keys /\ a.sha \in Takes \cup {Video} /\ 1 \in DOMAIN copy /\ a = copy[1]
      /\ Tail(copy) \in Seq(ListedRows)
      /\ \A i \in DOMAIN Tail(copy) : \E j \in DOMAIN copy : Tail(copy)[i] = copy[j]
      /\ "s3" \in Backends
  BY <1>1, ListHeadAndTail DEF MediaTypeOK, Backends
<1>4. /\ rows[a.key] # None => rows[a.key].sha = a.sha
      /\ rows[a.key] # None /\ ~rows[a.key].due => objects["s3"][a.key] = a.sha
  BY <1>1, <1>3 DEF CopyIsCurrent
<1>5. /\ rows \in [Keys -> ArtifactRows \cup {None}] /\ None \notin ArtifactRows
      /\ n \in Takes /\ pointer \in [Takes -> Pointers \cup {None}]
  BY MediaAssumption DEF MediaTypeOK
<1>6. rows[a.key] # None =>
        /\ Moved \in ArtifactRows /\ Moved.at = "s3" /\ Moved.sha = rows[a.key].sha
        /\ Moved.due = rows[a.key].due /\ Moved.class = rows[a.key].class
  <2>1. rows[a.key] # None => rows[a.key] \in ArtifactRows
    BY <1>3, <1>5
  <2> QED
    BY <1>3, <2>1 DEF ArtifactRows
<1>7. rows' = IF rows[a.key] = None THEN rows ELSE [rows EXCEPT ![a.key] = Moved]
  BY <1>1
<1> HIDE DEF a, Moved
<1>8. rows' \in [Keys -> ArtifactRows \cup {None}]
  BY <1>3, <1>5, <1>6, <1>7
<1>9. ASSUME NEW k \in Keys
      PROVE  /\ rows'[k] = None <=> rows[k] = None
             /\ rows[k] # None =>
                  /\ rows'[k].sha = rows[k].sha /\ rows'[k].due = rows[k].due
                  /\ rows'[k].class = rows[k].class
                  /\ rows'[k].at = rows[k].at \/ (k = a.key /\ rows'[k].at = "s3")
  BY <1>3, <1>5, <1>6, <1>7
<1>10. MediaTypeOK'
  BY <1>1, <1>3, <1>8 DEF MediaTypeOK, jobVars
<1>11. DemoIsStored'
  <2>1. ASSUME verdict = "passed", pointer[n] # None
        PROVE  /\ pointer[n].key \in {DurableKey(n), ItemKey(n)} /\ StoredAs(n, pointer[n])'
               /\ rows'[pointer[n].key].class = "keep" /\ ~rows'[pointer[n].key].due
    <3>1. pointer[n].key \in Keys
      BY <1>5, <2>1 DEF Pointers
    <3>2. /\ pointer[n].key \in {DurableKey(n), ItemKey(n)} /\ StoredAs(n, pointer[n])
          /\ rows[pointer[n].key].class = "keep" /\ ~rows[pointer[n].key].due
      BY <2>1 DEF DemoIsStored
    <3>3. rows[pointer[n].key] # None /\ rows[pointer[n].key].sha = n
      BY <3>2 DEF StoredAs
    <3>4. pointer[n].key = a.key => objects["s3"][a.key] = n
      BY <1>4, <3>2, <3>3
    <3> QED
      BY <1>1, <1>9, <3>1, <3>2, <3>3, <3>4 DEF StoredAs, jobVars
  <2> QED
    BY <1>1, <1>2, <2>1 DEF DemoIsStored, jobVars
<1>12. RowsHaveBytes'
  <2>1. a.sha # None
    BY <1>3, MediaAssumption
  <2>2. ASSUME NEW k \in Keys, rows'[k] # None, ~rows'[k].due
        PROVE  objects[rows'[k].at][k] # None
    BY <1>4, <1>9, <2>1, <2>2 DEF RowsHaveBytes
  <2> QED
    BY <1>1, <2>2 DEF RowsHaveBytes
<1>13. PurgeOnlyExpired'
  <2>1. \A i \in DOMAIN purge : purge[i].key \in Keys
    BY ListHeadAndTail DEF MediaTypeOK
  <2> QED
    BY <1>1, <1>9, <2>1 DEF PurgeOnlyExpired
<1>14. CopyIsCurrent'
  <2>1. \A j \in DOMAIN copy : copy[j].key \in Keys
    BY ListHeadAndTail DEF MediaTypeOK
  <2>2. \A i \in DOMAIN copy' : \E j \in DOMAIN copy : copy'[i] = copy[j]
    BY <1>1, <1>3
  <2> QED
    BY <1>1, <1>9, <2>1, <2>2 DEF CopyIsCurrent
<1> QED
  BY <1>2, <1>10, <1>11, <1>12, <1>13, <1>14

\* A step that changes nothing.
LEMMA MediaStutterKeepsInv ==
  ASSUME MediaInv, UNCHANGED mediaVars
  PROVE  MediaInv'
<1> USE DEF MediaInv, mediaVars, jobVars, storeVars, upkeepVars
<1>1. MediaTypeOK' /\ VerdictOnDemo' /\ NoClipYet'
  BY DEF MediaTypeOK, VerdictOnDemo, NoClipYet
<1>2. UpkeepAfterJob' /\ LedgerIsStored' /\ DemoIsStored'
  BY DEF UpkeepAfterJob, LedgerIsStored, DemoIsStored, StoredAs, Over
<1>3. PendingWrites'
  BY DEF PendingWrites, WriteIsDue
<1>4. RowsHaveBytes' /\ PurgeOnlyExpired' /\ CopyIsCurrent'
  BY DEF RowsHaveBytes, PurgeOnlyExpired, CopyIsCurrent
<1> QED
  BY <1>1, <1>2, <1>3, <1>4

-------------------------------------------------------------------------------
(* The theorems.                                                           *)

\* The inductive invariant of the media store: a write replaces no clip that is counted on,
\* bytes go only after their row has expired, and a row is switched only to bytes that are
\* there.
THEOREM MediaInvariant == MediaSpec => []MediaInv
<1>1. MediaInv /\ [MediaNext]_mediaVars => MediaInv'
  <2> SUFFICES ASSUME MediaInv, [MediaNext]_mediaVars PROVE MediaInv'
    OBVIOUS
  <2>1. CASE Generate \/ ClipFails
    BY <2>1, GenerateKeepsInv, ClipFailsKeepsInv
  <2>2. CASE PutBytes \/ RecordRow
    BY <2>2, PutBytesKeepsInv, RecordRowKeepsInv
  <2>3. CASE PersistItem \/ Qc
    BY <2>3, PersistItemKeepsInv, QcKeepsInv
  <2>4. CASE Assemble \/ Upscale
    BY <2>4, LastNodesKeepInv
  <2>5. CASE CrashJob
    BY <2>5, CrashJobKeepsInv
  <2>6. ASSUME NEW class \in {"rejected", "intermediate"}, Expire(class)
        PROVE  MediaInv'
    BY <2>6, ExpireKeepsInv
  <2>7. CASE StartPurge \/ StartCopy
    BY <2>7, ListingsKeepInv
  <2>8. CASE PurgeBytes \/ PurgeRow \/ CrashPurge
    BY <2>8, PurgeBytesKeepsInv, PurgeRowKeepsInv
  <2>9. CASE Cutover \/ SwitchBackend
    BY <2>9, CutoverKeepsInv, SwitchBackendKeepsInv
  <2>10. CASE CopyObject \/ VerifyCopy \/ CrashCopy
    BY <2>10, CopyObjectKeepsInv, VerifyCopyKeepsInv
  <2>11. CASE UNCHANGED mediaVars
    BY <2>11, MediaStutterKeepsInv
  <2> QED
    BY <2>1, <2>2, <2>3, <2>4, <2>5, <2>6, <2>7, <2>8, <2>9, <2>10, <2>11
    DEF MediaNext, JobStep, PurgeStep
<1> QED
  BY <1>1, MediaInvInit, PTL DEF MediaSpec

\* What has not expired can be read, and the approved take is kept under its row and its uri,
\* whichever of the job, the purge and the migration died between two calls.
THEOREM MediaIsReadableHolds == MediaSpec => []MediaIsReadable
<1>1. MediaInv => MediaIsReadable
  <2> SUFFICES ASSUME MediaInv PROVE MediaIsReadable
    OBVIOUS
  <2>1. \A k \in Missing : rows[k].due
    BY DEF MediaInv, RowsHaveBytes, Missing
  <2>2. ASSUME verdict = "passed", pointer[n] # None
        PROVE  LET k == pointer[n].key IN
               /\ rows[k] # None /\ rows[k].class = "keep"
               /\ objects[rows[k].at][k] = n
               /\ objects[pointer[n].at][k] = n
    BY <2>2 DEF MediaInv, DemoIsStored, StoredAs
  <2> QED
    BY <2>1, <2>2 DEF MediaIsReadable
<1> QED
  BY <1>1, MediaInvariant, PTL

===============================================================================
