---------------------------- MODULE RequestProofs ----------------------------
(***************************************************************************)
(* The handler of a change request, for any keys, lifetimes and cache      *)
(* size, and any configurations and requests: how long a withdrawn key can *)
(* still be accepted, that a rotation is followed, that a change deploys   *)
(* only what a role grants it and all that it selects, and that a          *)
(* prediction errs towards more.  And the event stream it may answer with, *)
(* for any number of events: they arrive in the order they happened.       *)
(***************************************************************************)
EXTENDS ChangeRequest, EventStream, SequenceTheorems, FiniteSetTheorems,
        WellFoundedInduction, TLAPS

(***************************************************************************)
(* ChangeRequest                                                           *)
(***************************************************************************)

Entry == [key : Key, age : 0..KeyTTL]
KeySet == [keys : SUBSET Key, age : 0..(SetLifespan + 1)]

\* A key is published, or was so until n ticks ago.
Recent(k, n) == k \in published \/ (k \in withdrawn /\ since[k] <= n)

UnagedUntilWithdrawn == \A k \in Key \ withdrawn : since[k] = 0

IdsDiffer == \A k, l \in published : SameId(k, l) => k = l

\* The keys of a set that is still used were published as it was fetched.
RecentSet(set) ==
  /\ set \in KeySet
  /\ set.age <= SetLifespan => \A k \in set.keys : Recent(k, set.age)

\* An entry that is still used was taken from such a set.
RecentEntry(e) == e.age < KeyTTL => Recent(e.key, e.age + SetLifespan)

RecentCache(s) ==
  /\ s \in Seq(Entry)
  /\ Len(s) <= CacheSize
  /\ \A n \in DOMAIN s : RecentEntry(s[n])

KeysInvariant ==
  /\ published \subseteq Key
  /\ withdrawn \subseteq Key \ published
  /\ since \in [Key -> 0..Horizon]
  /\ UnagedUntilWithdrawn
  /\ IdsDiffer
  /\ keySet \in [Issuer -> KeySet]
  /\ \A i \in Issuer : RecentSet(keySet[i])
  /\ RecentCache(cache)

-----------------------------------------------------------------------------
(* The keys *)

LEMMA HorizonIsNatural ==
  /\ Horizon \in Nat
  /\ SetLifespan + 1 <= Horizon
BY KeysAssumption DEF Horizon

\* Removing an element leaves no others than there were.
LEMMA RemovedIsShorter ==
  ASSUME NEW S, NEW s \in Seq(S), NEW n \in DOMAIN s
  PROVE  /\ RemoveAt(s, n) \in Seq(S)
         /\ Len(RemoveAt(s, n)) = Len(s) - 1
         /\ \A m \in DOMAIN RemoveAt(s, n) :
              \E l \in DOMAIN s : RemoveAt(s, n)[m] = s[l]
<1> DEFINE before == SubSeq(s, 1, n - 1)
           behind == SubSeq(s, n + 1, Len(s))
           removed == RemoveAt(s, n)
<1>1. n \in 1..Len(s) /\ Len(s) \in Nat
  OBVIOUS
<1>2. /\ before \in Seq(S) /\ Len(before) = n - 1
      /\ \A m \in 1..(n - 1) : before[m] = s[m]
  BY <1>1
<1>3. /\ behind \in Seq(S) /\ Len(behind) = Len(s) - n
      /\ \A m \in 1..(Len(s) - n) : behind[m] = s[n + m]
  BY <1>1
<1>4. removed = before \o behind
  BY DEF RemoveAt
<1> HIDE DEF before, behind, removed
<1>5. /\ removed \in Seq(S)
      /\ Len(removed) = Len(before) + Len(behind)
      /\ \A m \in 1..(Len(before) + Len(behind)) :
           removed[m] = IF m <= Len(before) THEN before[m]
                                            ELSE behind[m - Len(before)]
  BY <1>2, <1>3, <1>4, ConcatProperties, Zenon
<1>6. /\ Len(removed) = Len(s) - 1
      /\ \A m \in 1..(Len(s) - 1) :
           removed[m] = IF m <= n - 1 THEN before[m] ELSE behind[m - (n - 1)]
  <2>1. Len(before) + Len(behind) = Len(s) - 1
    BY <1>1, <1>2, <1>3
  <2> QED
    BY <1>2, <1>5, <2>1
<1>7. ASSUME NEW m \in 1..(Len(s) - 1)
      PROVE  \E l \in 1..Len(s) : removed[m] = s[l]
  <2>1. CASE m <= n - 1
    <3>1. removed[m] = before[m] /\ m \in 1..(n - 1) /\ m \in 1..Len(s)
      BY <1>1, <1>6, <2>1
    <3> QED
      BY <1>2, <3>1
  <2>2. CASE ~(m <= n - 1)
    <3>1. removed[m] = behind[m - (n - 1)]
      BY <1>6, <2>2
    <3>2. m - (n - 1) \in 1..(Len(s) - n) /\ n + (m - (n - 1)) \in 1..Len(s)
      BY <1>1, <2>2
    <3> QED
      BY <1>3, <3>1, <3>2
  <2> QED
    BY <2>1, <2>2
<1>8. \A m \in DOMAIN removed : \E l \in DOMAIN s : removed[m] = s[l]
  <2>1. DOMAIN removed = 1..(Len(s) - 1) /\ DOMAIN s = 1..Len(s)
    BY <1>5, <1>6
  <2> QED
    BY <1>7, <2>1
<1> QED
  BY <1>5, <1>6, <1>8 DEF removed

\* What the cache is left with when an entry is taken from it.
LEMMA OthersAreOfCache ==
  ASSUME cache \in Seq(Entry), Len(cache) <= CacheSize, NEW k
  PROVE  /\ Others(k) \in Seq(Entry)
         /\ Len(Others(k)) <= CacheSize
         /\ Places(k) # {} => Len(Others(k)) < CacheSize
         /\ \A m \in DOMAIN Others(k) :
              \E l \in DOMAIN cache : Others(k)[m] = cache[l]
<1>1. CASE Places(k) = {}
  BY <1>1 DEF Others
<1>2. CASE Places(k) # {}
  <2> DEFINE n == CHOOSE n \in Places(k) : TRUE
  <2>1. n \in DOMAIN cache
    BY <1>2 DEF Places
  <2>2. Others(k) = RemoveAt(cache, n)
    BY <1>2 DEF Others
  <2> HIDE DEF n
  <2>3. Len(cache) \in Nat /\ CacheSize \in Nat
    BY KeysAssumption
  <2> QED
    BY <2>1, <2>2, <2>3, RemovedIsShorter
<1> QED
  BY <1>1, <1>2

\* Of what the cache holds and one recent entry more a recent cache is made.
LEMMA AppendedIsRecent ==
  ASSUME RecentCache(cache), NEW k, NEW e \in Entry, RecentEntry(e)
  PROVE  /\ Append(Others(k), e) \in Seq(Entry)
         /\ Len(Append(Others(k), e)) = Len(Others(k)) + 1
         /\ \A n \in DOMAIN Append(Others(k), e) : RecentEntry(Append(Others(k), e)[n])
<1>1. /\ Others(k) \in Seq(Entry)
      /\ \A m \in DOMAIN Others(k) :
           \E l \in DOMAIN cache : Others(k)[m] = cache[l]
  BY OthersAreOfCache DEF RecentCache
<1>2. \A m \in DOMAIN Others(k) : RecentEntry(Others(k)[m])
  BY <1>1 DEF RecentCache
<1> HIDE DEF RecentEntry
<1> QED
  BY <1>1, <1>2

LEMMA OthersAreRecent ==
  ASSUME RecentCache(cache), NEW k
  PROVE  RecentCache(Others(k))
BY OthersAreOfCache DEF RecentCache

\* A hit takes the place of the entry it was.
LEMMA HitIsRecent ==
  ASSUME RecentCache(cache), NEW k, NEW e \in Entry, RecentEntry(e),
         Places(k) # {}
  PROVE  RecentCache(Append(Others(k), e))
<1>1. Others(k) \in Seq(Entry) /\ Len(Others(k)) < CacheSize
  BY OthersAreOfCache DEF RecentCache
<1> QED
  BY <1>1, AppendedIsRecent, KeysAssumption DEF RecentCache

LEMMA RememberedIsRecent ==
  ASSUME RecentCache(cache), NEW k \in Key, Recent(k, SetLifespan)
  PROVE  RecentCache(Remember(k))
<1> DEFINE e == [key |-> k, age |-> 0]
           entries == Append(Others(k), e)
<1>1. e \in Entry /\ RecentEntry(e)
  BY KeysAssumption DEF Entry, RecentEntry
<1>2. Remember(k) = IF Len(entries) > CacheSize THEN Tail(entries) ELSE entries
  BY DEF Remember
<1>3. Others(k) \in Seq(Entry) /\ Len(Others(k)) <= CacheSize
  BY OthersAreOfCache DEF RecentCache
<1> HIDE DEF e
<1>4. /\ entries \in Seq(Entry)
      /\ Len(entries) = Len(Others(k)) + 1
      /\ \A n \in DOMAIN entries : RecentEntry(entries[n])
  BY <1>1, AppendedIsRecent
<1> HIDE DEF entries
<1>5. CASE Len(entries) > CacheSize
  BY <1>2, <1>3, <1>4, <1>5, KeysAssumption DEF RecentCache
<1>6. CASE ~(Len(entries) > CacheSize)
  BY <1>2, <1>3, <1>4, <1>6, KeysAssumption DEF RecentCache
<1> QED
  BY <1>5, <1>6

\* What a lookup finds, and what it leaves the client and the cache with.
LEMMA LookupFindsRecent ==
  ASSUME KeysInvariant, NEW k \in Key, NEW result \in Lookups(k)
  PROVE  /\ RecentCache(result.cache)
         /\ RecentSet(result.keySet)
         /\ \A l \in result.found :
              /\ SameId(l, k)
              /\ l \in published \/ (l \in withdrawn /\ since[l] < Horizon)
         /\ result.found = {} /\ k \in published => result.keySet = NoSet
<1>1. IssuerOf[k] \in Issuer
  BY KeysAssumption
<1>2. RecentSet(keySet[IssuerOf[k]]) /\ keySet[IssuerOf[k]] \in KeySet
  BY <1>1 DEF KeysInvariant
<1>3. CASE result \in Hits(k)
  <2>1. PICK n \in Places(k) :
          /\ cache[n].age < KeyTTL
          /\ result = [found |-> {cache[n].key},
                       cache |-> Append(Others(k), cache[n]),
                       keySet |-> keySet[IssuerOf[k]]]
    BY <1>3 DEF Hits, Fresh, HitEntry
  <2>2. cache[n] \in Entry /\ RecentEntry(cache[n]) /\ SameId(cache[n].key, k)
    BY DEF Places, SameEntry, KeysInvariant, RecentCache
  <2>3. Recent(cache[n].key, cache[n].age + SetLifespan)
    BY <2>1, <2>2 DEF RecentEntry
  <2>4. cache[n].age + SetLifespan < Horizon
    BY <2>1, <2>2, KeysAssumption DEF Entry, Horizon
  <2>5. \A l \in withdrawn : since[l] \in Nat
    BY HorizonIsNatural DEF KeysInvariant
  <2>6. \/ cache[n].key \in published
        \/ (cache[n].key \in withdrawn /\ since[cache[n].key] < Horizon)
    BY <2>2, <2>3, <2>4, <2>5, HorizonIsNatural, KeysAssumption DEF Recent, Entry
  <2>7. RecentCache(Append(Others(k), cache[n]))
    BY <2>2, HitIsRecent DEF KeysInvariant
  <2> QED
    BY <1>2, <2>1, <2>2, <2>6, <2>7
<1>4. CASE result \in FromSet(k) /\ InSet(k) # {}
  <2>1. PICK l \in InSet(k) :
          result = [found |-> {l}, cache |-> Remember(l),
                    keySet |-> keySet[IssuerOf[k]]]
    BY <1>4 DEF FromSet
  <2>2. /\ keySet[IssuerOf[k]].age <= SetLifespan
        /\ l \in keySet[IssuerOf[k]].keys
        /\ SameId(k, l)
        /\ l \in Key
    BY <1>2, <2>1, KeysAssumption DEF InSet, WithId, KeySet
  <2>3. Recent(l, keySet[IssuerOf[k]].age)
    BY <1>2, <2>2 DEF RecentSet
  <2>4. Recent(l, SetLifespan)
    BY <1>2, <2>2, <2>3, HorizonIsNatural, KeysAssumption
      DEF Recent, KeysInvariant, KeySet
  <2>5. l \in published \/ (l \in withdrawn /\ since[l] < Horizon)
    BY <2>2, <2>4, HorizonIsNatural, KeysAssumption DEF Recent, KeysInvariant
  <2>6. RecentCache(Remember(l))
    BY <2>2, <2>4, RememberedIsRecent DEF KeysInvariant
  <2> QED
    BY <1>2, <2>1, <2>2, <2>5, <2>6 DEF SameId
<1>5. CASE result \in Fetch(k)
  <2> DEFINE offered == Offered(IssuerOf[k])
             found == WithId(offered, k)
  <2>1. result = [found |-> found,
                  cache |-> IF found = {} THEN Others(k)
                            ELSE Remember(CHOOSE l \in found : TRUE),
                  keySet |-> [keys |-> offered, age |-> 0]]
    BY <1>5 DEF Fetch
  <2>2. offered \subseteq published /\ offered \subseteq Key
    BY DEF Offered, KeysInvariant
  <2>3. RecentSet([keys |-> offered, age |-> 0])
    BY <2>2, KeysAssumption DEF RecentSet, KeySet, Recent
  <2>4. \A l \in found : l \in published /\ l \in Key /\ SameId(l, k)
    BY <2>2 DEF WithId, SameId
  <2>5. k \in published => k \in found
    BY DEF Offered, WithId, SameId
  <2>6. RecentCache(result.cache)
    <3>1. CASE found = {}
      BY <2>1, <3>1, OthersAreRecent DEF KeysInvariant
    <3>2. CASE found # {}
      <4>1. (CHOOSE l \in found : TRUE) \in found
        BY <3>2
      <4> QED
        BY <2>1, <2>4, <3>2, <4>1, RememberedIsRecent DEF KeysInvariant, Recent
    <3> QED
      BY <3>1, <3>2
  <2> HIDE DEF offered, found
  <2> QED
    BY <2>1, <2>3, <2>4, <2>5, <2>6
<1>6. CASE result \in FetchFails(k)
  <2>1. result = [found |-> {}, cache |-> Others(k), keySet |-> NoSet]
    BY <1>6 DEF FetchFails
  <2>2. RecentSet(NoSet)
    BY KeysAssumption DEF RecentSet, NoSet, KeySet
  <2> QED
    BY <2>1, <2>2, OthersAreRecent DEF KeysInvariant
<1> QED
  BY <1>3, <1>4, <1>5, <1>6 DEF Lookups

LEMMA LookupKeepsKeys ==
  ASSUME KeysInvariant, NEW k \in Key, NEW result \in Lookups(k),
         Lookup(k, result)
  PROVE  KeysInvariant'
<1>1. /\ RecentCache(result.cache) /\ RecentSet(result.keySet)
  BY LookupFindsRecent
<1>2. /\ UNCHANGED <<published, withdrawn, since>>
      /\ cache' = result.cache
      /\ keySet' = [keySet EXCEPT ![IssuerOf[k]] = result.keySet]
  BY DEF Lookup
<1>3. RecentCache(cache)'
  BY <1>1, <1>2 DEF RecentCache, RecentEntry, Recent
<1>4. \A set : RecentSet(set) => RecentSet(set)'
  BY <1>2 DEF RecentSet, Recent
<1>5. keySet' \in [Issuer -> KeySet]
  BY <1>1, <1>2 DEF RecentSet, KeysInvariant
<1>6. \A i \in Issuer : RecentSet(keySet[i])'
  BY <1>1, <1>2, <1>4 DEF KeysInvariant
<1>7. /\ (published \subseteq Key)' /\ (withdrawn \subseteq Key \ published)'
      /\ (since \in [Key -> 0..Horizon])'
      /\ UnagedUntilWithdrawn' /\ IdsDiffer'
  BY <1>2 DEF KeysInvariant, UnagedUntilWithdrawn, IdsDiffer
<1> QED
  BY <1>3, <1>5, <1>6, <1>7 DEF KeysInvariant

\* A key that stops being published has just stopped.
LEMMA WithdrawingKeepsKeys ==
  ASSUME KeysInvariant, NEW gone \in SUBSET published, NEW new \in SUBSET Key,
         new \intersect (published \union withdrawn) = {},
         published' = (published \ gone) \union new,
         withdrawn' = withdrawn \union gone,
         UNCHANGED <<since, keySet, cache>>,
         IdsDiffer'
  PROVE  KeysInvariant'
<1>1. \A k \in gone : since[k] = 0
  BY DEF KeysInvariant, UnagedUntilWithdrawn
<1>3. ASSUME NEW k, NEW n \in Nat, Recent(k, n)
      PROVE  Recent(k, n)'
  BY <1>1, <1>3 DEF Recent
<1>4. ASSUME NEW i \in Issuer
      PROVE  RecentSet(keySet[i])'
  <2>1. keySet[i] \in KeySet /\ keySet[i].age \in Nat
    BY KeysAssumption DEF KeysInvariant, KeySet
  <2>2. RecentSet(keySet[i])
    BY DEF KeysInvariant
  <2> QED
    BY <1>3, <2>1, <2>2 DEF RecentSet
<1>5. RecentCache(cache)'
  <2>1. \A n \in DOMAIN cache : cache[n] \in Entry
    BY DEF KeysInvariant, RecentCache
  <2>2. \A n \in DOMAIN cache : cache[n].age + SetLifespan \in Nat
    BY <2>1, KeysAssumption DEF Entry
  <2> QED
    BY <1>3, <2>2 DEF KeysInvariant, RecentCache, RecentEntry
<1>6. /\ (published \subseteq Key)' /\ (withdrawn \subseteq Key \ published)'
      /\ (since \in [Key -> 0..Horizon])' /\ UnagedUntilWithdrawn'
      /\ (keySet \in [Issuer -> KeySet])'
  BY DEF KeysInvariant, UnagedUntilWithdrawn
<1> QED
  BY <1>4, <1>5, <1>6 DEF KeysInvariant

LEMMA AgedByOne ==
  ASSUME NEW n \in Nat, NEW limit \in Nat, n <= limit
  PROVE  /\ Aged(n, limit) \in 0..limit
         /\ n <= Aged(n, limit)
         /\ Aged(n, limit) <= n + 1
         /\ n < limit => Aged(n, limit) = n + 1
BY DEF Aged

\* A key withdrawn ages no faster than the set and the entry it is in.
LEMMA TickKeepsKeys ==
  ASSUME KeysInvariant, Tick
  PROVE  KeysInvariant'
<1>1. UNCHANGED <<published, withdrawn>>
  BY DEF Tick
<1>2. \A k \in Key : since[k] \in 0..Horizon
  BY DEF KeysInvariant
<1>3. \A k \in Key : since'[k] = IF k \in withdrawn THEN Aged(since[k], Horizon)
                                                    ELSE since[k]
  BY DEF Tick
<1>4. \A k \in Key : since'[k] \in 0..Horizon /\ since'[k] <= since[k] + 1
  <2> SUFFICES ASSUME NEW k \in Key
               PROVE  since'[k] \in 0..Horizon /\ since'[k] <= since[k] + 1
    OBVIOUS
  <2>1. since[k] \in Nat /\ since[k] <= Horizon /\ Horizon \in Nat
    BY <1>2, HorizonIsNatural
  <2>2. /\ Aged(since[k], Horizon) \in 0..Horizon
        /\ Aged(since[k], Horizon) <= since[k] + 1
    BY <2>1, AgedByOne
  <2> QED
    BY <1>3, <2>1, <2>2
<1>5. since' \in [Key -> 0..Horizon]
  BY <1>4 DEF Tick
<1>6. UnagedUntilWithdrawn'
  BY <1>1, <1>3 DEF KeysInvariant, UnagedUntilWithdrawn
<1>7. ASSUME NEW k \in Key, NEW n \in Nat, Recent(k, n)
      PROVE  Recent(k, n + 1)'
  BY <1>1, <1>2, <1>4, <1>7, HorizonIsNatural DEF Recent
<1>8. ASSUME NEW i \in Issuer
      PROVE  keySet'[i] \in KeySet /\ RecentSet(keySet[i])'
  <2> DEFINE set == keySet[i]
  <2>1. /\ set \in KeySet /\ set.age \in Nat /\ set.age <= SetLifespan + 1
        /\ RecentSet(set)
    BY KeysAssumption DEF KeysInvariant, KeySet
  <2>2. /\ keySet'[i] = [set EXCEPT !.age = Aged(@, SetLifespan + 1)]
    BY DEF Tick
  <2>3. /\ keySet'[i].keys = set.keys
        /\ keySet'[i].age = Aged(set.age, SetLifespan + 1)
    BY <2>1, <2>2 DEF KeySet
  <2>4. /\ Aged(set.age, SetLifespan + 1) \in 0..(SetLifespan + 1)
        /\ set.age < SetLifespan + 1 =>
             Aged(set.age, SetLifespan + 1) = set.age + 1
    BY <2>1, AgedByOne, KeysAssumption
  <2>5. keySet'[i] \in KeySet
    BY <2>1, <2>2, <2>4 DEF KeySet
  <2>6. ASSUME keySet'[i].age <= SetLifespan, NEW k \in keySet'[i].keys
        PROVE  Recent(k, keySet[i].age)'
    <3>1. set.age < SetLifespan + 1 /\ set.age <= SetLifespan
      BY <2>1, <2>3, <2>4, <2>6, KeysAssumption DEF Aged
    <3>2. k \in Key /\ Recent(k, set.age)
      BY <2>1, <2>3, <2>6, <3>1 DEF RecentSet, KeySet
    <3> QED
      BY <1>7, <2>1, <2>3, <2>4, <3>1, <3>2
  <2> QED
    BY <2>5, <2>6 DEF RecentSet, KeySet
<1>9. keySet' \in [Issuer -> KeySet]
  BY <1>8 DEF Tick
<1>10. ASSUME NEW n \in DOMAIN cache
       PROVE  cache'[n] \in Entry /\ RecentEntry(cache[n])'
  <2> DEFINE e == cache[n]
  <2>1. e \in Entry /\ e.age \in Nat /\ e.age <= KeyTTL /\ RecentEntry(e)
    <3>1. e \in Entry /\ RecentEntry(e)
      BY DEF KeysInvariant, RecentCache
    <3> QED
      BY <3>1, KeysAssumption DEF Entry
  <2>2. cache'[n] = [e EXCEPT !.age = Aged(@, KeyTTL)]
    BY DEF Tick
  <2>3. cache'[n].key = e.key /\ cache'[n].age = Aged(e.age, KeyTTL)
    BY <2>1, <2>2 DEF Entry
  <2>4. /\ Aged(e.age, KeyTTL) \in 0..KeyTTL
        /\ e.age < KeyTTL => Aged(e.age, KeyTTL) = e.age + 1
    BY <2>1, AgedByOne, KeysAssumption
  <2>5. cache'[n] \in Entry
    BY <2>1, <2>2, <2>4 DEF Entry
  <2>6. ASSUME cache'[n].age < KeyTTL
        PROVE  Recent(cache[n].key, cache[n].age + SetLifespan)'
    <3>1. e.age < KeyTTL
      BY <2>1, <2>3, <2>4, <2>6, KeysAssumption DEF Aged
    <3>2. e.key \in Key /\ Recent(e.key, e.age + SetLifespan)
      BY <2>1, <3>1 DEF RecentEntry, Entry
    <3>3. /\ e.age + SetLifespan \in Nat
          /\ cache'[n].age + SetLifespan = e.age + SetLifespan + 1
      BY <2>1, <2>3, <2>4, <3>1, KeysAssumption
    <3> QED
      BY <1>7, <2>3, <3>2, <3>3
  <2> QED
    BY <2>5, <2>6 DEF RecentEntry
<1>11. RecentCache(cache)'
  <2>1. cache \in Seq(Entry) /\ Len(cache) <= CacheSize
    BY DEF KeysInvariant, RecentCache
  <2>2. cache' = [n \in 1..Len(cache) |->
                    [cache[n] EXCEPT !.age = Aged(@, KeyTTL)]]
    BY <2>1 DEF Tick
  <2>3. cache' \in [1..Len(cache) -> Entry] /\ Len(cache) \in Nat
    <3>1. DOMAIN cache = 1..Len(cache) /\ Len(cache) \in Nat
      BY <2>1
    <3>2. DOMAIN cache' = 1..Len(cache)
      BY <2>2
    <3>3. \A n \in 1..Len(cache) : cache'[n] \in Entry
      BY <1>10, <3>1
    <3> HIDE DEF Entry
    <3> QED
      BY <2>2, <3>1, <3>2, <3>3
  <2>4. cache' \in Seq(Entry) /\ Len(cache') = Len(cache)
    BY <2>3
  <2> QED
    BY <1>10, <2>1, <2>3, <2>4 DEF RecentCache
<1>12. (published \subseteq Key)' /\ (withdrawn \subseteq Key \ published)'
       /\ IdsDiffer'
  BY <1>1 DEF KeysInvariant, IdsDiffer
<1> QED
  BY <1>5, <1>6, <1>8, <1>9, <1>11, <1>12 DEF KeysInvariant

-----------------------------------------------------------------------------
(* The request *)

\* Past the plan, a request has one role, which its one token fits.
InRole == {"plan", "checkout", "select", "plugins", "stages", "deploy"}
Planned == InRole \ {"plan"}
Chosen == {"plugins", "stages", "deploy"}

OneToken ==
  /\ token.key \subseteq Key
  /\ \A k, l \in token.key : k = l

RoleFitsToken ==
  pc \in InRole =>
    \E i \in token.fits :
      /\ role = {i}
      /\ \E k \in token.key : Roles[i].issuer = IssuerOf[k]

\* What is handed to the processor is a selection if any is made.
HandedIsGranted ==
  pc \in Planned =>
    /\ body.system => Role.system
    /\ Role.outputs # <<>> => handed # <<>> /\ ToSet(handed) \subseteq ToSet(Role.outputs)
    /\ body.outputs # <<>> => handed # <<>> /\ ToSet(handed) \subseteq ToSet(body.outputs)

SelectedIsPermitted == pc \in Chosen => selected \subseteq ToSet(permitted)

StagesAreSelected == pc = "deploy" => UNION Range(stages) \subseteq selected

\* A guess is of the config commit and the outputs selected last.
GuessIsLast == predicted # {} => pc \in {"deploy", "answered"}

RequestInvariant ==
  /\ chosen \in DOMAIN Settings
  /\ token.fits \subseteq DOMAIN Roles
  /\ OneToken
  /\ RoleFitsToken
  /\ HandedIsGranted
  /\ SelectedIsPermitted
  /\ StagesAreSelected
  /\ GuessIsLast
  /\ PredictionErrsTowardsMore

LEMMA InitialHolds == Init => KeysInvariant /\ RequestInvariant
<1> SUFFICES ASSUME Init PROVE KeysInvariant /\ RequestInvariant
  OBVIOUS
<1>1. chosen \in DOMAIN Settings
  BY DEF Init
<1>2. settings.first \subseteq Key /\ \A k, l \in settings.first : SameId(k, l) => k = l
  BY <1>1, SettingsAssumption DEF settings
<1>3. KeysInvariant
  <2>1. published = settings.first /\ withdrawn = {} /\ since = [k \in Key |-> 0]
        /\ keySet = [i \in Issuer |-> NoSet] /\ cache = <<>>
    BY DEF Init, KeysInit
  <2>2. NoSet \in KeySet /\ RecentSet(NoSet)
    BY KeysAssumption DEF NoSet, KeySet, RecentSet
  <2>3. RecentCache(cache)
    BY <2>1, KeysAssumption DEF RecentCache
  <2>4. since \in [Key -> 0..Horizon] /\ UnagedUntilWithdrawn
    BY <2>1, HorizonIsNatural DEF UnagedUntilWithdrawn
  <2> QED
    BY <1>2, <2>1, <2>2, <2>3, <2>4 DEF KeysInvariant, IdsDiffer
<1>4. RequestInvariant
  BY <1>1 DEF Init, RequestInvariant, NoToken, OneToken, RoleFitsToken, InRole,
              HandedIsGranted, Planned, SelectedIsPermitted, Chosen,
              StagesAreSelected, GuessIsLast, PredictionErrsTowardsMore
<1> QED
  BY <1>3, <1>4

\* Of some numbers one is the least.
LEMMA LeastIsOne ==
  ASSUME NEW S, S \subseteq Nat, S # {}
  PROVE  \E m \in S : \A n \in S : m <= n
<1>1. PICK m \in S : \A n \in S : <<n, m>> \notin OpToRel(<, Nat)
  BY NatLessThanWellFounded, WFMin, Zenon
<1>2. ASSUME NEW n \in S
      PROVE  m <= n
  <2>1. <<n, m>> \in Nat \X Nat
    OBVIOUS
  <2>2. ~(<<n, m>>[1] < <<n, m>>[2])
    BY <1>1, <2>1, Zenon DEF OpToRel
  <2>3. m \in Nat /\ n \in Nat /\ ~(n < m)
    BY <2>2
  <2> QED
    BY <2>3
<1> QED
  BY <1>2

\* The roles a token fits are tried in turn, so the first is one of them.
LEMMA FirstRoleIsOne ==
  ASSUME chosen \in DOMAIN Settings, token.fits \subseteq DOMAIN Roles,
         NEW key, Fitting(key) # {}
  PROVE  \E i \in Fitting(key) : FirstRole(key) = {i}
<1>1. Fitting(key) \subseteq Nat
  BY SettingsAssumption DEF Fitting, Roles, deployment, settings
<1>2. PICK i \in Fitting(key) : \A j \in Fitting(key) : i <= j
  BY <1>1, LeastIsOne
<1>3. \A j \in FirstRole(key) : j = i
  BY <1>1, <1>2 DEF FirstRole
<1> QED
  BY <1>2, <1>3 DEF FirstRole

LEMMA KeysUnchanged ==
  ASSUME KeysInvariant, UNCHANGED keyVars
  PROVE  KeysInvariant'
<1>1. UNCHANGED <<published, withdrawn, since, keySet, cache>>
  BY DEF keyVars
<1>2. UnagedUntilWithdrawn' /\ IdsDiffer'
  BY <1>1 DEF KeysInvariant, UnagedUntilWithdrawn, IdsDiffer
<1>3. RecentCache(cache)' /\ \A i \in Issuer : RecentSet(keySet[i])'
  BY <1>1 DEF KeysInvariant, RecentCache, RecentEntry, RecentSet, Recent
<1> QED
  BY <1>1, <1>2, <1>3 DEF KeysInvariant

\* Between two requests the issuers change their keys, and time passes.
LEMMA ElapseKeepsKeys ==
  ASSUME KeysInvariant, RequestInvariant, Elapse
  PROVE  KeysInvariant'
<1>1. settings.keys \subseteq Key
  BY SettingsAssumption DEF RequestInvariant, settings
<1>2. ASSUME NEW k \in settings.keys, Publish(k)
      PROVE  KeysInvariant'
  <2> DEFINE replaced == {l \in published : SameId(k, l)}
  <2>1. /\ published' = (published \ replaced) \union {k}
        /\ withdrawn' = withdrawn \union replaced
        /\ k \notin published \union withdrawn
        /\ UNCHANGED <<since, keySet, cache>>
    BY <1>2 DEF Publish
  <2>2. IdsDiffer'
    BY <2>1 DEF KeysInvariant, IdsDiffer, SameId
  <2>3. /\ replaced \in SUBSET published /\ {k} \in SUBSET Key
        /\ {k} \intersect (published \union withdrawn) = {}
    BY <1>1, <2>1
  <2> HIDE DEF replaced
  <2> QED
    BY <2>1, <2>2, <2>3, WithdrawingKeepsKeys
<1>3. ASSUME NEW k \in settings.keys, Withdraw(k)
      PROVE  KeysInvariant'
  <2>1. /\ published' = (published \ {k}) \union {}
        /\ withdrawn' = withdrawn \union {k}
        /\ k \in published
        /\ UNCHANGED <<since, keySet, cache>>
    BY <1>3 DEF Withdraw
  <2>2. IdsDiffer'
    BY <2>1 DEF KeysInvariant, IdsDiffer
  <2>3. /\ {k} \in SUBSET published /\ {} \in SUBSET Key
        /\ {} \intersect (published \union withdrawn) = {}
    BY <2>1
  <2> QED
    BY <2>1, <2>2, <2>3, WithdrawingKeepsKeys
<1> QED
  BY <1>2, <1>3, TickKeepsKeys DEF Elapse

\* Authenticating leaves the keys it looks up.
LEMMA AuthenticateKeepsKeys ==
  ASSUME KeysInvariant, RequestInvariant, Authenticate
  PROVE  KeysInvariant'
<1>1. PICK key \in token.key : Unconfigured(key) \/ Verify(key)
  BY DEF Authenticate
<1>2. key \in Key
  BY DEF RequestInvariant, OneToken
<1>3. CASE Unconfigured(key)
  BY <1>3, KeysUnchanged DEF Unconfigured
<1>4. CASE Verify(key)
  BY <1>2, <1>4, LookupKeepsKeys DEF Verify
<1> QED
  BY <1>1, <1>3, <1>4

LEMMA KeysInductive ==
  ASSUME KeysInvariant, RequestInvariant, [Next]_vars
  PROVE  KeysInvariant'
<1>1. CASE Elapse
  BY <1>1, ElapseKeepsKeys
<1>2. CASE Authenticate
  BY <1>2, AuthenticateKeepsKeys
<1>3. CASE UNCHANGED keyVars
  BY <1>3, KeysUnchanged
<1>4. ASSUME NEW k, NEW fits, Receive(k, fits)
      PROVE  UNCHANGED keyVars
  BY <1>4 DEF Receive
<1>5. ASSUME NEW b, Plan(b)
      PROVE  UNCHANGED keyVars
  BY <1>5 DEF Plan
<1>6. ASSUME NEW c, Checkout(c) \/ FetchPlugins(c)
      PROVE  UNCHANGED keyVars
  BY <1>6 DEF Checkout, FetchPlugins
<1>7. ASSUME \/ Malformed \/ CheckoutFails \/ Select \/ PluginsFail
             \/ Schedule \/ Deploy \/ Send
      PROVE  UNCHANGED keyVars
  BY <1>7 DEF Malformed, CheckoutFails, Select, PluginsFail, Schedule, Deploy, Send
<1>8. CASE UNCHANGED vars
  BY <1>8, KeysUnchanged DEF vars
<1> QED
  BY <1>1, <1>2, <1>3, <1>4, <1>5, <1>6, <1>7, <1>8 DEF Next

-----------------------------------------------------------------------------
(* The steps of a request *)

\* The parts of the invariant that read nothing a step changes.
LEMMA SameRoles ==
  ASSUME chosen' = chosen
  PROVE  Roles' = Roles /\ deployment' = deployment
BY DEF Roles, deployment, settings

LEMMA AuthenticateHolds ==
  ASSUME RequestInvariant, Authenticate
  PROVE  RequestInvariant'
<1>1. /\ pc = "authenticate"
      /\ UNCHANGED <<chosen, token, body, handed, commit, selected, stages, predicted>>
  BY DEF Authenticate
<1>2. PICK key \in token.key : Unconfigured(key) \/ Verify(key)
  BY DEF Authenticate
<1>3. pc' \in {"plan", "answered"}
  BY <1>2 DEF Unconfigured, Verify, Reply
<1>4. RoleFitsToken'
  <2>1. CASE pc' = "plan"
    <3>1. Fitting(key) # {} /\ role' = FirstRole(key)
      BY <1>2, <2>1 DEF Unconfigured, Verify, Reply
    <3>2. PICK i \in Fitting(key) : role' = {i}
      BY <3>1, FirstRoleIsOne DEF RequestInvariant
    <3>3. i \in token.fits /\ Roles[i].issuer = IssuerOf[key]
      BY DEF Fitting, RolesOf
    <3>4. i \in token'.fits /\ key \in token'.key /\ Roles'[i].issuer = IssuerOf[key]
      BY <1>1, <3>3, SameRoles
    <3> QED
      BY <3>2, <3>4 DEF RoleFitsToken
  <2>2. CASE pc' = "answered"
    BY <2>2 DEF RoleFitsToken, InRole
  <2> QED
    BY <1>3, <2>1, <2>2
<1>5. (chosen \in DOMAIN Settings)' /\ (token.fits \subseteq DOMAIN Roles)' /\ OneToken'
  BY <1>1, SameRoles DEF RequestInvariant, OneToken
<1>6. HandedIsGranted' /\ SelectedIsPermitted' /\ StagesAreSelected'
  BY <1>3 DEF HandedIsGranted, Planned, InRole, SelectedIsPermitted, Chosen,
              StagesAreSelected
<1>7. predicted' = {}
  BY <1>1 DEF RequestInvariant, GuessIsLast
<1>8. GuessIsLast' /\ PredictionErrsTowardsMore'
  BY <1>7 DEF GuessIsLast, PredictionErrsTowardsMore
<1> QED
  BY <1>4, <1>5, <1>6, <1>8 DEF RequestInvariant

\* What follows the authentication keeps to its role.
LEMMA RoleKept ==
  ASSUME RequestInvariant, UNCHANGED <<chosen, token, role>>,
         pc' \in InRole => pc \in InRole
  PROVE  /\ (chosen \in DOMAIN Settings)'
         /\ (token.fits \subseteq DOMAIN Roles)'
         /\ OneToken'
         /\ RoleFitsToken'
BY SameRoles DEF RequestInvariant, OneToken, RoleFitsToken

LEMMA PlanHolds ==
  ASSUME RequestInvariant, NEW b, Plan(b)
  PROVE  RequestInvariant'
<1>1. /\ pc = "plan" /\ pc' \in {"checkout", "answered"}
      /\ body' = b
      /\ UNCHANGED <<chosen, token, role, commit, selected, stages, predicted>>
  BY DEF Plan, Reply
<1>2. HandedIsGranted'
  <2>1. CASE pc' = "checkout"
    <3>1. /\ ~(b.system /\ ~Role.system)
          /\ handed' = Granted(Role, b.outputs)
          /\ RequestAllowed(Role, b.outputs)
      BY <2>1 DEF Plan, Reply
    <3>2. Role' = Role
      BY <1>1, SameRoles DEF Role
    <3> QED
      BY <1>1, <3>1, <3>2 DEF HandedIsGranted, Granted, RequestAllowed
  <2>2. CASE pc' = "answered"
    BY <2>2 DEF HandedIsGranted, Planned, InRole
  <2> QED
    BY <1>1, <2>1, <2>2
<1>3. SelectedIsPermitted' /\ StagesAreSelected'
  BY <1>1 DEF SelectedIsPermitted, Chosen, StagesAreSelected
<1>4. predicted' = {}
  BY <1>1 DEF RequestInvariant, GuessIsLast
<1>5. GuessIsLast' /\ PredictionErrsTowardsMore'
  BY <1>4 DEF GuessIsLast, PredictionErrsTowardsMore
<1> QED
  BY <1>1, <1>2, <1>3, <1>5, RoleKept DEF RequestInvariant, InRole

\* The processor works within what it is handed.
LEMMA GrantKept ==
  ASSUME RequestInvariant, UNCHANGED <<chosen, role, body, handed>>,
         pc' \in Planned => pc \in Planned
  PROVE  /\ HandedIsGranted'
         /\ permitted' = permitted
BY SameRoles DEF RequestInvariant, HandedIsGranted, Role, permitted

\* Targets select only outputs they are matched against, whichever they are.
LEMMA SelectedIsPart ==
  ASSUME NEW d, NEW outputs, NEW declared, NEW system
  PROVE  Selected(d, outputs, declared, system) \subseteq ToSet(outputs)
BY DEF Selected

LEMMA ChoosingHolds ==
  ASSUME RequestInvariant, pc \in Planned \ {"deploy"},
         pc' \in Planned \ {"deploy"},
         UNCHANGED <<chosen, token, role, body, handed, stages, predicted>>,
         pc' \in Chosen => selected' \subseteq ToSet(permitted)
  PROVE  RequestInvariant'
<1>1. HandedIsGranted' /\ permitted' = permitted
  BY GrantKept
<1>2. SelectedIsPermitted' /\ StagesAreSelected'
  BY <1>1 DEF SelectedIsPermitted, StagesAreSelected
<1>3. predicted' = {}
  BY DEF RequestInvariant, GuessIsLast, Planned, InRole
<1>4. GuessIsLast' /\ PredictionErrsTowardsMore'
  BY <1>3 DEF GuessIsLast, PredictionErrsTowardsMore
<1> QED
  BY <1>1, <1>2, <1>4, RoleKept DEF RequestInvariant, Planned

\* Answered, a request has nothing left that the invariant speaks of but its guess.
LEMMA AnsweringHolds ==
  ASSUME RequestInvariant, pc' = "answered",
         UNCHANGED <<chosen, token, role, commit, selected, predicted>>
  PROVE  RequestInvariant'
<1>1. /\ (chosen \in DOMAIN Settings)' /\ (token.fits \subseteq DOMAIN Roles)'
      /\ OneToken' /\ RoleFitsToken'
  BY RoleKept DEF InRole
<1>2. HandedIsGranted' /\ SelectedIsPermitted' /\ StagesAreSelected' /\ GuessIsLast'
  BY DEF HandedIsGranted, Planned, InRole, SelectedIsPermitted, Chosen,
         StagesAreSelected, GuessIsLast
<1>3. PredictionErrsTowardsMore'
  BY SameRoles DEF RequestInvariant, PredictionErrsTowardsMore
<1> QED
  BY <1>1, <1>2, <1>3 DEF RequestInvariant

\* A guess holds what any path reaches: every output, or those of the targets
\* whose entry or sections it is in.
LEMMA GuessErrsTowardsMore ==
  ASSUME NEW d, NEW c, NEW outputs, NEW guess \in Predicted(d, c, outputs),
         NEW o \in outputs,
         \/ d.target[o] \in ChangedTargets(c.before, c.after)
         \/ d.target[o] \in DOMAIN c.after /\ Reads(c.after, d.target[o], c.paths) # {}
  PROVE  o \in guess
<1> DEFINE t == d.target[o]
<1>1. CASE ReachesEvery(c)
  BY <1>1 DEF Predicted
<1>2. CASE ~ReachesEvery(c)
  <2>1. guess = {x \in outputs : d.target[x] \in Affected(c)}
    BY <1>2 DEF Predicted
  <2>2. CASE t \in DOMAIN c.after /\ Reads(c.after, t, c.paths) # {}
    <3>1. PICK p \in c.paths : p \notin SectionsOf(c.after) \ c.after[t]
      BY <2>2 DEF Reads
    <3>2. p \in c.after[t]
      BY <1>2, <3>1 DEF ReachesEvery
    <3>3. t \in Affected(c)
      BY <2>2, <3>2 DEF Affected
    <3> QED
      BY <2>1, <3>3
  <2>3. CASE t \in ChangedTargets(c.before, c.after)
    BY <2>1, <2>3 DEF Affected
  <2> QED
    BY <2>2, <2>3
<1> QED
  BY <1>1, <1>2

LEMMA StagesArePart ==
  ASSUME NEW d, NEW outputs
  PROVE  UNION Range(Stages(d, outputs)) \subseteq outputs
<1>1. CASE d.stages = <<>>
  <2>1. Stages(d, outputs) = <<outputs>>
    BY <1>1 DEF Stages
  <2> QED
    BY <2>1 DEF Range
<1>2. CASE d.stages # <<>>
  BY <1>2 DEF Stages, Range
<1> QED
  BY <1>1, <1>2

LEMMA ScheduleHolds ==
  ASSUME RequestInvariant, Schedule
  PROVE  RequestInvariant'
<1>1. /\ pc = "stages" /\ pc' = "deploy"
      /\ UNCHANGED <<chosen, token, role, body, handed, commit, selected>>
      /\ stages' = Stages(deployment, selected)
      /\ predicted' \in {{}, Predicted(deployment, commit, selected)}
  BY DEF Schedule
<1>2. HandedIsGranted' /\ permitted' = permitted
  BY <1>1, GrantKept DEF Planned, InRole
<1>3. SelectedIsPermitted'
  BY <1>1, <1>2 DEF RequestInvariant, SelectedIsPermitted, Chosen
<1>4. StagesAreSelected'
  BY <1>1, StagesArePart DEF StagesAreSelected
<1>5. PredictionErrsTowardsMore'
  <2>1. deployment' = deployment
    BY <1>1, SameRoles
  <2>2. CASE predicted' = {}
    BY <2>2 DEF PredictionErrsTowardsMore
  <2>3. CASE predicted' = Predicted(deployment, commit, selected)
    BY <1>1, <2>1, <2>3, GuessErrsTowardsMore DEF PredictionErrsTowardsMore
  <2> QED
    BY <1>1, <2>2, <2>3
<1>6. GuessIsLast'
  BY <1>1 DEF GuessIsLast
<1> QED
  BY <1>1, <1>2, <1>3, <1>4, <1>5, <1>6, RoleKept DEF RequestInvariant, InRole

LEMMA RequestInductive ==
  ASSUME KeysInvariant, RequestInvariant, [Next]_vars
  PROVE  RequestInvariant'
<1>1. CASE Elapse \/ UNCHANGED vars
  <2>1. UNCHANGED <<chosen, pc, token, role, body, handed, commit, selected,
                    stages, predicted>>
    BY <1>1 DEF Elapse, vars, requestVars
  <2>2. HandedIsGranted' /\ permitted' = permitted
    BY <2>1, GrantKept
  <2>3. SelectedIsPermitted' /\ StagesAreSelected' /\ GuessIsLast'
    BY <2>1, <2>2 DEF RequestInvariant, SelectedIsPermitted, StagesAreSelected,
                      GuessIsLast
  <2>4. PredictionErrsTowardsMore'
    BY <2>1, SameRoles DEF RequestInvariant, PredictionErrsTowardsMore
  <2> QED
    BY <2>1, <2>2, <2>3, <2>4, RoleKept DEF RequestInvariant
<1>2. ASSUME NEW k \in published \union withdrawn,
             NEW fits \in SUBSET DOMAIN Roles, Receive(k, fits)
      PROVE  k \in Key => RequestInvariant'
  <2>1. /\ pc' = "authenticate" /\ pc = "idle"
        /\ token' = [key |-> {k}, fits |-> fits]
        /\ UNCHANGED <<chosen, predicted>>
    BY <1>2 DEF Receive
  <2>2. predicted' = {}
    BY <2>1 DEF RequestInvariant, GuessIsLast
  <2> QED
    BY <2>1, <2>2, SameRoles
      DEF RequestInvariant, OneToken, RoleFitsToken, InRole, HandedIsGranted,
          Planned, SelectedIsPermitted, Chosen, StagesAreSelected, GuessIsLast,
          PredictionErrsTowardsMore
<1>3. CASE \E b \in settings.bodies : Plan(b)
  BY <1>3, PlanHolds
<1>4. CASE \E c \in settings.commits : Checkout(c)
  BY <1>4, ChoosingHolds DEF Checkout, Planned, InRole, Chosen
<1>5. CASE Select
  <2>1. CASE pc' = "plugins"
    <3>1. selected' \subseteq ToSet(permitted)
      BY <1>5, <2>1, SelectedIsPart DEF Select, Reply
    <3> QED
      BY <1>5, <2>1, <3>1, ChoosingHolds DEF Select, Reply, Planned, InRole
  <2>2. CASE pc' # "plugins"
    BY <1>5, <2>2, AnsweringHolds DEF Select, Reply
  <2> QED
    BY <2>1, <2>2
<1>6. ASSUME NEW config \in settings.systemConfigs, FetchPlugins(config)
      PROVE  RequestInvariant'
  <2>1. CASE pc' = "stages"
    <3>1. selected \subseteq ToSet(permitted)
      BY <1>6 DEF FetchPlugins, RequestInvariant, SelectedIsPermitted, Chosen
    <3>2. selected' \subseteq ToSet(permitted)
      BY <1>6, <2>1, <3>1, SelectedIsPart DEF FetchPlugins, SectionOutputs, Reply
    <3> QED
      BY <1>6, <2>1, <3>2, ChoosingHolds DEF FetchPlugins, Reply, Planned, InRole
  <2>2. CASE pc' # "stages"
    BY <1>6, <2>2, AnsweringHolds DEF FetchPlugins, Reply
  <2> QED
    BY <2>1, <2>2
<1>7. CASE Malformed \/ CheckoutFails \/ PluginsFail \/ Deploy
  BY <1>7, AnsweringHolds DEF Malformed, CheckoutFails, PluginsFail, Deploy, Reply
<1>8. CASE Send
  <2>1. /\ pc' = "idle" /\ token' = NoToken /\ predicted' = {} /\ chosen' = chosen
    BY <1>8 DEF Send
  <2> QED
    BY <2>1 DEF RequestInvariant, NoToken, OneToken, RoleFitsToken, InRole,
                HandedIsGranted, Planned, SelectedIsPermitted, Chosen,
                StagesAreSelected, GuessIsLast, PredictionErrsTowardsMore
<1>9. (published \union withdrawn \subseteq Key) => RequestInvariant'
  BY <1>1, <1>2, <1>3, <1>4, <1>5, <1>6, <1>7, <1>8, AuthenticateHolds,
     ScheduleHolds DEF Next
<1> QED
  BY <1>9 DEF KeysInvariant

-----------------------------------------------------------------------------
(* Nothing is left out *)

\* Of some numbers that are bounded the largest is one of them.
LEMMA LargestIsOne ==
  ASSUME NEW N \in Nat, NEW S, S \subseteq 1..N, S # {}
  PROVE  Max(S) \in S
<1> DEFINE bounds == {k \in Nat : \A n \in S : n <= k}
<1>1. N \in bounds
  OBVIOUS
<1>2. PICK m \in bounds : \A k \in bounds : m <= k
  BY <1>1, LeastIsOne
<1>3. m \in S
  <2> SUFFICES ASSUME m \notin S
               PROVE  FALSE
    OBVIOUS
  <2>1. PICK n \in S : TRUE
    OBVIOUS
  <2>2. m \in Nat /\ n \in 1..N /\ n <= m
    BY <2>1
  <2>3. m - 1 \in Nat
    BY <2>2
  <2>4. \A l \in S : l \in Nat /\ l <= m /\ l # m
    OBVIOUS
  <2>5. \A l \in S : l <= m - 1
    BY <2>2, <2>4
  <2>6. m - 1 \in bounds
    BY <2>3, <2>5
  <2>7. m <= m - 1
    BY <1>2, <2>6
  <2> QED
    BY <2>2, <2>7
<1>4. \E l \in S : \A n \in S : l >= n
  BY <1>3
<1> QED
  BY <1>4 DEF Max

\* A target that one of a list of outputs has selects one of them that has it.
LEMMA TargetSelectsOne ==
  ASSUME NEW d, NEW outputs, outputs \in Seq(ToSet(outputs)),
         NEW t \in TargetsOf(d, ToSet(outputs))
  PROVE  /\ ByTarget(d, outputs, t) \in ToSet(outputs)
         /\ d.target[ByTarget(d, outputs, t)] = t
<1>1. Len(outputs) \in Nat /\ DOMAIN outputs = 1..Len(outputs)
  OBVIOUS
<1>2. PICK o \in ToSet(outputs) : d.target[o] = t
  BY DEF TargetsOf
<1> DEFINE places == {n \in DOMAIN outputs : outputs[n] = o}
<1>3. places \subseteq Nat /\ places # {}
  BY <1>1 DEF ToSet
<1>4. PICK n \in places : \A m \in places : n <= m
  BY <1>3, LeastIsOne
<1>5. \A m \in 1..(n - 1) : outputs[m] # outputs[n]
  BY <1>1, <1>4
<1>6. n \in PlacesOf(d, outputs, t)
  BY <1>2, <1>5 DEF PlacesOf
<1>7. PlacesOf(d, outputs, t) \subseteq 1..Len(outputs)
  BY <1>1 DEF PlacesOf
<1>8. Max(PlacesOf(d, outputs, t)) \in PlacesOf(d, outputs, t)
  BY <1>1, <1>6, <1>7, LargestIsOne
<1> QED
  BY <1>8 DEF PlacesOf, ByTarget, ToSet

\* Targets that all match reach an output each.
LEMMA SelectedReachTargets ==
  ASSUME NEW d, NEW outputs, outputs \in Seq(ToSet(outputs)),
         NEW declared, declared # {}, AllMatch(d, outputs, declared)
  PROVE  TargetsOf(d, Selected(d, outputs, declared, FALSE)) = declared
<1>1. TargetsOf(d, Selected(d, outputs, declared, FALSE)) \subseteq declared
  BY DEF TargetsOf, Selected
<1>2. ASSUME NEW t \in declared
      PROVE  t \in TargetsOf(d, Selected(d, outputs, declared, FALSE))
  <2>1. t \in TargetsOf(d, ToSet(outputs))
    BY DEF AllMatch
  <2>2. /\ ByTarget(d, outputs, t) \in ToSet(outputs)
        /\ d.target[ByTarget(d, outputs, t)] = t
    BY <2>1, TargetSelectsOne
  <2>3. ByTarget(d, outputs, t) \in Selected(d, outputs, declared, FALSE)
    BY <2>2 DEF Selected
  <2> QED
    BY <2>2, <2>3 DEF TargetsOf
<1> QED
  BY <1>1, <1>2

\* Accepted rollouts carry each selected output in one stage.
LEMMA StagesAreWhole ==
  ASSUME NEW d, RolloutsAccepted(d), NEW outputs, outputs \subseteq ToSet(d.outputs)
  PROVE  /\ UNION Range(Stages(d, outputs)) = outputs
         /\ \A o \in outputs :
              Cardinality({i \in DOMAIN Stages(d, outputs) : o \in Stages(d, outputs)[i]}) = 1
<1> DEFINE staged == Stages(d, outputs)
<1>1. CASE d.stages = <<>>
  <2>1. staged = <<outputs>> /\ DOMAIN staged = {1} /\ staged[1] = outputs
    BY <1>1 DEF Stages
  <2>2. UNION Range(staged) = outputs
    BY <2>1 DEF Range
  <2>3. \A o \in outputs : {i \in DOMAIN staged : o \in staged[i]} = {1}
    BY <2>1
  <2> QED
    BY <2>2, <2>3, FS_Singleton
<1>2. CASE d.stages # <<>>
  <2>1. /\ DOMAIN staged = DOMAIN d.stages
        /\ \A i \in DOMAIN staged : staged[i] = ToSet(d.stages[i]) \intersect outputs
    BY <1>2 DEF Stages
  <2>2. UNION {ToSet(d.stages[i]) : i \in DOMAIN d.stages} = ToSet(d.outputs)
    BY <1>2 DEF RolloutsAccepted
  <2>3. \A i, j \in DOMAIN d.stages :
          i # j => ToSet(d.stages[i]) \intersect ToSet(d.stages[j]) = {}
    BY <1>2 DEF RolloutsAccepted
  <2>4. \A o \in outputs : \E i \in DOMAIN staged : o \in staged[i]
    BY <2>1, <2>2
  <2>5. UNION Range(staged) = outputs
    BY <2>1, <2>4 DEF Range
  <2>6. ASSUME NEW o \in outputs
        PROVE  Cardinality({i \in DOMAIN staged : o \in staged[i]}) = 1
    <3>1. PICK i \in DOMAIN staged : o \in staged[i]
      BY <2>4
    <3>2. {j \in DOMAIN staged : o \in staged[j]} = {i}
      BY <2>1, <2>3, <3>1
    <3> QED
      BY <3>2, FS_Singleton
  <2> QED
    BY <2>5, <2>6
<1> QED
  BY <1>1, <1>2

-----------------------------------------------------------------------------
(* What a change is deployed to is all it selects *)

\* What is handed to the processor is a list of outputs of the configuration.
HandedIsConfigured ==
  pc \in Planned =>
    /\ handed \in Seq(ToSet(handed))
    /\ ToSet(handed) \subseteq ToSet(deployment.outputs)

\* Once the outputs are chosen, none is left out: a section is not asked for
\* beside targets, targets are all reached, and without either all is selected.
ChosenIsWhole ==
  pc \in Chosen =>
    /\ DOMAIN commit.after # {} => body.section = {}
    /\ DOMAIN commit.after # {} /\ ~body.system =>
         TargetsOf(deployment, selected) = DOMAIN commit.after
    /\ body.section = {} /\ (body.system \/ DOMAIN commit.after = {}) =>
         selected = ToSet(permitted)

StagesOfSelected == pc = "deploy" => stages = Stages(deployment, selected)

WholeInvariant ==
  /\ ConfigAccepted(deployment)
  /\ HandedIsConfigured
  /\ ChosenIsWhole
  /\ StagesOfSelected

\* The processor works on lists, whatever it is handed.
LEMMA PermittedIsList ==
  ASSUME RequestInvariant, HandedIsConfigured, pc \in Planned
  PROVE  /\ permitted \in Seq(ToSet(permitted))
         /\ ToSet(permitted) \subseteq ToSet(deployment.outputs)
<1>1. deployment.outputs \in Seq(ToSet(deployment.outputs))
  BY SettingsAssumption DEF RequestInvariant, deployment, settings
<1> QED
  BY <1>1 DEF permitted, Permitted, HandedIsConfigured

\* The role a request is authenticated as is one of the configuration.
LEMMA RoleIsConfigured ==
  ASSUME RequestInvariant, ConfigAccepted(deployment), pc \in InRole
  PROVE  /\ Role.outputs \in Seq(ToSet(Role.outputs))
         /\ ToSet(Role.outputs) \subseteq ToSet(deployment.outputs)
<1>1. PICK i \in DOMAIN Roles : role = {i}
  BY DEF RequestInvariant, RoleFitsToken
<1>2. Role = Roles[i]
  BY <1>1 DEF Role
<1>3. Roles[i].outputs \in Seq(ToSet(Roles[i].outputs))
  BY SettingsAssumption DEF RequestInvariant, Roles, deployment, settings
<1>4. ToSet(Roles[i].outputs) \subseteq ToSet(deployment.outputs)
  BY DEF ConfigAccepted, RolesAccepted, Roles
<1> QED
  BY <1>2, <1>3, <1>4

LEMMA PlanIsWhole ==
  ASSUME RequestInvariant, WholeInvariant, NEW b \in settings.bodies, Plan(b)
  PROVE  WholeInvariant'
<1>1. /\ pc = "plan" /\ pc' \in {"checkout", "answered"}
      /\ chosen' = chosen
  BY DEF Plan, Reply
<1>2. deployment' = deployment
  BY <1>1, SameRoles
<1>3. HandedIsConfigured'
  <2>1. CASE pc' = "checkout"
    <3>1. handed' = Granted(Role, b.outputs) /\ RequestAllowed(Role, b.outputs)
      BY <2>1 DEF Plan, Reply
    <3>2. b.outputs \in Seq(ToSet(b.outputs))
      BY SettingsAssumption DEF RequestInvariant, settings
    <3>3. /\ Role.outputs \in Seq(ToSet(Role.outputs))
          /\ ToSet(Role.outputs) \subseteq ToSet(deployment.outputs)
      BY <1>1, RoleIsConfigured DEF InRole, WholeInvariant
    <3>4. CASE b.outputs = <<>>
      <4>1. handed' = Role.outputs
        BY <3>1, <3>4 DEF Granted
      <4> QED
        BY <1>2, <3>3, <4>1 DEF HandedIsConfigured
    <3>5. CASE b.outputs # <<>>
      <4>1. handed' = b.outputs /\ ToSet(b.outputs) \subseteq ToSet(Role.outputs)
        BY <3>1, <3>5 DEF Granted, RequestAllowed
      <4> QED
        BY <1>2, <3>2, <3>3, <4>1 DEF HandedIsConfigured
    <3> QED
      BY <3>4, <3>5
  <2>2. CASE pc' = "answered"
    BY <2>2 DEF HandedIsConfigured, Planned, InRole
  <2> QED
    BY <1>1, <2>1, <2>2
<1> QED
  BY <1>1, <1>2, <1>3 DEF WholeInvariant, ChosenIsWhole, Chosen, StagesOfSelected

\* A step within the processor keeps what it was handed.
LEMMA HandedKept ==
  ASSUME WholeInvariant, UNCHANGED <<chosen, handed>>,
         pc' \in Planned => pc \in Planned
  PROVE  /\ ConfigAccepted(deployment)'
         /\ HandedIsConfigured'
         /\ deployment' = deployment
         /\ permitted' = permitted
<1>1. deployment' = deployment
  BY SameRoles
<1> QED
  BY <1>1 DEF WholeInvariant, HandedIsConfigured, permitted

\* What is answered, or is not chosen yet, has nothing to be whole.
LEMMA UnchosenIsWhole ==
  ASSUME WholeInvariant, UNCHANGED <<chosen, handed>>, pc' \notin Chosen,
         pc' \in Planned => pc \in Planned
  PROVE  WholeInvariant'
BY HandedKept DEF WholeInvariant, ChosenIsWhole, Chosen, StagesOfSelected

LEMMA SelectIsWhole ==
  ASSUME RequestInvariant, WholeInvariant, Select
  PROVE  WholeInvariant'
<1> DEFINE declared == DOMAIN commit.after
<1>1. /\ pc = "select" /\ pc' \in {"plugins", "answered"}
      /\ UNCHANGED <<chosen, body, handed, commit>>
  BY DEF Select, Reply
<1>2. CASE pc' = "plugins"
  <2>1. /\ SectionAllowed(deployment, body.section, declared)
        /\ Selectable(deployment, permitted, declared, body.system)
        /\ selected' = Selected(deployment, permitted, declared, body.system)
    BY <1>2 DEF Select, Reply
  <2>2. /\ ConfigAccepted(deployment)' /\ HandedIsConfigured'
        /\ deployment' = deployment /\ permitted' = permitted
    BY <1>1, HandedKept DEF Planned, InRole
  <2>3. declared # {} => body.section = {}
    BY <2>1 DEF SectionAllowed
  <2>4. ASSUME declared # {}, ~body.system
        PROVE  TargetsOf(deployment, selected') = declared
    <3>1. AllMatch(deployment, permitted, declared)
      BY <2>1, <2>4 DEF Selectable
    <3>2. permitted \in Seq(ToSet(permitted))
      BY <1>1, PermittedIsList DEF WholeInvariant, Planned, InRole
    <3>3. selected' = Selected(deployment, permitted, declared, FALSE)
      BY <2>1, <2>4 DEF Selected
    <3> QED
      BY <2>4, <3>1, <3>2, <3>3, SelectedReachTargets
  <2>5. body.system \/ declared = {} => selected' = ToSet(permitted)
    BY <2>1 DEF Selected
  <2>6. ChosenIsWhole'
    BY <1>1, <2>2, <2>3, <2>4, <2>5 DEF ChosenIsWhole
  <2> QED
    BY <1>2, <2>2, <2>6 DEF WholeInvariant, StagesOfSelected
<1>3. CASE pc' = "answered"
  BY <1>1, <1>3, UnchosenIsWhole DEF Chosen, Planned, InRole
<1> QED
  BY <1>1, <1>2, <1>3

LEMMA FetchIsWhole ==
  ASSUME WholeInvariant, NEW config, FetchPlugins(config)
  PROVE  WholeInvariant'
<1>1. /\ pc = "plugins" /\ pc' \in {"stages", "answered"}
      /\ UNCHANGED <<chosen, body, handed, commit>>
  BY DEF FetchPlugins, Reply
<1>2. CASE pc' = "stages"
  <2>1. body.section = {} => selected' = selected
    BY <1>2 DEF FetchPlugins, Reply
  <2>2. /\ ConfigAccepted(deployment)' /\ HandedIsConfigured'
        /\ deployment' = deployment /\ permitted' = permitted
    BY <1>1, HandedKept DEF Planned, InRole
  <2>3. ChosenIsWhole'
    BY <1>1, <2>1, <2>2 DEF WholeInvariant, ChosenIsWhole, Chosen
  <2> QED
    BY <1>2, <2>2, <2>3 DEF WholeInvariant, StagesOfSelected
<1>3. CASE pc' = "answered"
  BY <1>1, <1>3, UnchosenIsWhole DEF Chosen, Planned, InRole
<1> QED
  BY <1>1, <1>2, <1>3

LEMMA ScheduleIsWhole ==
  ASSUME WholeInvariant, Schedule
  PROVE  WholeInvariant'
<1>1. /\ pc = "stages" /\ pc' = "deploy"
      /\ UNCHANGED <<chosen, body, handed, commit, selected>>
      /\ stages' = Stages(deployment, selected)
  BY DEF Schedule
<1>2. /\ ConfigAccepted(deployment)' /\ HandedIsConfigured'
      /\ deployment' = deployment /\ permitted' = permitted
  BY <1>1, HandedKept DEF Planned, InRole
<1>3. ChosenIsWhole'
  BY <1>1, <1>2 DEF WholeInvariant, ChosenIsWhole, Chosen
<1>4. StagesOfSelected'
  BY <1>1, <1>2 DEF StagesOfSelected
<1> QED
  BY <1>2, <1>3, <1>4 DEF WholeInvariant

LEMMA WholeInitially == Init => WholeInvariant
<1> SUFFICES ASSUME Init
             PROVE  WholeInvariant
  OBVIOUS
<1>1. ConfigAccepted(deployment)
  BY DEF Init, deployment, settings
<1>2. pc = "idle"
  BY DEF Init
<1> QED
  BY <1>1, <1>2 DEF WholeInvariant, HandedIsConfigured, Planned, InRole,
                    ChosenIsWhole, Chosen, StagesOfSelected

LEMMA WholeInductive ==
  ASSUME RequestInvariant, WholeInvariant, [Next]_vars
  PROVE  WholeInvariant'
<1>1. CASE Elapse \/ UNCHANGED vars
  <2>1. UNCHANGED <<chosen, pc, body, handed, commit, selected, stages>>
    BY <1>1 DEF Elapse, vars, requestVars
  <2>2. deployment' = deployment /\ permitted' = permitted
    BY <2>1, HandedKept
  <2>3. ConfigAccepted(deployment)' /\ HandedIsConfigured'
    BY <2>1, HandedKept
  <2>4. ChosenIsWhole' /\ StagesOfSelected'
    BY <2>1, <2>2 DEF WholeInvariant, ChosenIsWhole, StagesOfSelected
  <2> QED
    BY <2>3, <2>4 DEF WholeInvariant
<1>2. ASSUME NEW k, NEW fits, Receive(k, fits)
      PROVE  WholeInvariant'
  BY <1>2, UnchosenIsWhole DEF Receive, Chosen, Planned, InRole
<1>3. CASE Authenticate
  <2>1. pc' \in {"plan", "answered"} /\ UNCHANGED <<chosen, handed>>
    BY <1>3 DEF Authenticate, Unconfigured, Verify, Reply
  <2> QED
    BY <2>1, UnchosenIsWhole DEF Chosen, Planned, InRole
<1>4. CASE \E b \in settings.bodies : Plan(b)
  BY <1>4, PlanIsWhole
<1>5. ASSUME NEW c, Checkout(c)
      PROVE  WholeInvariant'
  BY <1>5, UnchosenIsWhole DEF Checkout, Chosen, Planned, InRole
<1>6. CASE Malformed \/ CheckoutFails \/ PluginsFail \/ Deploy
  BY <1>6, UnchosenIsWhole
    DEF Malformed, CheckoutFails, PluginsFail, Deploy, Reply, Chosen, Planned, InRole
<1>7. CASE Send
  <2>1. pc' = "idle" /\ chosen' = chosen
    BY <1>7 DEF Send
  <2>2. deployment' = deployment
    BY <2>1, SameRoles
  <2> QED
    BY <2>1, <2>2 DEF WholeInvariant, HandedIsConfigured, Planned, InRole,
                      ChosenIsWhole, Chosen, StagesOfSelected
<1> QED
  BY <1>1, <1>2, <1>3, <1>4, <1>5, <1>6, <1>7, SelectIsWhole, FetchIsWhole,
     ScheduleIsWhole DEF Next

-----------------------------------------------------------------------------
(* The theorems *)

\* The keys in either cache were published not longer ago than it may keep them,
\* and a request keeps to its one token, role, selection and guess: the
\* invariant the following rest on (auth.py, app.py, change.py).
THEOREM RequestsHold == Spec => [](KeysInvariant /\ RequestInvariant)
<1>1. Init => KeysInvariant /\ RequestInvariant
  BY InitialHolds
<1>2. (KeysInvariant /\ RequestInvariant) /\ [Next]_vars
        => (KeysInvariant /\ RequestInvariant)'
  BY KeysInductive, RequestInductive
<1> QED
  BY <1>1, <1>2, PTL DEF Spec

\* A request that has not come to its answer has none.
Unanswered == pc # "answered" => answer = 0

LEMMA UnansweredHolds == Spec => []Unanswered
<1>1. Init => Unanswered
  BY DEF Init, Unanswered
<1>2. ASSUME Unanswered, [Next]_vars
      PROVE  Unanswered'
  <2>1. CASE Elapse \/ UNCHANGED vars
    BY <1>2, <2>1 DEF Unanswered, Elapse, vars, requestVars
  <2>2. ASSUME NEW k, NEW fits, Receive(k, fits)
        PROVE  Unanswered'
    BY <1>2, <2>2 DEF Unanswered, Receive
  <2>3. CASE Authenticate
    BY <1>2, <2>3 DEF Unanswered, Authenticate, Unconfigured, Verify, Reply
  <2>4. ASSUME NEW b, Plan(b)
        PROVE  Unanswered'
    BY <1>2, <2>4 DEF Unanswered, Plan, Reply
  <2>5. ASSUME NEW c, Checkout(c) \/ FetchPlugins(c)
        PROVE  Unanswered'
    BY <1>2, <2>5 DEF Unanswered, Checkout, FetchPlugins, Reply
  <2>6. CASE Malformed \/ CheckoutFails \/ Select \/ PluginsFail
    BY <1>2, <2>6 DEF Unanswered, Malformed, CheckoutFails, Select, PluginsFail,
                      Reply
  <2>7. CASE Schedule \/ Deploy \/ Send
    BY <1>2, <2>7 DEF Unanswered, Schedule, Deploy, Send, Reply
  <2> QED
    BY <1>2, <2>1, <2>2, <2>3, <2>4, <2>5, <2>6, <2>7 DEF Next
<1> QED
  BY <1>1, <1>2, PTL DEF Spec

\* No token is accepted with a key withdrawn longer ago than both caches in a
\* row may keep it, however often it is used (_SigningKeyCache).
THEOREM WithdrawnKeyIsAlwaysRefused == Spec => WithdrawnKeyIsRefused
<1>1. ASSUME KeysInvariant, RequestInvariant, [Next]_vars
      PROVE  [pc = "authenticate" /\ pc' = "plan" =>
                \A k \in token.key : k \in published \/ since[k] < Horizon]_vars
  <2> SUFFICES ASSUME pc = "authenticate", pc' = "plan", NEW k \in token.key
               PROVE  k \in published \/ since[k] < Horizon
    OBVIOUS
  <2>1. Authenticate
    BY <1>1 DEF Next, vars, requestVars, Elapse, Receive, Plan, Malformed,
                Checkout, CheckoutFails, Select, FetchPlugins, PluginsFail,
                Schedule, Deploy, Send
  <2>2. PICK key \in token.key : Unconfigured(key) \/ Verify(key)
    BY <2>1 DEF Authenticate
  <2>3. key = k /\ key \in Key
    BY <1>1 DEF RequestInvariant, OneToken
  <2>4. PICK result \in Lookups(key) : result.found = {key}
    BY <2>2 DEF Unconfigured, Verify, Reply
  <2> QED
    BY <1>1, <2>3, <2>4, LookupFindsRecent
<1> QED
  BY <1>1, RequestsHold, PTL DEF Spec, WithdrawnKeyIsRefused

\* A token of a key that its issuer publishes under a new id is refused only if
\* it fits no role or the issuer cannot be reached, whatever the caches hold
\* (TokenValidator._signing_key_for_token).
THEOREM RotationIsAlwaysFollowed == Spec => RotationIsFollowed
<1>1. ASSUME KeysInvariant, RequestInvariant, Unanswered, [Next]_vars
      PROVE  [pc = "authenticate" /\ answer' = 401 =>
                \A k \in token.key :
                  \/ Fitting(k) = {}
                  \/ k \notin published
                  \/ \E l \in withdrawn : SameId(k, l) /\ since[l] < Horizon
                  \/ keySet'[IssuerOf[k]] = NoSet]_vars
  <2> SUFFICES ASSUME pc = "authenticate", answer' = 401, vars' # vars,
                      NEW k \in token.key, Fitting(k) # {}, k \in published
               PROVE  \/ \E l \in withdrawn : SameId(k, l) /\ since[l] < Horizon
                      \/ keySet'[IssuerOf[k]] = NoSet
    OBVIOUS
  <2>1. Authenticate
    BY <1>1 DEF Next, Elapse, Receive, Plan, Malformed, Checkout, CheckoutFails,
                Select, FetchPlugins, PluginsFail, Schedule, Deploy, Send
  <2>2. PICK key \in token.key : Unconfigured(key) \/ Verify(key)
    BY <2>1 DEF Authenticate
  <2>3. key = k /\ k \in Key /\ IssuerOf[k] \in Issuer
    BY <1>1, KeysAssumption DEF RequestInvariant, OneToken
  <2>4. Verify(k)
    BY <2>2, <2>3 DEF Unconfigured, Fitting
  <2>5. PICK result \in Lookups(k) :
          Lookup(k, result) /\ (result.found # {k} \/ answer' = answer)
    BY <2>4 DEF Verify
  <2>6. /\ \A l \in result.found :
             /\ SameId(l, k)
             /\ l \in published \/ (l \in withdrawn /\ since[l] < Horizon)
        /\ result.found = {} => result.keySet = NoSet
    BY <1>1, <2>3, LookupFindsRecent
  <2>7. keySet'[IssuerOf[k]] = result.keySet
    BY <1>1, <2>3, <2>5 DEF Lookup, KeysInvariant
  <2>8. ASSUME NEW l \in result.found, l # k
        PROVE  l \in withdrawn /\ since[l] < Horizon /\ SameId(k, l)
    BY <1>1, <2>6, <2>8 DEF KeysInvariant, IdsDiffer, SameId
  <2>9. CASE result.found # {k}
    BY <2>6, <2>7, <2>8, <2>9
  <2> QED
    BY <1>1, <2>5, <2>9 DEF Unanswered
<1> QED
  BY <1>1, RequestsHold, UnansweredHolds, PTL DEF Spec, RotationIsFollowed

\* What a change deploys, over all its stages, is within what one role its token
\* fits grants it and what it asked for (_plan_change, _selected_outputs).
THEOREM AlwaysDeploysOnlyWhatIsGranted == Spec => []DeploysOnlyWhatIsGranted
<1>1. RequestInvariant => DeploysOnlyWhatIsGranted
  <2> SUFFICES ASSUME RequestInvariant, pc = "deploy"
               PROVE  DeploysOnlyWhatIsGranted
    BY DEF DeploysOnlyWhatIsGranted
  <2>1. PICK i \in token.fits :
          /\ role = {i}
          /\ \E k \in token.key : Roles[i].issuer = IssuerOf[k]
    BY DEF RequestInvariant, RoleFitsToken, InRole
  <2>2. Role = Roles[i]
    BY <2>1 DEF Role
  <2>3. UNION Range(stages) \subseteq ToSet(permitted)
    BY DEF RequestInvariant, SelectedIsPermitted, StagesAreSelected, Chosen
  <2>4. handed # <<>> => permitted = handed
    BY DEF permitted, Permitted
  <2>5. HandedIsGranted /\ pc \in Planned
    BY DEF RequestInvariant, Planned, InRole
  <2> QED
    BY <2>1, <2>2, <2>3, <2>4, <2>5 DEF DeploysOnlyWhatIsGranted, HandedIsGranted
<1> QED
  BY <1>1, RequestsHold, PTL

\* A change is deployed to all it selects, each output in one stage: to every
\* target its config declares, or to all it is permitted (_selected_outputs,
\* _change_stages), for any configuration, request and commit.
THEOREM NothingIsEverLeftOut == Spec => []NothingIsLeftOut
<1>1. Spec => []WholeInvariant
  <2>1. Init => WholeInvariant
    BY WholeInitially
  <2>2. RequestInvariant /\ WholeInvariant /\ [Next]_vars => WholeInvariant'
    BY WholeInductive
  <2> QED
    BY <2>1, <2>2, RequestsHold, PTL DEF Spec
<1>2. RequestInvariant /\ WholeInvariant => NothingIsLeftOut
  <2> SUFFICES ASSUME RequestInvariant, WholeInvariant, pc = "deploy"
               PROVE  NothingIsLeftOut
    BY DEF NothingIsLeftOut
  <2>1. stages = Stages(deployment, selected)
    BY DEF WholeInvariant, StagesOfSelected
  <2>2. ToSet(permitted) \subseteq ToSet(deployment.outputs)
    BY PermittedIsList DEF WholeInvariant, Planned, InRole
  <2>3. selected \subseteq ToSet(deployment.outputs)
    BY <2>2 DEF RequestInvariant, SelectedIsPermitted, Chosen
  <2>4. RolloutsAccepted(deployment)
    BY DEF WholeInvariant, ConfigAccepted
  <2>5. /\ UNION Range(stages) = selected
        /\ \A o \in selected : Cardinality({i \in DOMAIN stages : o \in stages[i]}) = 1
    BY <2>1, <2>3, <2>4, StagesAreWhole
  <2>6. ChosenIsWhole /\ pc \in Chosen
    BY DEF WholeInvariant, Chosen
  <2> QED
    BY <2>5, <2>6 DEF NothingIsLeftOut, ChosenIsWhole
<1> QED
  BY <1>1, <1>2, RequestsHold, PTL

\* A guess leaves out no output that the commit's paths reach (_predicted_outputs).
THEOREM PredictionAlwaysErrsTowardsMore == Spec => []PredictionErrsTowardsMore
<1>1. RequestInvariant => PredictionErrsTowardsMore
  BY DEF RequestInvariant
<1> QED
  BY <1>1, RequestsHold, PTL

-----------------------------------------------------------------------------
(***************************************************************************)
(* EventStream                                                             *)
(***************************************************************************)

USE StreamAssumption DEF Event, Sentinel

\* What is being sent, as a sequence.
LEMMA NothingToSend == SetToSeq({}) = << >>
<1>1. Cardinality({}) = 0
  BY FS_EmptySet
<1>2. << >> \in [1..0 -> {}]
  OBVIOUS
<1>3. IsInjective(<< >>)
  BY DEF IsInjective
<1>4. SetToSeq({}) \in [1..0 -> {}]
  BY <1>1, <1>2, <1>3 DEF SetToSeq
<1>5. SetToSeq({}) \in Seq({}) /\ Len(SetToSeq({})) = 0
  BY <1>4
<1> QED
  BY <1>5, EmptySeq

LEMMA OneToSend == ASSUME NEW x PROVE SetToSeq({x}) = <<x>>
<1>1. Cardinality({x}) = 1
  BY FS_Singleton
<1>2. <<x>> \in [1..1 -> {x}] /\ \A f \in [1..1 -> {x}] : f = <<x>>
  OBVIOUS
<1>3. IsInjective(<<x>>)
  BY DEF IsInjective
<1> QED
  BY <1>1, <1>2, <1>3 DEF SetToSeq

LEMMA OrderInit == StreamInit => OrderInvariant
<1> SUFFICES ASSUME StreamInit PROVE OrderInvariant
  OBVIOUS
<1>1. /\ << >> \in Seq(Event \union {Sentinel}) /\ << >> \in Seq(Event)
      /\ 0 \in 0..(Events + LateEvents)
  BY EmptySeq
<1>2. StreamTypeOK
  <2> USE DEF StreamInit
  <2>1. callbacks \in Seq(Event \union {Sentinel}) /\ queue \in Seq(Event \union {Sentinel})
    BY <1>1, Zenon
  <2>2. received \in Seq(Event)
    BY <1>1, Zenon
  <2> QED
    BY <1>1, <2>1, <2>2, Zenon DEF StreamTypeOK
<1>3. Len(queue) = 0 /\ Len(callbacks) = 0 /\ Len(received) = 0
  BY EmptySeq DEF StreamInit
<1>4. ClosedOnce /\ SendsTheNext /\ AllSentBehind /\ EventsInOrder
  BY <1>3 DEF StreamInit, ClosedOnce, SendsTheNext, AllSentBehind, EventsInOrder
<1>5. NothingOvertakes
  BY <1>3 DEF StreamInit, NothingOvertakes, PostedSoFar, Taken
<1> QED
  BY <1>2, <1>4, <1>5 DEF OrderInvariant

\* The lengths and counts are numbers.
LEMMA Counts ==
  ASSUME StreamTypeOK
  PROVE  /\ Len(queue) \in Nat /\ Len(callbacks) \in Nat /\ Len(received) \in Nat
         /\ emitted \in Nat /\ Taken \in Nat /\ PostedSoFar \in Nat
         /\ \A c \in closing : c \in Nat
<1>1. Len(queue) \in Nat /\ Len(callbacks) \in Nat /\ Len(received) \in Nat
  BY DEF StreamTypeOK
<1>2. emitted \in Nat /\ \A c \in closing : c \in Nat
  BY DEF StreamTypeOK
<1> QED
  BY <1>1, <1>2 DEF Taken, PostedSoFar

\* An event reported is posted behind all that was.
LEMMA ReportKeeps ==
  ASSUME OrderInvariant, Emit \/ EmitLate
  PROVE  OrderInvariant'
<1> USE DEF OrderInvariant
<1>1. /\ emitted' = emitted + 1 /\ emitted' \in 0..(Events + LateEvents)
      /\ callbacks' = Append(callbacks, emitted')
      /\ UNCHANGED <<thread, closing, queue, task, streamVars, logged>>
      /\ emitted' \in Event
  BY DEF Emit, EmitLate, CallSoon, StreamTypeOK
<1>2. StreamTypeOK'
  BY <1>1 DEF StreamTypeOK, streamVars
<1>3. ClosedOnce'
  BY <1>1 DEF ClosedOnce, StreamTypeOK
<1>4. NothingOvertakes'
  <2> SUFFICES ASSUME Streaming PROVE NothingOvertakes'
    BY <1>1 DEF NothingOvertakes, Streaming, streamVars
  <2>1. PostedSoFar' = PostedSoFar + 1 /\ Taken' = Taken
    BY <1>1 DEF PostedSoFar, Taken, streamVars, StreamTypeOK
  <2>2. /\ Len(callbacks') = Len(callbacks) + 1
        /\ \A i \in 1..Len(callbacks) : callbacks'[i] = callbacks[i]
        /\ callbacks'[Len(callbacks) + 1] = emitted + 1
    BY <1>1 DEF StreamTypeOK
  <2>3. Posted(PostedSoFar + 1) = emitted + 1
    <3>1. CASE closing = {}
      BY <3>1 DEF Posted, PostedSoFar
    <3>2. CASE closing # {}
      <4>1. PICK c \in closing : closing = {c}
        BY <3>2 DEF ClosedOnce
      <4>2. c \in Nat /\ emitted \in Nat /\ c <= emitted
        BY <4>1 DEF ClosedOnce, StreamTypeOK
      <4>3. PostedSoFar + 1 = emitted + 2
        BY <3>2, <4>2 DEF PostedSoFar
      <4> QED
        BY <4>1, <4>2, <4>3 DEF Posted
    <3> QED
      BY <3>1, <3>2
  <2>4. \A n : Posted(n)' = Posted(n)
    BY <1>1 DEF Posted
  <2>5. Taken + Len(queue) + (Len(callbacks) + 1) = PostedSoFar + 1
    BY Counts DEF NothingOvertakes
  <2>6. \A i \in 1..(Len(callbacks) + 1) :
          i \in 1..Len(callbacks) \/ i = Len(callbacks) + 1
    BY Counts
  <2>7. UNCHANGED <<queue, closing>>
    BY <1>1
  <2>8. \A i \in 1..(Len(callbacks) + 1) :
          callbacks'[i] = Posted(Taken + Len(queue) + i)
    BY <2>2, <2>3, <2>5, <2>6 DEF NothingOvertakes
  <2> QED
    BY <2>1, <2>2, <2>4, <2>5, <2>7, <2>8 DEF NothingOvertakes
<1> QED
  BY <1>1, <1>2, <1>3, <1>4
  DEF SendsTheNext, AllSentBehind, EventsInOrder, streamVars
\* The sentinel is posted behind all that was reported.
LEMMA ClosingKeeps ==
  ASSUME OrderInvariant, PostSentinel
  PROVE  OrderInvariant'
<1> USE DEF OrderInvariant
<1>1. /\ thread # "working" /\ closing = {} /\ closing' = {emitted}
      /\ callbacks' = Append(callbacks, 0)
      /\ UNCHANGED <<thread, emitted, queue, task, streamVars, logged>>
  BY DEF PostSentinel, CallSoon
<1>2. StreamTypeOK'
  BY <1>1 DEF StreamTypeOK, streamVars
<1>3. ClosedOnce'
  BY <1>1, Counts DEF ClosedOnce
<1>4. NothingOvertakes'
  <2> SUFFICES ASSUME Streaming PROVE NothingOvertakes'
    BY <1>1 DEF NothingOvertakes, Streaming, streamVars
  <2>1. PostedSoFar = emitted /\ PostedSoFar' = emitted + 1 /\ Taken' = Taken
    BY <1>1 DEF PostedSoFar, Taken, streamVars
  <2>2. /\ Len(callbacks') = Len(callbacks) + 1
        /\ \A i \in 1..Len(callbacks) : callbacks'[i] = callbacks[i]
        /\ callbacks'[Len(callbacks) + 1] = 0
    BY <1>1 DEF StreamTypeOK
  <2>3. Taken + Len(queue) + Len(callbacks) = emitted
    BY <2>1 DEF NothingOvertakes
  <2>4. \A n \in 0..emitted : Posted(n) = n /\ Posted(n)' = n
    BY <1>1, Counts DEF Posted
  <2>5. Posted(emitted + 1)' = 0
    BY <1>1, Counts DEF Posted
  <2>6. \A i \in 1..Len(queue) : queue'[i] = Posted(Taken + i)'
    <3> TAKE i \in 1..Len(queue)
    <3>1. Taken + i \in 0..emitted
      BY <2>3, Counts
    <3>2. queue[i] = Taken + i
      BY <2>4, <3>1 DEF NothingOvertakes
    <3>3. Posted(Taken + i)' = Taken + i
      BY <2>1, <2>4, <3>1
    <3> QED
      BY <1>1, <3>2, <3>3
  <2>7. \A i \in 1..Len(callbacks') :
          callbacks'[i] = Posted(Taken + Len(queue) + i)'
    <3> TAKE i \in 1..Len(callbacks')
    <3>1. CASE i \in 1..Len(callbacks)
      <4>1. Taken + Len(queue) + i \in 0..emitted
        BY <2>3, <3>1, Counts
      <4>2. callbacks[i] = Taken + Len(queue) + i
        BY <2>4, <3>1, <4>1 DEF NothingOvertakes
      <4>3. Posted(Taken + Len(queue) + i)' = Taken + Len(queue) + i
        BY <1>1, <2>1, <2>4, <4>1
      <4> QED
        BY <2>2, <3>1, <4>2, <4>3
    <3>2. CASE i = Len(callbacks) + 1
      <4>1. Taken' + Len(queue') + i = emitted + 1
        BY <1>1, <2>1, <2>3, <3>2, Counts
      <4> QED
        BY <1>1, <2>2, <2>5, <3>2, <4>1
    <3> QED
      BY <2>2, <3>1, <3>2, Counts
  <2>8. Taken' + Len(queue') + Len(callbacks') = PostedSoFar'
    BY <1>1, <2>1, <2>2, <2>3, Counts
  <2>9. \A c \in closing' : Taken' <= c
    BY <1>1, <2>1, <2>3, Counts
  <2> QED
    BY <1>1, <2>6, <2>7, <2>8, <2>9 DEF NothingOvertakes
<1> QED
  BY <1>1, <1>2, <1>3, <1>4, Counts
  DEF SendsTheNext, AllSentBehind, EventsInOrder, streamVars

\* The event loop moves what is posted on to the stream's queue.
LEMMA CallbackKeeps ==
  ASSUME OrderInvariant, RunCallback
  PROVE  OrderInvariant'
<1> USE DEF OrderInvariant
<1>1. /\ callbacks # << >>
      /\ queue' = Append(queue, Head(callbacks)) /\ callbacks' = Tail(callbacks)
      /\ UNCHANGED <<thread, emitted, closing, task, streamVars, logged>>
  BY DEF RunCallback
<1>2. /\ Len(queue') = Len(queue) + 1 /\ Len(callbacks') = Len(callbacks) - 1
      /\ \A i \in 1..Len(queue) : queue'[i] = queue[i]
      /\ queue'[Len(queue) + 1] = callbacks[1]
      /\ \A i \in 1..(Len(callbacks) - 1) : callbacks'[i] = callbacks[i + 1]
      /\ Len(callbacks) >= 1
  BY <1>1 DEF StreamTypeOK
<1>3. queue' \in Seq(Event \union {Sentinel}) /\ callbacks' \in Seq(Event \union {Sentinel})
  BY <1>1 DEF StreamTypeOK
<1>4. StreamTypeOK'
  BY <1>1, <1>3 DEF StreamTypeOK, streamVars
<1>5. NothingOvertakes'
  <2> SUFFICES ASSUME Streaming PROVE NothingOvertakes'
    BY <1>1 DEF NothingOvertakes, Streaming, streamVars
  <2>1. /\ PostedSoFar' = PostedSoFar /\ Taken' = Taken /\ closing' = closing
        /\ \A n : Posted(n)' = Posted(n)
    BY <1>1 DEF PostedSoFar, Taken, Posted, streamVars
  <2>2. \A i \in 1..Len(queue') : queue'[i] = Posted(Taken + i)
    <3> TAKE i \in 1..Len(queue')
    <3>1. CASE i \in 1..Len(queue)
      BY <1>2, <3>1 DEF NothingOvertakes
    <3>2. CASE i = Len(queue) + 1
      <4>1. callbacks[1] = Posted(Taken + Len(queue) + 1)
        BY <1>2, Counts DEF NothingOvertakes
      <4>2. Taken + Len(queue) + 1 = Taken + i
        BY <3>2, Counts
      <4> QED
        BY <1>2, <3>2, <4>1, <4>2
    <3> QED
      BY <1>2, <3>1, <3>2, Counts
  <2>3. \A i \in 1..Len(callbacks') :
          callbacks'[i] = Posted(Taken + Len(queue') + i)
    <3> TAKE i \in 1..Len(callbacks')
    <3>1. i \in 1..(Len(callbacks) - 1) /\ i + 1 \in 1..Len(callbacks)
      BY <1>2, Counts
    <3>2. callbacks[i + 1] = Posted(Taken + Len(queue) + (i + 1))
      BY <3>1 DEF NothingOvertakes
    <3>3. Taken + Len(queue) + (i + 1) = Taken + Len(queue') + i
      BY <1>2, <3>1, Counts
    <3> QED
      BY <1>2, <3>1, <3>2, <3>3
  <2>4. Taken' + Len(queue') + Len(callbacks') = PostedSoFar'
    BY <1>2, <2>1, Counts DEF NothingOvertakes
  <2> QED
    BY <2>1, <2>2, <2>3, <2>4 DEF NothingOvertakes
<1> QED
  BY <1>1, <1>4, <1>5
  DEF ClosedOnce, SendsTheNext, AllSentBehind, EventsInOrder, streamVars

\* The queue's head is what was posted after what the stream has taken.
LEMMA HeadIsNext ==
  ASSUME OrderInvariant, Streaming, queue # << >>
  PROVE  /\ Head(queue) = Posted(Taken + 1)
         /\ Len(queue) >= 1
         /\ Head(queue) # Sentinel =>
              Head(queue) = Taken + 1 /\ \A c \in closing : Taken + 1 <= c
         /\ Head(queue) = Sentinel => closing # {} /\ \A c \in closing : Taken >= c
<1>1. Head(queue) = queue[1] /\ Len(queue) >= 1
  BY DEF OrderInvariant, StreamTypeOK
<1>2. Head(queue) = Posted(Taken + 1)
  BY <1>1, Counts DEF OrderInvariant, NothingOvertakes
<1>3. \A c, d \in closing : c = d /\ Taken <= c
  BY DEF OrderInvariant, ClosedOnce, NothingOvertakes
<1> QED
  BY <1>1, <1>2, <1>3, Counts DEF Posted, OrderInvariant

\* What is left of the queue follows what was taken of it.
LEMMA TailFollows ==
  ASSUME OrderInvariant, Streaming, queue # << >>
  PROVE  /\ Tail(queue) \in Seq(Event \union {Sentinel})
         /\ Len(Tail(queue)) = Len(queue) - 1
         /\ \A i \in 1..Len(Tail(queue)) : Tail(queue)[i] = Posted(Taken + 1 + i)
<1>1. /\ Tail(queue) \in Seq(Event \union {Sentinel})
      /\ Len(Tail(queue)) = Len(queue) - 1
      /\ \A i \in 1..(Len(queue) - 1) : Tail(queue)[i] = queue[i + 1]
  BY DEF OrderInvariant, StreamTypeOK
<1>2. ASSUME NEW i \in 1..(Len(queue) - 1)
      PROVE  Tail(queue)[i] = Posted(Taken + 1 + i)
  <2>1. i + 1 \in 1..Len(queue) /\ Taken + (i + 1) = Taken + 1 + i
    BY Counts DEF OrderInvariant
  <2>2. queue[i + 1] = Posted(Taken + (i + 1))
    BY <2>1 DEF OrderInvariant, NothingOvertakes
  <2> QED
    BY <1>1, <2>1, <2>2
<1> QED
  BY <1>1, <1>2

\* The stream takes the next event, to send it.
LEMMA TakeEventKeeps ==
  ASSUME OrderInvariant, TakeEvent
  PROVE  OrderInvariant'
<1> USE DEF OrderInvariant
<1>1. /\ stream = "get" /\ stream' = "send" /\ queue # << >>
      /\ Head(queue) # Sentinel
      /\ sending' = {Head(queue)} /\ queue' = Tail(queue)
      /\ UNCHANGED <<threadVars, task, received, reported, watched, logged>>
      /\ Streaming /\ Streaming'
  BY DEF TakeEvent, Streaming
<1>2. /\ Head(queue) = Taken + 1 /\ Len(queue) >= 1
      /\ \A c \in closing : Taken + 1 <= c
  BY <1>1, HeadIsNext
<1>3. Taken = Len(received) /\ Taken' = Taken + 1
  BY <1>1 DEF SendsTheNext, Taken
<1>4. Head(queue) \in Event
  BY <1>1 DEF StreamTypeOK
<1>5. StreamTypeOK'
  BY <1>1, <1>4, TailFollows DEF StreamTypeOK, threadVars
<1>6. NothingOvertakes'
  <2>1. PostedSoFar' = PostedSoFar /\ \A n : Posted(n)' = Posted(n)
    BY <1>1 DEF PostedSoFar, Posted, threadVars
  <2>2. Taken' + Len(queue') + Len(callbacks') = PostedSoFar'
    BY <1>1, <1>2, <1>3, <2>1, TailFollows, Counts DEF NothingOvertakes, threadVars
  <2>3. \A i \in 1..Len(queue') : queue'[i] = Posted(Taken + 1 + i)
    BY <1>1, TailFollows
  <2>4. Taken + 1 + Len(queue') = Taken + Len(queue)
    BY <1>1, TailFollows, Counts
  <2>5. \A i \in 1..Len(callbacks) : callbacks[i] = Posted(Taken + Len(queue) + i)
    BY <1>1 DEF NothingOvertakes
  <2>6. \A i \in 1..Len(callbacks') : callbacks'[i] = Posted(Taken + 1 + Len(queue') + i)
    BY <1>1, <2>4, <2>5 DEF threadVars
  <2> QED
    BY <1>1, <1>2, <1>3, <2>1, <2>2, <2>3, <2>6 DEF NothingOvertakes, threadVars
<1> QED
  BY <1>1, <1>2, <1>3, <1>5, <1>6
  DEF ClosedOnce, SendsTheNext, AllSentBehind, EventsInOrder, threadVars

\* It comes to the sentinel after all the events ahead of it.
LEMMA TakeSentinelKeeps ==
  ASSUME OrderInvariant, TakeSentinel
  PROVE  OrderInvariant'
<1> USE DEF OrderInvariant
<1>1. /\ stream = "get" /\ stream' = "await" /\ queue # << >>
      /\ Head(queue) = Sentinel /\ queue' = Tail(queue)
      /\ UNCHANGED <<threadVars, task, sending, received, reported, watched, logged>>
      /\ Streaming /\ ~Streaming'
  BY DEF TakeSentinel, Streaming
<1>2. closing # {} /\ \A c \in closing : Taken >= c
  BY <1>1, HeadIsNext
<1>3. sending = {} /\ Taken = Len(received)
  BY <1>1 DEF SendsTheNext, Taken
<1>4. StreamTypeOK'
  BY <1>1, TailFollows DEF StreamTypeOK, threadVars
<1> QED
  BY <1>1, <1>2, <1>3, <1>4
  DEF ClosedOnce, NothingOvertakes, SendsTheNext, AllSentBehind, EventsInOrder,
      threadVars

\* The client is sent the event taken, or a keep-alive.
LEMMA SendEventKeeps ==
  ASSUME OrderInvariant, SendEvent
  PROVE  OrderInvariant'
<1> USE DEF OrderInvariant
<1>1. /\ stream = "send" /\ stream' = "get"
      /\ received' = received \o SetToSeq(sending) /\ sending' = {}
      /\ UNCHANGED <<threadVars, queue, task, reported, watched, logged>>
      /\ Streaming /\ Streaming'
  BY DEF SendEvent, Streaming
<1>2. /\ received' \in Seq(Event)
      /\ Len(received') = Taken
      /\ Len(received') >= Len(received)
      /\ \A i \in 1..Len(received') : received'[i] = i
  <2>1. CASE sending = {}
    <3>1. received' = received
      BY <1>1, <2>1, NothingToSend DEF StreamTypeOK
    <3> QED
      BY <2>1, <3>1, Counts DEF Taken, StreamTypeOK, EventsInOrder
  <2>2. CASE sending # {}
    <3>1. sending = {Len(received) + 1} /\ Len(received) + 1 \in Event
      BY <1>1, <2>2 DEF SendsTheNext, StreamTypeOK
    <3>2. received' = received \o <<Len(received) + 1>>
      BY <1>1, <3>1, OneToSend
    <3> DEFINE next == Len(received) + 1
    <3>3. received \in Seq(Event) /\ next \in Event /\ received' = received \o <<next>>
      BY <3>1, <3>2 DEF StreamTypeOK
    <3> HIDE DEF next
    <3>4. received' = Append(received, next)
      BY <3>3
    <3>5. /\ received' \in Seq(Event) /\ Len(received') = Len(received) + 1
          /\ \A i \in 1..Len(received) : received'[i] = received[i]
          /\ received'[Len(received) + 1] = next
      BY <3>3, <3>4
    <3>6. /\ received' \in Seq(Event) /\ Len(received') = Len(received) + 1
          /\ \A i \in 1..Len(received) : received'[i] = received[i]
          /\ received'[Len(received) + 1] = Len(received) + 1
      BY <3>5 DEF next
    <3>7. \A i \in 1..Len(received') : received'[i] = i
      <4>1. \A i \in 1..Len(received) : received'[i] = i
        BY <3>6 DEF EventsInOrder
      <4>2. Len(received) \in Nat
        BY Counts
      <4> QED
        BY <3>6, <4>1, <4>2
    <3> QED
      BY <2>2, <3>6, <3>7, Counts DEF Taken
  <2> QED
    BY <2>1, <2>2
<1>3. StreamTypeOK'
  BY <1>1, <1>2 DEF StreamTypeOK, threadVars
<1>4. NothingOvertakes'
  <2>1. PostedSoFar' = PostedSoFar /\ \A n : Posted(n)' = Posted(n)
    BY <1>1 DEF PostedSoFar, Posted, threadVars
  <2>2. Taken' = Taken
    BY <1>1, <1>2 DEF Taken
  <2> QED
    BY <1>1, <2>1, <2>2 DEF NothingOvertakes, threadVars
<1>5. AllSentBehind'
  BY <1>1, <1>2, Counts DEF AllSentBehind, threadVars
<1>6. EventsInOrder'
  BY <1>1, <1>2, <1>5 DEF EventsInOrder, AllSentBehind
<1> QED
  BY <1>1, <1>3, <1>4, <1>5, <1>6 DEF ClosedOnce, SendsTheNext, threadVars

\* The other steps take nothing from the queue and post nothing.
LEMMA OtherStepsKeep ==
  ASSUME OrderInvariant,
         \/ EndWork \/ Resolve \/ LogOutcome \/ SendAccepted \/ KeepAlive
         \/ AwaitTask \/ AwaitCrashed \/ SendFinal \/ Disconnect
         \/ UNCHANGED eventVars
  PROVE  OrderInvariant'
<1> USE DEF OrderInvariant
<1>1. /\ UNCHANGED <<emitted, closing, callbacks, queue, received>>
      /\ Streaming' => Streaming /\ sending' = sending
      /\ thread' = "working" => thread = "working"
      /\ StreamTypeOK'
      /\ SendsTheNext'
      /\ stream' \in {"await", "final"} \/ reported' # "none" =>
           stream \in {"await", "final"} \/ reported # "none"
  <2> USE DEF Streaming, SendsTheNext, StreamTypeOK, threadVars, streamVars
  <2>1. CASE EndWork
    BY <2>1 DEF EndWork
  <2>2. CASE Resolve
    BY <2>2 DEF Resolve
  <2>3. CASE LogOutcome
    BY <2>3 DEF LogOutcome
  <2>4. CASE SendAccepted
    BY <2>4 DEF SendAccepted
  <2>5. CASE KeepAlive
    BY <2>5 DEF KeepAlive
  <2>6. CASE AwaitTask
    BY <2>6 DEF AwaitTask
  <2>7. CASE AwaitCrashed
    BY <2>7 DEF AwaitCrashed
  <2>8. CASE SendFinal
    BY <2>8 DEF SendFinal
  <2>9. CASE Disconnect
    BY <2>9 DEF Disconnect
  <2>10. CASE UNCHANGED eventVars
    BY <2>10 DEF eventVars
  <2> QED
    BY <2>1, <2>2, <2>3, <2>4, <2>5, <2>6, <2>7, <2>8, <2>9, <2>10
<1>2. NothingOvertakes'
  <2>1. /\ PostedSoFar' = PostedSoFar /\ \A n : Posted(n)' = Posted(n)
        /\ Streaming' => Taken' = Taken
    BY <1>1 DEF PostedSoFar, Posted, Taken
  <2> QED
    BY <1>1, <2>1 DEF NothingOvertakes
<1> QED
  BY <1>1, <1>2 DEF ClosedOnce, AllSentBehind, EventsInOrder

\* What is posted, queued, sent and told stays in order in every reachable state
\* (_StreamedWork and _work_events).
THEOREM OrderHolds == StreamSpec => []OrderInvariant
<1>1. OrderInvariant /\ [StreamNext]_eventVars => OrderInvariant'
  BY ReportKeeps, ClosingKeeps, CallbackKeeps, TakeEventKeeps, TakeSentinelKeeps,
     SendEventKeeps, OtherStepsKeep
  DEF StreamNext, ThreadStep, LoopStep, StreamStep, StreamEnded
<1> QED
  BY OrderInit, <1>1, PTL DEF StreamSpec

\* The client is sent the events in the order they were reported, none skipped
\* or repeated, and the outcome only after those ahead of the sentinel.
THEOREM EventsAreInOrder == StreamSpec => []EventsInOrder
<1>1. OrderInvariant => EventsInOrder
  BY DEF OrderInvariant
<1> QED
  BY <1>1, OrderHolds, PTL
==============================================================================
