----------------------------- MODULE SigningKeys -----------------------------
(***************************************************************************)
(* The keys bearer tokens are verified with (auth.py): each issuer's       *)
(* client keeps the key set it last fetched for a while, and in front of   *)
(* the clients TokenValidator keeps the keys it used, by issuer, key id    *)
(* and algorithm, for longer.                                              *)
(*                                                                         *)
(* The issuers and PyJWT's client are external: an issuer publishes at     *)
(* least one key, never two of one id, and takes no key back; the client   *)
(* fetches a key set it does not have, that is older than SetLifespan or   *)
(* that does not name the id it looks for, and forgets it if that fails.   *)
(* Time is counted in ticks, and an age no longer than anything asks.      *)
(***************************************************************************)
EXTENDS Naturals, Sequences, SequencesExt, FiniteSets

CONSTANTS
  Issuer,
  Key,          \* the keys they ever publish
  IssuerOf,     \* the issuer of each key
  KidOf,        \* its key id, which another key may have had before
  KeyTTL,       \* SIGNING_KEY_CACHE_TTL_SECONDS
  SetLifespan,  \* the lifespan of a client's key set
  CacheSize     \* SIGNING_KEY_CACHE_MAX_SIZE

ASSUME KeysAssumption ==
  /\ IssuerOf \in [Key -> Issuer]
  /\ KeyTTL \in Nat \ {0}
  /\ SetLifespan \in Nat
  /\ CacheSize \in Nat \ {0}

VARIABLES
  published,  \* the keys the issuers publish
  withdrawn,  \* the keys they have published and do no longer
  since,      \* how long ago a key was withdrawn (properties only)
  keySet,     \* per issuer, the key set its client has
  cache       \* the keys used, the least recently used first

keyVars == <<published, withdrawn, since, keySet, cache>>

\* How long a key can be in use after it was withdrawn.
Horizon == KeyTTL + SetLifespan

NoSet == [keys |-> {}, age |-> SetLifespan + 1]

KeysTypeOK ==
  /\ published \subseteq Key
  /\ withdrawn \subseteq Key \ published
  /\ since \in [Key -> 0..Horizon]
  /\ keySet \in [Issuer -> [keys : SUBSET Key, age : 0..(SetLifespan + 1)]]
  /\ cache \in Seq([key : Key, age : 0..KeyTTL])
  /\ Len(cache) <= CacheSize

KeysInit(first) ==
  /\ published = first
  /\ withdrawn = {}
  /\ since = [k \in Key |-> 0]
  /\ keySet = [i \in Issuer |-> NoSet]
  /\ cache = <<>>

-----------------------------------------------------------------------------
(* The issuers, and time *)

SameId(k, l) == IssuerOf[k] = IssuerOf[l] /\ KidOf[k] = KidOf[l]

\* A new key takes the place of the one that had its id.
Publish(k) ==
  LET replaced == {l \in published : SameId(k, l)}
  IN  /\ k \notin published \union withdrawn
      /\ published' = (published \ replaced) \union {k}
      /\ withdrawn' = withdrawn \union replaced
      /\ UNCHANGED <<since, keySet, cache>>

Withdraw(k) ==
  /\ k \in published
  /\ \E l \in published \ {k} : IssuerOf[l] = IssuerOf[k]
  /\ published' = published \ {k}
  /\ withdrawn' = withdrawn \union {k}
  /\ UNCHANGED <<since, keySet, cache>>

Aged(n, limit) == IF n < limit THEN n + 1 ELSE n

Tick ==
  /\ since' = [k \in Key |-> IF k \in withdrawn THEN Aged(since[k], Horizon)
                                                ELSE since[k]]
  /\ keySet' = [i \in Issuer |->
                  [keySet[i] EXCEPT !.age = Aged(@, SetLifespan + 1)]]
  /\ cache' = [n \in DOMAIN cache |-> [cache[n] EXCEPT !.age = Aged(@, KeyTTL)]]
  /\ UNCHANGED <<published, withdrawn>>

-----------------------------------------------------------------------------
(* Looking up the key of a token: what is found, in a set that is empty if *)
(* nothing is, and what the client and the cache are left with.            *)

\* Mutant: the cache is told only the issuer.
SameIssuer(k, l) == IssuerOf[k] = IssuerOf[l]

\* What the cache calls a key; the algorithm is the same for each key of an id.
SameEntry(k, l) == SameId(k, l)

Places(k) == {n \in DOMAIN cache : SameEntry(cache[n].key, k)}
Fresh(k) == {cache[n] : n \in {m \in Places(k) : cache[m].age < KeyTTL}}

\* An entry that has expired is deleted by the lookup that comes upon it.
Others(k) == IF Places(k) = {} THEN cache
             ELSE RemoveAt(cache, CHOOSE n \in Places(k) : TRUE)

\* Mutant: a key in use is kept for as long as it is used.
RenewedEntry(e) == [e EXCEPT !.age = 0]

\* A hit makes an entry the most recently used and no younger.
HitEntry(e) == e

Hits(k) ==
  {[found |-> {e.key}, cache |-> Append(Others(k), HitEntry(e)),
    keySet |-> keySet[IssuerOf[k]]] : e \in Fresh(k)}

\* Beyond its size the cache evicts the least recently used.
Remember(k) ==
  LET entries == Append(Others(k), [key |-> k, age |-> 0])
  IN  IF Len(entries) > CacheSize THEN Tail(entries) ELSE entries

WithId(keys, k) == {l \in keys : SameId(k, l)}
InSet(k) ==
  IF keySet[IssuerOf[k]].age > SetLifespan THEN {}
                                           ELSE WithId(keySet[IssuerOf[k]].keys, k)

FromSet(k) ==
  {[found |-> {l}, cache |-> Remember(l), keySet |-> keySet[IssuerOf[k]]] :
     l \in InSet(k)}

\* What the issuer publishes as it is asked.
Offered(i) == {k \in published : IssuerOf[k] = i}

Fetch(k) ==
  LET offered == Offered(IssuerOf[k])
      found == WithId(offered, k)
  IN  {[found |-> found,
        cache |-> IF found = {} THEN Others(k) ELSE Remember(CHOOSE l \in found : TRUE),
        keySet |-> [keys |-> offered, age |-> 0]]}

FetchFails(k) == {[found |-> {}, cache |-> Others(k), keySet |-> NoSet]}

Lookups(k) ==
  IF Fresh(k) # {} THEN Hits(k)
  ELSE IF InSet(k) # {} THEN FromSet(k)
  ELSE Fetch(k) \union FetchFails(k)

Lookup(k, result) ==
  /\ cache' = result.cache
  /\ keySet' = [keySet EXCEPT ![IssuerOf[k]] = result.keySet]
  /\ UNCHANGED <<published, withdrawn, since>>
==============================================================================
