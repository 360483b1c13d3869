---------------------------- MODULE XhElfLookup ----------------------------
(***************************************************************************)
(* xh_elf_find_symidx_by_name: the index of a symbol in the dynamic symbol *)
(* table, found through DT_HASH or through DT_GNU_HASH.                    *)
(*                                                                         *)
(* The two hash functions are any function from names to numbers: every    *)
(* pattern of collisions is tried.  What the linker writes (the order of   *)
(* the symbols, buckets, chains, the Bloom filter) is modelled from the    *)
(* format; the look-up reads nothing else.                                 *)
(***************************************************************************)
EXTENDS Naturals, FiniteSets

CONSTANTS Names,          \* symbols of the library
          Absent,         \* a symbol it does not have
          Hashes,         \* values of the hash functions
          elfclass_bits,  \* bits in a word of the Bloom filter
          BucketCounts, BloomSizes, BloomShifts

LookupAssumption ==
  /\ Absent \notin Names /\ IsFiniteSet(Names)
  /\ Hashes \subseteq Nat
  /\ elfclass_bits \in Nat \ {0}
  /\ BucketCounts \subseteq Nat \ {0} /\ BloomSizes \subseteq Nat \ {0}
  /\ BloomShifts \subseteq Nat

Count == Cardinality(Names)

Indexes == 1..Count  \* 0 is STN_UNDEF

NotFound == Count + 1

VARIABLES symtab,      \* name at each index
          hash,        \* hash of each name
          symoffset,   \* first index in the GNU hash table
          bucket_cnt, bloom_sz, bloom_shift,
          gnu,         \* is_use_gnu_hash
          symbol, symidx  \* the symbol looked up, and the answer

vars == <<symtab, hash, symoffset, bucket_cnt, bloom_sz, bloom_shift, gnu,
          symbol, symidx>>

-----------------------------------------------------------------------------
(* What the linker writes.                                                 *)

Bucket(i) == hash[symtab[i]] % bucket_cnt

\* DT_HASH: the chain of a bucket links its symbols, the last one first.
InBucket(b) == {i \in Indexes : Bucket(i) = b}

Last(S) == IF S = {} THEN 0 ELSE CHOOSE i \in S : \A j \in S : j <= i

bucket(b) == Last(InBucket(b))

chain(i) == Last({j \in InBucket(Bucket(i)) : j < i})

\* DT_GNU_HASH: the symbols from symoffset on are sorted by bucket, and a
\* chain hash is odd where a bucket ends.
Hashed == symoffset..Count

SortedByBucket == \A i, j \in Hashed : i < j => Bucket(i) <= Bucket(j)

gnu_bucket(b) ==
  LET S == {i \in Hashed : Bucket(i) = b}
  IN  IF S = {} THEN 0 ELSE CHOOSE i \in S : \A j \in S : i <= j

EndsBucket(i) == i = Count \/ Bucket(i + 1) # Bucket(i)

gnu_chain(i) ==
  2 * (hash[symtab[i]] \div 2) + (IF EndsBucket(i) THEN 1 ELSE 0)

\* A bit of the Bloom filter: its word and its place in the word.
BitsOf(h) ==
  {<<(h \div elfclass_bits) % bloom_sz, h % elfclass_bits>>,
   <<(h \div elfclass_bits) % bloom_sz, (h \div 2^bloom_shift) % elfclass_bits>>}

bloom == UNION {BitsOf(hash[symtab[i]]) : i \in Hashed}

-----------------------------------------------------------------------------
(* xh_elf_hash_lookup                                                      *)

HashLookup(name) ==
  LET walk[k \in 0..Count] == IF k = 0 THEN bucket(hash[name] % bucket_cnt)
                              ELSE IF walk[k - 1] = 0 THEN 0
                              ELSE chain(walk[k - 1])
      found == {k \in 0..Count : walk[k] # 0 /\ symtab[walk[k]] = name}
  IN  IF found = {} THEN NotFound
      ELSE walk[CHOOSE k \in found : \A m \in found : k <= m]

-----------------------------------------------------------------------------
(* xh_elf_gnu_hash_lookup                                                  *)

\* A symbol of a bucket is the one looked for: the hashes agree but for the
\* lowest bit, and the names agree.
Same(h, name, i) ==
  /\ h \div 2 = gnu_chain(i) \div 2
  /\ symtab[i] = name

\* Where the loop over a bucket that begins at i stops without an answer.
StopsAt(i) ==
  CHOOSE k \in i..Count : gnu_chain(k) % 2 = 1
                          /\ \A m \in i..(k - 1) : gnu_chain(m) % 2 = 0

LookupDef(name) ==
  LET h == hash[name]
      first == gnu_bucket(h % bucket_cnt)
      found == {i \in first..StopsAt(first) : Same(h, name, i)}
  IN  IF ~ (BitsOf(h) \subseteq bloom) \/ first < symoffset \/ found = {}
        THEN NotFound
        ELSE CHOOSE i \in found : \A j \in found : i <= j

\* Index 0 has no name.
LookupUndef(name) ==
  LET found == {i \in 1..(symoffset - 1) : symtab[i] = name}
  IN  IF found = {} THEN NotFound
      ELSE CHOOSE i \in found : \A j \in found : i <= j

GnuHashLookup(name) ==
  IF LookupDef(name) # NotFound THEN LookupDef(name) ELSE LookupUndef(name)

-----------------------------------------------------------------------------
\* Every table a linker may write for the symbols.
Init ==
  /\ symtab \in [Indexes -> Names]
  /\ \A i, j \in Indexes : symtab[i] = symtab[j] => i = j
  /\ hash \in [Names \cup {Absent} -> Hashes]
  /\ symoffset \in 1..(Count + 1)
  /\ bucket_cnt \in BucketCounts
  /\ bloom_sz \in BloomSizes /\ bloom_shift \in BloomShifts
  /\ SortedByBucket
  /\ gnu \in BOOLEAN
  /\ symbol = Absent /\ symidx = NotFound

\* Mutant: the symbols before symoffset are not searched.
FindDefOnly(name) == IF gnu THEN LookupDef(name) ELSE HashLookup(name)

FindSymidx(name) == IF gnu THEN GnuHashLookup(name) ELSE HashLookup(name)

Find(name) ==
  /\ symbol' = name
  /\ symidx' = FindSymidx(name)
  /\ UNCHANGED <<symtab, hash, symoffset, bucket_cnt, bloom_sz, bloom_shift,
                 gnu>>

Next == \E name \in Names \cup {Absent} : Find(name)

Spec == Init /\ [][Next]_vars

-----------------------------------------------------------------------------
\* Whatever collides, and whether the symbol is imported or defined, the
\* index returned is that of the symbol with the name, and none is returned
\* when there is no such symbol.
LookupExact ==
  IF symbol \in Names
    THEN symidx \in Indexes /\ symtab[symidx] = symbol
    ELSE symidx = NotFound
=============================================================================
