----------------------------- MODULE ConfigProofs ------------------------------
(***************************************************************************)
(* Theorems about the start, for values of any length with any names and   *)
(* numbers: a proxy that runs has each of its keys once, in the order in   *)
(* which they are named, and each limit reaches the key it is written for. *)
(***************************************************************************)
EXTENDS Config, FiniteSetTheorems, SequenceTheorems, TLAPS

Pieces == KeysIn(env)

\* The number of pieces read so far, and the names among them.
Done  == Len(Pieces) - Len(rest)
Named == UpTo(Done)

ConfigTypeOK ==
    /\ Pieces \in Seq(Names \cup {Blank})
    /\ rest \in Seq(Names \cup {Blank})
    /\ keys \in Seq(Names)
    /\ duplicate_keys \in Nat
    /\ pc \in {"reading", "binding", "running", "exit_1", "exit_2"}

\* What is left is the end of the value; a proxy that runs has read it all.
RestIsLeft ==
    /\ Len(rest) <= Len(Pieces)
    /\ \A m \in 1..Len(rest) : rest[m] = Pieces[Done + m]
    /\ pc = "running" \/ pc = "binding" => rest = <<>> /\ keys # <<>>

\* The keys are the names read so far, each once, in the order of their first
\* mention; the other mentions are counted.
KeysAreNamed ==
    /\ \A i \in DOMAIN keys : \E p \in Named : Pieces[p] = keys[i]
    /\ \A p \in Named : \E i \in DOMAIN keys : Pieces[p] = keys[i]
    /\ \A i, j \in DOMAIN keys :
         i < j => keys[i] # keys[j] /\ FirstNamedBefore(keys[i], keys[j])
    /\ Len(keys) + duplicate_keys = Cardinality(Named)

\* Up to the first repeated name, the n-th name is the n-th key.
PlacesAreKept ==
    /\ Named \cap Repeats = {} => duplicate_keys = 0
    /\ \A p \in Named : UpTo(p) \cap Repeats = {} =>
         NameNo(p) \in DOMAIN keys /\ keys[NameNo(p)] = Pieces[p]

ConfigInv == ConfigTypeOK /\ RestIsLeft /\ KeysAreNamed /\ PlacesAreKept

-----------------------------------------------------------------------------
(* The names up to a place.                                                *)

LEMMA MentionsType ==
  ASSUME ConfigTypeOK
  PROVE  /\ Mentions \subseteq 1..Len(Pieces) /\ Len(Pieces) \in Nat
         /\ IsFiniteSet(Mentions)
         /\ \A p \in 1..Len(Pieces) : p \in Mentions <=> Pieces[p] # Blank
<1>0. Mentions = {p \in DOMAIN Pieces : Pieces[p] # Blank}
  BY DEF Mentions, Pieces
<1>1. Mentions \subseteq 1..Len(Pieces) /\ Len(Pieces) \in Nat
  BY <1>0 DEF ConfigTypeOK
<1>2. IsFiniteSet(1..Len(Pieces))
  BY <1>1, FS_Interval
<1>3. IsFiniteSet(Mentions)
  BY <1>1, <1>2, FS_Subset
<1>4. \A p \in 1..Len(Pieces) : p \in Mentions <=> Pieces[p] # Blank
  BY <1>0 DEF ConfigTypeOK
<1>. QED BY <1>1, <1>3, <1>4

LEMMA UpToType ==
  ASSUME ConfigTypeOK, NEW p \in Int
  PROVE  UpTo(p) \subseteq Mentions /\ IsFiniteSet(UpTo(p)) /\ NameNo(p) \in Nat
<1>1. UpTo(p) \subseteq Mentions
  BY DEF UpTo
<1>2. IsFiniteSet(UpTo(p))
  BY <1>1, MentionsType, FS_Subset
<1>. QED BY <1>1, <1>2, FS_CardinalityType DEF NameNo

\* One piece further there is one name more, or none.
LEMMA UpToNext ==
  ASSUME ConfigTypeOK, NEW n \in Nat, n + 1 \in 1..Len(Pieces)
  PROVE  /\ Pieces[n + 1] = Blank => UpTo(n + 1) = UpTo(n)
         /\ Pieces[n + 1] # Blank => /\ UpTo(n + 1) = UpTo(n) \cup {n + 1}
                                     /\ n + 1 \notin UpTo(n)
                                     /\ NameNo(n + 1) = NameNo(n) + 1
<1>1. Mentions \subseteq Nat /\ (n + 1 \in Mentions <=> Pieces[n + 1] # Blank)
  BY MentionsType
<1>2. CASE Pieces[n + 1] = Blank
  <2>1. \A q \in Mentions : q <= n + 1 <=> q <= n
    BY <1>1, <1>2
  <2>. QED BY <1>2, <2>1 DEF UpTo
<1>3. CASE Pieces[n + 1] # Blank
  <2>0. \A q \in Nat : q <= n + 1 <=> q <= n \/ q = n + 1
    OBVIOUS
  <2>1. ASSUME NEW q
        PROVE  q \in UpTo(n + 1) <=> q \in UpTo(n) \/ q = n + 1
    BY <1>1, <1>3, <2>0 DEF UpTo
  <2>2. UpTo(n + 1) = UpTo(n) \cup {n + 1} /\ n + 1 \notin UpTo(n)
    BY <2>1 DEF UpTo
  <2>3. Cardinality(UpTo(n) \cup {n + 1}) = Cardinality(UpTo(n)) + 1
    <3>1. IsFiniteSet(UpTo(n))
      BY UpToType
    <3>. QED BY <2>2, <3>1, FS_AddElement, Zenon
  <2>. QED BY <1>3, <2>2, <2>3 DEF NameNo
<1>. QED BY <1>2, <1>3

-----------------------------------------------------------------------------
(* Reading a piece.                                                        *)

\* The pieces do not change, and with them what is named where.
LEMMA PiecesStay ==
  ASSUME UNCHANGED env
  PROVE  /\ Pieces' = Pieces /\ Mentions' = Mentions /\ Repeats' = Repeats
         /\ \A p : UpTo(p)' = UpTo(p) /\ NameNo(p)' = NameNo(p)
         /\ \A a, b : FirstNamedBefore(a, b)' = FirstNamedBefore(a, b)
BY DEF Pieces, KeysIn, Mentions, Repeats, UpTo, NameNo, FirstNamedBefore

LEMMA ReadStep ==
  ASSUME ConfigInv, ReadKey
  PROVE  ConfigInv'
<1> DEFINE n == Done  head == Head(rest)
<1>0. ConfigTypeOK /\ RestIsLeft /\ KeysAreNamed /\ PlacesAreKept
  BY DEF ConfigInv
<1>1. /\ Len(rest) \in Nat \ {0} /\ Len(Pieces) \in Nat
      /\ head = rest[1]
      /\ rest' \in Seq(Names \cup {Blank}) /\ Len(rest') = Len(rest) - 1
      /\ \A m \in 1..Len(rest') : rest'[m] = rest[m + 1]
  BY <1>0 DEF ReadKey, ConfigTypeOK
<1>2. /\ Pieces' = Pieces /\ Mentions' = Mentions /\ Repeats' = Repeats
      /\ \A p : UpTo(p)' = UpTo(p) /\ NameNo(p)' = NameNo(p)
      /\ \A a, b : FirstNamedBefore(a, b)' = FirstNamedBefore(a, b)
  BY PiecesStay DEF ReadKey
<1>3. /\ n \in Nat /\ n + 1 \in 1..Len(Pieces) /\ Done' = n + 1
      /\ Pieces[n + 1] = head
  <2>1. Len(rest) <= Len(Pieces) /\ rest[1] = Pieces[n + 1]
    BY <1>0, <1>1 DEF RestIsLeft
  <2>. QED BY <1>1, <1>2, <2>1 DEF Done
<1>4. Named = UpTo(n) /\ Named' = UpTo(n + 1)
  <2>1. Named' = {q \in Mentions : q <= n + 1}
    BY <1>2, <1>3 DEF Named, UpTo
  <2>. QED BY <2>1 DEF Named, UpTo
<1>5. RestIsLeft'
  <2>1. \A m \in 1..Len(rest') : rest'[m] = Pieces[n + 1 + m]
    <3> TAKE m \in 1..Len(rest')
    <3>1. m + 1 \in 1..Len(rest) /\ rest'[m] = rest[m + 1]
      BY <1>1
    <3>2. rest[m + 1] = Pieces[n + (m + 1)]
      BY <1>0, <3>1 DEF RestIsLeft
    <3>. QED BY <1>3, <3>1, <3>2
  <2>. QED BY <1>0, <1>1, <1>2, <1>3, <2>1 DEF RestIsLeft, ReadKey
<1>6. UpTo(n) \subseteq Mentions /\ Mentions \subseteq 1..Len(Pieces)
  BY <1>0, <1>3, UpToType, MentionsType
<1> HIDE DEF n, head
<1>7. CASE head = Blank
  <2>0. Blank \notin ToSet(keys)
    BY <1>0, ConfigAssumption DEF ConfigTypeOK, ToSet
  <2>1. keys' = keys /\ duplicate_keys' = duplicate_keys
    BY <1>7, <2>0, Zenon DEF ReadKey, head
  <2>2. Named' = Named
    BY <1>0, <1>3, <1>4, <1>7, UpToNext
  <2>3. ConfigTypeOK'
    BY <1>0, <1>1, <1>2, <2>1 DEF ConfigTypeOK, ReadKey
  <2>4. KeysAreNamed'
    BY <1>0, <1>2, <2>1, <2>2 DEF KeysAreNamed
  <2>5. PlacesAreKept'
    BY <1>0, <1>2, <2>1, <2>2 DEF PlacesAreKept
  <2>. QED BY <1>5, <2>3, <2>4, <2>5 DEF ConfigInv
<1>8. ASSUME head # Blank
      PROVE  /\ Named' = Named \cup {n + 1} /\ n + 1 \in Mentions
             /\ n + 1 \notin Named
             /\ NameNo(n + 1) = Cardinality(Named) + 1
             /\ Cardinality(Named') = Cardinality(Named) + 1
             /\ Cardinality(Named) \in Nat
             /\ UpTo(n + 1) = Named'
             /\ head \in Names
  <2>1. /\ UpTo(n + 1) = UpTo(n) \cup {n + 1}
        /\ n + 1 \notin UpTo(n)
        /\ NameNo(n + 1) = NameNo(n) + 1
    BY <1>0, <1>3, <1>8, UpToNext
  <2>2. NameNo(n) \in Nat
    BY <1>0, <1>3, UpToType
  <2>3. NameNo(n) = Cardinality(Named) /\ NameNo(n + 1) = Cardinality(Named')
    BY <1>4 DEF NameNo
  <2>4. n + 1 \in Mentions
    BY <1>0, <1>3, <1>8, MentionsType
  <2>5. head \in Names
    BY <1>0, <1>3, <1>8 DEF ConfigTypeOK
  <2>. QED BY <1>4, <2>1, <2>2, <2>3, <2>4, <2>5
<1>9. CASE head # Blank /\ head \in ToSet(keys)
  <2>1. keys' = keys /\ duplicate_keys' = duplicate_keys + 1
    BY <1>9 DEF ReadKey, head
  <2>2. ConfigTypeOK'
    BY <1>0, <1>1, <1>2, <2>1 DEF ConfigTypeOK, ReadKey
  <2>3. PICK k \in DOMAIN keys : keys[k] = head
    BY <1>9 DEF ToSet
  <2>4. n + 1 \in Repeats
    <3>1. PICK q \in Named : Pieces[q] = head
      BY <1>0, <2>3 DEF KeysAreNamed
    <3>2. q \in 1..(n + 1) - 1
      BY <1>3, <1>4, <1>6, <3>1 DEF UpTo
    <3>. QED BY <1>3, <1>8, <1>9, <3>1, <3>2 DEF Repeats, Pieces
  <2>5. KeysAreNamed'
    <3>1. /\ Len(keys) \in Nat /\ duplicate_keys \in Nat
          /\ Len(keys) + duplicate_keys = Cardinality(Named)
      BY <1>0 DEF KeysAreNamed, ConfigTypeOK
    <3>2. Len(keys') + duplicate_keys' = Cardinality(Named')
      BY <1>8, <1>9, <2>1, <3>1
    <3>3. \A p \in Named' : \E i \in DOMAIN keys : Pieces[p] = keys[i]
      BY <1>0, <1>3, <1>8, <1>9, <2>3 DEF KeysAreNamed
    <3>4. \A i \in DOMAIN keys : \E p \in Named' : Pieces[p] = keys[i]
      BY <1>0, <1>8, <1>9 DEF KeysAreNamed
    <3>. QED BY <1>0, <1>2, <2>1, <3>2, <3>3, <3>4 DEF KeysAreNamed
  <2>6. PlacesAreKept'
    BY <1>0, <1>2, <1>8, <1>9, <2>1, <2>4 DEF PlacesAreKept
  <2>. QED BY <1>5, <2>2, <2>5, <2>6 DEF ConfigInv
<1>10. CASE head # Blank /\ head \notin ToSet(keys)
  <2>1. keys' = Append(keys, head) /\ duplicate_keys' = duplicate_keys
    BY <1>10 DEF ReadKey, head
  <2>2. /\ Len(keys) \in Nat /\ DOMAIN keys = 1..Len(keys)
        /\ keys' \in Seq(Names) /\ Len(keys') = Len(keys) + 1
        /\ DOMAIN keys' = 1..Len(keys) + 1
        /\ keys'[Len(keys) + 1] = head
        /\ \A i \in DOMAIN keys : keys'[i] = keys[i] /\ keys[i] # head
    <3>1. keys \in Seq(Names) /\ head \in Names
      BY <1>0, <1>8, <1>10 DEF ConfigTypeOK
    <3>2. \A i \in DOMAIN keys : keys[i] # head
      BY <1>10 DEF ToSet
    <3>. QED BY <2>1, <3>1, <3>2
  <2>3. ConfigTypeOK'
    BY <1>0, <1>1, <1>2, <2>1, <2>2 DEF ConfigTypeOK, ReadKey
  <2>4. \A p \in Named : Pieces[p] # head
    BY <1>0, <2>2 DEF KeysAreNamed
  <2>5. \A i \in DOMAIN keys : FirstNamedBefore(keys[i], head)
    <3> SUFFICES ASSUME NEW i \in DOMAIN keys, NEW p \in Mentions, Pieces[p] = head
                 PROVE  \E q \in 1..p - 1 : Pieces[q] = keys[i]
      BY DEF FirstNamedBefore, Pieces
    <3>1. p > n
      BY <1>3, <1>4, <1>6, <2>4 DEF UpTo
    <3>2. PICK q \in Named : Pieces[q] = keys[i]
      BY <1>0 DEF KeysAreNamed
    <3>3. q \in 1..p - 1
      BY <1>3, <1>4, <1>6, <3>1, <3>2 DEF UpTo
    <3>. QED BY <3>2, <3>3
  <2>6. KeysAreNamed'
    <3>1. \A i \in DOMAIN keys' : \E p \in Named' : Pieces[p] = keys'[i]
      <4> TAKE i \in DOMAIN keys'
      <4>1. CASE i \in DOMAIN keys
        BY <1>0, <1>8, <1>10, <2>2, <4>1 DEF KeysAreNamed
      <4>2. CASE i = Len(keys) + 1
        BY <1>3, <1>8, <1>10, <2>2, <4>2
      <4>. QED BY <2>2, <4>1, <4>2
    <3>2. \A p \in Named' : \E i \in DOMAIN keys' : Pieces[p] = keys'[i]
      <4> TAKE p \in Named'
      <4>1. CASE p \in Named
        <5>1. PICK i \in DOMAIN keys : Pieces[p] = keys[i]
          BY <1>0, <4>1 DEF KeysAreNamed
        <5>. QED BY <2>2, <5>1
      <4>2. CASE p = n + 1
        <5>1. Len(keys) + 1 \in DOMAIN keys'
          BY <2>2
        <5>. QED BY <1>3, <2>2, <4>2, <5>1
      <4>. QED BY <1>8, <1>10, <4>1, <4>2
    <3>3. ASSUME NEW i \in DOMAIN keys', NEW j \in DOMAIN keys', i < j
          PROVE  keys'[i] # keys'[j] /\ FirstNamedBefore(keys'[i], keys'[j])
      <4>1. i \in DOMAIN keys
        BY <2>2, <3>3
      <4>2. CASE j \in DOMAIN keys
        BY <1>0, <2>2, <3>3, <4>1, <4>2 DEF KeysAreNamed
      <4>3. CASE j = Len(keys) + 1
        BY <2>2, <2>5, <4>1, <4>3
      <4>. QED BY <2>2, <4>2, <4>3
    <3>4. Len(keys') + duplicate_keys' = Cardinality(Named')
      <4>1. /\ Len(keys) \in Nat /\ duplicate_keys \in Nat
            /\ Len(keys) + duplicate_keys = Cardinality(Named)
        BY <1>0 DEF KeysAreNamed, ConfigTypeOK
      <4>. QED BY <1>8, <1>10, <2>1, <2>2, <4>1
    <3>. QED BY <1>2, <3>1, <3>2, <3>3, <3>4 DEF KeysAreNamed
  <2>7. PlacesAreKept'
    <3>1. Named' \cap Repeats = {} => duplicate_keys' = 0
      BY <1>0, <1>8, <1>10, <2>1 DEF PlacesAreKept
    <3>2. ASSUME NEW p \in Named', UpTo(p) \cap Repeats = {}
          PROVE  NameNo(p) \in DOMAIN keys' /\ keys'[NameNo(p)] = Pieces[p]
      <4>1. CASE p \in Named
        <5>1. NameNo(p) \in DOMAIN keys /\ keys[NameNo(p)] = Pieces[p]
          BY <1>0, <3>2, <4>1 DEF PlacesAreKept
        <5>. QED BY <2>2, <5>1
      <4>2. CASE p = n + 1
        <5>1. Named \cap Repeats = {}
          BY <1>8, <1>10, <3>2, <4>2
        <5>2. Len(keys) = Cardinality(Named)
          BY <1>0, <2>2, <5>1 DEF PlacesAreKept, KeysAreNamed
        <5>3. NameNo(p) = Len(keys) + 1
          BY <1>8, <1>10, <4>2, <5>2
        <5>. QED BY <1>3, <2>2, <4>2, <5>3
      <4>. QED BY <1>8, <1>10, <4>1, <4>2
    <3>. QED BY <1>2, <3>1, <3>2 DEF PlacesAreKept
  <2>. QED BY <1>5, <2>3, <2>6, <2>7 DEF ConfigInv
<1>. QED BY <1>7, <1>9, <1>10

-----------------------------------------------------------------------------
(* The start as a whole.                                                   *)

LEMMA ValueIsSequence ==
  ASSUME NEW S, NEW v \in Value(S)
  PROVE  v \in Seq(S)
<1>1. CASE v = <<>>
  BY <1>1
<1>2. CASE v \in UNION {[1..n -> S] : n \in 1..MaxEntries}
  <2>1. PICK n \in 1..MaxEntries : v \in [1..n -> S]
    BY <1>2
  <2>2. n \in Nat
    BY ConfigAssumption
  <2>. QED BY <2>1, <2>2, SeqDef
<1>. QED BY <1>1, <1>2 DEF Value

LEMMA ConfigStarts == ConfigInit => ConfigInv
<1> SUFFICES ASSUME ConfigInit PROVE ConfigInv
  OBVIOUS
<1>1. Pieces \in Seq(Names \cup {Blank})
  <2>1. env.BRAVE_API_KEYS \in KeyLists /\ env.BRAVE_KEYS \in KeyLists
    BY DEF ConfigInit, Environments
  <2>. QED BY <2>1, ValueIsSequence DEF KeyLists, Pieces, KeysIn
<1>2. rest = Pieces /\ keys = <<>> /\ duplicate_keys = 0 /\ pc = "reading"
  BY DEF ConfigInit, Pieces
<1>3. ConfigTypeOK
  BY <1>1, <1>2 DEF ConfigTypeOK
<1>4. Done = 0
  BY <1>1, <1>2 DEF Done
<1>5. Named = {}
  BY <1>3, <1>4, MentionsType DEF Named, UpTo
<1>6. RestIsLeft
  BY <1>1, <1>2, <1>4 DEF RestIsLeft
<1>7. KeysAreNamed
  <2>1. Cardinality(Named) = 0
    BY <1>5, FS_EmptySet
  <2>2. DOMAIN keys = {} /\ Len(keys) = 0
    BY <1>2
  <2>. QED BY <1>2, <1>5, <2>1, <2>2 DEF KeysAreNamed
<1>8. PlacesAreKept
  BY <1>2, <1>5 DEF PlacesAreKept
<1>. QED BY <1>3, <1>6, <1>7, <1>8 DEF ConfigInv

LEMMA ConfigStep == ConfigInv /\ [ConfigNext]_configVars => ConfigInv'
<1> SUFFICES ASSUME ConfigInv, [ConfigNext]_configVars PROVE ConfigInv'
  OBVIOUS
<1>1. CASE ReadKey
  BY <1>1, ReadStep
<1>2. CASE Configured \/ Bind \/ UNCHANGED configVars
  <2>1. UNCHANGED <<env, rest, keys, duplicate_keys>>
    BY <1>2 DEF Configured, Bind, configVars
  <2>2. /\ Pieces' = Pieces /\ Mentions' = Mentions /\ Repeats' = Repeats
        /\ \A p : UpTo(p)' = UpTo(p) /\ NameNo(p)' = NameNo(p)
        /\ \A a, b : FirstNamedBefore(a, b)' = FirstNamedBefore(a, b)
    BY <2>1, PiecesStay
  <2>3. Done' = Done /\ Named' = Named
    BY <2>1, <2>2 DEF Done, Named, UpTo
  <2>4. ConfigTypeOK'
    BY <1>2, <2>1, <2>2 DEF ConfigInv, ConfigTypeOK, Configured, Bind, configVars
  <2>5. pc' = "running" \/ pc' = "binding" => rest = <<>> /\ keys # <<>>
    BY <1>2 DEF ConfigInv, RestIsLeft, Configured, Bind, configVars
  <2>6. RestIsLeft'
    BY <2>1, <2>2, <2>3, <2>5 DEF ConfigInv, RestIsLeft
  <2>7. KeysAreNamed'
    BY <2>1, <2>2, <2>3 DEF ConfigInv, KeysAreNamed
  <2>8. PlacesAreKept'
    BY <2>1, <2>2, <2>3 DEF ConfigInv, PlacesAreKept
  <2>. QED BY <2>4, <2>6, <2>7, <2>8 DEF ConfigInv
<1>. QED BY <1>1, <1>2 DEF ConfigNext

\* In a proxy that runs everything named has been read.
LEMMA AllIsRead ==
  ASSUME ConfigInv, pc = "running"
  PROVE  Named = Mentions
<1>1. Done = Len(Pieces)
  BY DEF ConfigInv, ConfigTypeOK, RestIsLeft, Done
<1>. QED BY <1>1, MentionsType DEF ConfigInv, Named, UpTo

\* Whatever the variables hold, the pool of a proxy that runs gets at least one
\* key, each key once, in the order of their first mention, and every other
\* mention was counted.
THEOREM KeysAlwaysDistinctInOrder == ConfigSpec => []KeysAreDistinctInOrder
<1>1. ConfigInv => KeysAreDistinctInOrder
  <2> SUFFICES ASSUME ConfigInv, pc = "running"
               PROVE  /\ keys # <<>>
                      /\ ToSet(keys) = {Pieces[p] : p \in Mentions}
                      /\ \A i, j \in DOMAIN keys : i < j =>
                           keys[i] # keys[j] /\ FirstNamedBefore(keys[i], keys[j])
                      /\ Len(keys) + duplicate_keys = Cardinality(Mentions)
    BY DEF KeysAreDistinctInOrder, Pieces
  <2>1. keys # <<>>
    BY DEF ConfigInv, RestIsLeft
  <2>2. ToSet(keys) = {Pieces[p] : p \in Mentions}
    BY AllIsRead DEF ConfigInv, KeysAreNamed, ToSet
  <2>. QED BY <2>1, <2>2, AllIsRead DEF ConfigInv, KeysAreNamed
<1>. QED BY <1>1, ConfigStarts, ConfigStep, PTL DEF ConfigSpec

\* Up to the first name that is repeated, the limit written for the n-th name
\* is the one its key gets, whatever empty pieces stand between the names.
THEOREM LimitsAlwaysReachTheirKeys == ConfigSpec => []LimitsReachTheirKeys
<1>1. ConfigInv => LimitsReachTheirKeys
  <2> SUFFICES ASSUME ConfigInv, pc = "running", NEW p \in Mentions,
                      UpTo(p) \cap Repeats = {}
               PROVE  \E i \in DOMAIN keys :
                         /\ keys[i] = Pieces[p]
                         /\ Cap(i) = IF NameNo(p) > Len(env.limits)
                                       \/ env.limits[NameNo(p)] = Detect
                                     THEN Absent ELSE env.limits[NameNo(p)]
    BY DEF LimitsReachTheirKeys, Pieces
  <2>1. NameNo(p) \in DOMAIN keys /\ keys[NameNo(p)] = Pieces[p]
    BY AllIsRead DEF ConfigInv, PlacesAreKept
  <2>. QED BY <2>1 DEF Cap
<1>. QED BY <1>1, ConfigStarts, ConfigStep, PTL DEF ConfigSpec
=============================================================================
