------------------------------- MODULE Config --------------------------------
(***************************************************************************)
(* From the environment to a running proxy (src/config.rs, main.rs): the   *)
(* keys, the monthly caps they get, and the ways a start may fail.         *)
(* Reading the keys is a loop, one step for each piece of the value; the   *)
(* other settings are scalars, of which only one that is wrong matters.    *)
(***************************************************************************)
EXTENDS Integers, FiniteSets, SequencesExt

CONSTANTS Names,       \* what may stand in BRAVE_API_KEYS
          Blank,       \* an empty piece, as between two separators
          Detect,      \* no number in BRAVE_MONTHLY_LIMITS: detect, empty, a typo
          Numbers,     \* numbers that may stand there
          MaxEntries   \* bound on the pieces of each value

ASSUME ConfigAssumption == /\ Blank \notin Names
                           /\ Detect \notin Numbers
                           /\ Numbers \subseteq Nat
                           /\ MaxEntries \in Nat \ {0}

Absent == -1

VARIABLES env,            \* what the process was started with
          pc,             \* "reading", "binding", "running", or its exit code
          rest,           \* the pieces of the keys that are left
          keys, duplicate_keys

configVars == <<env, pc, rest, keys, duplicate_keys>>

\* A variable of the environment, in pieces: none if it is not set or blank.
Value(S) == {<<>>} \cup UNION {[1..n -> S] : n \in 1..MaxEntries}

\* A single empty piece is a blank value.  `wrong': a setting that does not parse.
KeyLists == Value(Names \cup {Blank}) \ {<<Blank>>}

Environments == [BRAVE_API_KEYS: KeyLists, BRAVE_KEYS: KeyLists,
                 limits: Value(Numbers \cup {Detect}),
                 wrong: BOOLEAN]

\* first_env: a value that has separators only is not blank.
KeysIn(e) == IF e.BRAVE_API_KEYS # <<>> THEN e.BRAVE_API_KEYS ELSE e.BRAVE_KEYS

ConfigInit == /\ env \in Environments
              /\ pc = "reading"
              /\ rest = KeysIn(env)
              /\ keys = <<>>
              /\ duplicate_keys = 0

-----------------------------------------------------------------------------
(* Config::from_env.                                                       *)

\* Mutant of ReadKey: only a repetition of the last key is a duplicate.
ReadKeyComparingLast ==
    /\ pc = "reading" /\ rest # <<>>
    /\ rest' = Tail(rest)
    /\ CASE Head(rest) = Blank -> UNCHANGED <<keys, duplicate_keys>>
         [] Head(rest) # Blank /\ keys # <<>> /\ Last(keys) = Head(rest) ->
              duplicate_keys' = duplicate_keys + 1 /\ UNCHANGED keys
         [] OTHER -> keys' = Append(keys, Head(rest)) /\ UNCHANGED duplicate_keys
    /\ UNCHANGED <<env, pc>>

ReadKey ==
    /\ pc = "reading" /\ rest # <<>>
    /\ rest' = Tail(rest)
    /\ CASE Head(rest) = Blank -> UNCHANGED <<keys, duplicate_keys>>
         [] Head(rest) \in ToSet(keys) ->
              duplicate_keys' = duplicate_keys + 1 /\ UNCHANGED keys
         [] OTHER -> keys' = Append(keys, Head(rest)) /\ UNCHANGED duplicate_keys
    /\ UNCHANGED <<env, pc>>

\* No key at all, or a setting that does not parse: exit code 2.
Configured ==
    /\ pc = "reading" /\ rest = <<>>
    /\ pc' = IF keys = <<>> \/ env.wrong THEN "exit_2" ELSE "binding"
    /\ UNCHANGED <<env, rest, keys, duplicate_keys>>

\* The address is free, or it is not.
Bind == /\ pc = "binding"
        /\ pc' \in {"running", "exit_1"}
        /\ UNCHANGED <<env, rest, keys, duplicate_keys>>

\* Mutant of Cap: the positions are off by one.
CapAfter(i) == IF i < Len(env.limits) /\ env.limits[i + 1] # Detect
               THEN env.limits[i + 1] ELSE Absent

\* The cap that Pool::new gives to key i.
Cap(i) == IF i <= Len(env.limits) /\ env.limits[i] # Detect
          THEN env.limits[i] ELSE Absent

ConfigNext == ReadKey \/ Configured \/ Bind

ConfigSpec == ConfigInit /\ [][ConfigNext]_configVars

-----------------------------------------------------------------------------
(* Properties                                                              *)

\* The pieces that name a key, by their places in the value; the number of
\* names up to a place; the pieces that repeat an earlier name.
Mentions  == {p \in DOMAIN KeysIn(env) : KeysIn(env)[p] # Blank}
UpTo(p)   == {q \in Mentions : q <= p}
NameNo(p) == Cardinality(UpTo(p))
Repeats   == {p \in Mentions : \E q \in 1..p - 1 : KeysIn(env)[q] = KeysIn(env)[p]}

\* Wherever b is named, a was named before.
FirstNamedBefore(a, b) ==
    \A p \in Mentions : KeysIn(env)[p] = b => \E q \in 1..p - 1 : KeysIn(env)[q] = a

\* The keys of a proxy that runs are what a pool needs: at least one, each once,
\* in the order in which they first appear in the environment, and every other
\* mention is counted as a duplicate (Config::from_env).
KeysAreDistinctInOrder ==
    pc = "running" =>
        /\ keys # <<>>
        /\ ToSet(keys) = {KeysIn(env)[p] : p \in Mentions}
        /\ \A i, j \in DOMAIN keys :
              i < j => keys[i] # keys[j] /\ FirstNamedBefore(keys[i], keys[j])
        /\ Len(keys) + duplicate_keys = Cardinality(Mentions)

\* The limit written for the n-th key that is named reaches that key, whatever
\* empty pieces stand between the names, unless a name was repeated up to
\* there: then it goes to a later key, or to none (README, BRAVE_MONTHLY_LIMITS:
\* positional, same order as BRAVE_API_KEYS).
LimitsReachTheirKeys ==
    pc = "running" =>
        \A p \in Mentions : UpTo(p) \cap Repeats = {} =>
            \E i \in DOMAIN keys :
               /\ keys[i] = KeysIn(env)[p]
               /\ Cap(i) = IF NameNo(p) > Len(env.limits)
                              \/ env.limits[NameNo(p)] = Detect
                           THEN Absent ELSE env.limits[NameNo(p)]
=============================================================================
