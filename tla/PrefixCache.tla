---------------------------- MODULE PrefixCache ----------------------------
(***************************************************************************)
(* The worker's cache of completions (worker/app/cache.py).  A prompt is a *)
(* sequence; the tokens stored for one are abstracted to how many they are *)
(* (they complete its key).  The entries are kept in the order of their    *)
(* stamps, so that the time that has passed is the number of entries at    *)
(* the front that are older than the time to live, which is positive.      *)
(***************************************************************************)
EXTENDS Integers, Sequences, FiniteSets, SequencesExt

CONSTANTS
  Prompts,
  MaxEntries    \* max_entries

ASSUME CacheAssumption ==
  /\ Prompts \subseteq Seq(STRING)
  /\ MaxEntries \in Nat \ {0}

VARIABLES
  store,        \* _store, oldest stamp first
  expired       \* how many of its entries have outlived ttl_s

cacheVars == <<store, expired>>

Entries == [key : Prompts, len : Nat]

CacheTypeOK == store \in Seq(Entries) /\ expired \in 0 .. Len(store)

CacheInit == store = <<>> /\ expired = 0

\* A bug of Purged: a cache that looks at no time.
PurgedNothing == store

\* The entries _purge_locked leaves.
Purged == SubSeq(store, expired + 1, Len(store))

\* A bug of Servable: an entry served however few tokens it has.
ServableShort(need) == ToSet(Purged)

\* The entries that are long enough for a request.
Servable(need) == {e \in ToSet(Purged) : e.len >= need}

\* The entry get answers from, if any: that of the prompt itself, or else that
\* of its longest proper prefix.
Found(prompt, need) ==
  LET own      == {e \in Servable(need) : e.key = prompt}
      prefixes == {e \in Servable(need) : IsStrictPrefix(e.key, prompt)}
  IN IF own # {} THEN own
     ELSE {e \in prefixes : \A f \in prefixes : Len(f.key) <= Len(e.key)}

\* get changes no entry but those it purges.
Get == store' = Purged /\ expired' = 0

\* A bug of Evicted: the newest entries given up.
EvictedNewest(entries) ==
  SubSeq(entries, 1, IF Len(entries) < MaxEntries THEN Len(entries) ELSE MaxEntries)

\* The oldest entries beyond max_entries go.
Evicted(entries) ==
  SubSeq(entries, 1 + (IF Len(entries) > MaxEntries THEN Len(entries) - MaxEntries ELSE 0),
         Len(entries))

\* The entries but that of a prompt, if it has one.
Without(entries, prompt) ==
  IF \E i \in DOMAIN entries : entries[i].key = prompt
    THEN RemoveAt(entries, CHOOSE i \in DOMAIN entries : entries[i].key = prompt)
    ELSE entries

Put(prompt, len) ==
  /\ store' = Evicted(Append(Without(Purged, prompt), [key |-> prompt, len |-> len]))
  /\ expired' = 0

\* Time passes.
Expire ==
  /\ expired < Len(store)
  /\ expired' = expired + 1
  /\ UNCHANGED store

CacheRestart == store' = <<>> /\ expired' = 0
=============================================================================
