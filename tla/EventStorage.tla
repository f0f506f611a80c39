----------------------------- MODULE EventStorage -----------------------------
(***************************************************************************)
(* The in-memory EventStorage: createInMemoryEventStorage and              *)
(* matchesFilter of packages/core/src/store.ts.  Four indexes narrow what  *)
(* a filter is tested on, and the set of deleted ids is cached between     *)
(* writes.                                                                 *)
(*                                                                         *)
(* A batch of put is a sequence of Put steps here: the loop has no other   *)
(* effect, and a query that runs in between only adds behaviours.  since,  *)
(* until and limit are left out: they are decided on the matches alone.    *)
(***************************************************************************)
EXTENDS FiniteSets

CONSTANTS
  Copy,     \* the events that may be put; two of them may bear one id
  Fields,   \* copy -> its id, author, kind and the values of its t, i and e tags
  Id, Pubkey, Kind, TagValue,
  Deletion, \* DELETION_KIND
  TypeTags, \* the four event-type tags
  Filter,   \* the filters queried
  NoKey,    \* the value of a key a filter does not have
  NoCache   \* deletedCache when it is undefined

ASSUME CopiesAssumption ==
  Fields \in [Copy -> [id : Id, author : Pubkey, kind : Kind, t : SUBSET TagValue,
                       i : SUBSET TagValue, e : SUBSET Id]]

ASSUME FiltersAssumption ==
  Filter \subseteq [ids : (SUBSET Id) \cup {NoKey}, kinds : (SUBSET Kind) \cup {NoKey},
                    authors : (SUBSET Pubkey) \cup {NoKey},
                    t : (SUBSET TagValue) \cup {NoKey}, i : (SUBSET TagValue) \cup {NoKey},
                    e : (SUBSET Id) \cup {NoKey}]

\* undefined is not a set of values.
ASSUME UndefinedAssumption == \A ids \in SUBSET Id : NoCache # ids

VARIABLES
  byId,         \* the stored copies, one per id
  kindIdx, typeTagIdx, iTagIdx, eTagIdx,  \* pairs <<key, id>>
  deletedCache  \* the deleted ids as last computed, or NoCache

storageVars == <<byId, kindIdx, typeTagIdx, iTagIdx, eTagIdx, deletedCache>>

IdOf(c)       == Fields[c].id
Deletes(c) == Fields[c].kind = Deletion

\* honouredlyDeletedIds (DEL-1, DEL-6, DEL-8).
HonouredlyDeleted(stored) ==
  {IdOf(c) : c \in {x \in stored :
     /\ ~Deletes(x)
     /\ \E d \in stored : /\ Deletes(d)
                          /\ Fields[d].author = Fields[x].author
                          /\ IdOf(x) \in Fields[d].e}}

-----------------------------------------------------------------------------
(* The indexes *)

KindKeys(c) == {<<Fields[c].kind, IdOf(c)>>}
TypeKeys(c) == (Fields[c].t \cap TypeTags) \X {IdOf(c)}
IKeys(c)    == Fields[c].i \X {IdOf(c)}
EKeys(c)    == Fields[c].e \X {IdOf(c)}

\* unindexEvent of the copies replaced, then indexEvent of the new one.
Reindexed(idx, dropped, added) == (idx \ UNION dropped) \cup added

InBucket(idx, keys, x) == \E k \in keys : <<k, x>> \in idx

\* A fault: #t prunes on a list that has other values than type tags.
OverpruningCandidateIds(f) == {x \in Id : f.t # NoKey => InBucket(typeTagIdx, f.t, x)}

\* candidateIds: the intersection of the buckets, every id where the code has no
\* bucket.  #t prunes only when every value is a type tag: another value may
\* match through a tag that no index has.
CandidateIds(f) ==
  {x \in Id :
     /\ f.ids # NoKey   => x \in f.ids
     /\ f.kinds # NoKey => InBucket(kindIdx, f.kinds, x)
     /\ f.t \notin {NoKey, {}} /\ f.t \subseteq TypeTags => InBucket(typeTagIdx, f.t, x)
     /\ f.i # NoKey     => InBucket(iTagIdx, f.i, x)
     /\ f.e # NoKey     => InBucket(eTagIdx, f.e, x)}

MatchesFilter(c, f) ==
  /\ f.ids # NoKey     => IdOf(c) \in f.ids
  /\ f.authors # NoKey => Fields[c].author \in f.authors
  /\ f.kinds # NoKey   => Fields[c].kind \in f.kinds
  /\ f.t # NoKey       => Fields[c].t \cap f.t # {}
  /\ f.i # NoKey       => Fields[c].i \cap f.i # {}
  /\ f.e # NoKey       => Fields[c].e \cap f.e # {}

-----------------------------------------------------------------------------
(* The operations *)

StorageInit ==
  /\ byId = {} /\ deletedCache = NoCache
  /\ kindIdx = {} /\ typeTagIdx = {} /\ iTagIdx = {} /\ eTagIdx = {}

\* A stored deletion by the author of c that already names it.
AwaitedByDeletion(c) ==
  \E d \in byId : /\ <<IdOf(c), IdOf(d)>> \in eTagIdx
                  /\ Deletes(d)
                  /\ Fields[d].author = Fields[c].author

Put(c) ==
  LET old == {o \in byId : IdOf(o) = IdOf(c)}
  IN /\ byId' = (byId \ old) \cup {c}
     /\ kindIdx'    = Reindexed(kindIdx, {KindKeys(o) : o \in old}, KindKeys(c))
     /\ typeTagIdx' = Reindexed(typeTagIdx, {TypeKeys(o) : o \in old}, TypeKeys(c))
     /\ iTagIdx'    = Reindexed(iTagIdx, {IKeys(o) : o \in old}, IKeys(c))
     /\ eTagIdx'    = Reindexed(eTagIdx, {EKeys(o) : o \in old}, EKeys(c))
     /\ deletedCache' = IF old # {} \/ Deletes(c) \/ AwaitedByDeletion(c)
                          THEN NoCache ELSE deletedCache

DeletedIds == IF deletedCache = NoCache THEN HonouredlyDeleted(byId) ELSE deletedCache

\* The answer of query to one filter, with the deleted hidden.
QueryResult(f) ==
  {c \in byId : /\ IdOf(c) \in CandidateIds(f)
                /\ IdOf(c) \notin DeletedIds
                /\ MatchesFilter(c, f)}

\* The state a query that hides the deleted leaves.
Query ==
  /\ deletedCache' = DeletedIds
  /\ UNCHANGED <<byId, kindIdx, typeTagIdx, iTagIdx, eTagIdx>>

StorageNext == Query \/ \E c \in Copy : Put(c)

StorageSpec == StorageInit /\ [][StorageNext]_storageVars

-----------------------------------------------------------------------------
(* Properties *)

\* The state has its type, and no two stored copies bear one id.
StorageTypeOK ==
  /\ byId \subseteq Copy
  /\ \A c, d \in byId : IdOf(c) = IdOf(d) => c = d
  /\ deletedCache \in (SUBSET Id) \cup {NoCache}

\* The cache outlives the writes that cannot change it and no others: what it
\* holds is what a scan would find now (DEL-8, DEL-9).
CacheIsFresh == deletedCache # NoCache => deletedCache = HonouredlyDeleted(byId)

\* Indexes and cache change no answer: a query returns what a scan of the stored
\* events against the filter would, without the honouredly deleted.
QueryIsExact ==
  \A f \in Filter :
    QueryResult(f) = {c \in byId : MatchesFilter(c, f) /\ IdOf(c) \notin HonouredlyDeleted(byId)}
=============================================================================
