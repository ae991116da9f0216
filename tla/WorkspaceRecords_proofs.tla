----------------------- MODULE WorkspaceRecords_proofs ----------------------
(***************************************************************************)
(* Theorems about the stores of one service process.                       *)
(*                                                                         *)
(* The workspace's records: every operation is first shown to be a         *)
(* RecordStep, which says of each identity that it is left alone, written  *)
(* with a higher revision, or buried under a tombstone.  What the theorems *)
(* say of revisions, deletions and imports then follows from RecordStep    *)
(* alone, whichever operation it was.                                      *)
(*                                                                         *)
(* The opening of the database: what a thread found out about the file on  *)
(* its way still holds of it, whichever files were found.                  *)
(*                                                                         *)
(* The Agent's run: every source the orchestrator remembers is recorded in *)
(* the durable row, whichever plan was frozen.                             *)
(*                                                                         *)
(* A behaviour of the service is one of each store, so that all of this    *)
(* holds of the service.                                                   *)
(***************************************************************************)
EXTENDS Service, FiniteSetTheorems, TLAPS

Tables ==
    /\ live \in [Keys -> Record \cup {None}]
    /\ tombstone \in [Keys -> 0..(MaxRevision + 1)]

\* workspace_records and tombstones never hold one identity both.
LiveOrBuried == \A k \in Keys : IsLive(k) => tombstone[k] = 0

\* What a client read is an older version, the current one, or was deleted.
HeldIsOlder ==
    held # None =>
        \/ tombstone[held.key] # 0
        \/ /\ IsLive(held.key)
           /\ held.record.rev <= live[held.key].rev
           /\ held.record.rev = live[held.key].rev => live[held.key] = held.record

IInv ==
    /\ TypeOK
    /\ LiveOrBuried
    /\ HeldIsOlder
    /\ ImportIsIdempotent
    /\ MembersHaveParents

-----------------------------------------------------------------------------
Kept(k) == live'[k] = live[k] /\ tombstone'[k] = tombstone[k]

Written(k) ==
    /\ tombstone[k] = 0 /\ tombstone'[k] = 0
    /\ live'[k] \in Record
    /\ IsLive(k) => live'[k].rev > live[k].rev

Buried(k) ==
    /\ live'[k] = None
    /\ tombstone'[k] > tombstone[k]
    /\ IsLive(k) => tombstone'[k] >= live[k].rev

RecordStep ==
    /\ Tables'
    /\ \A k \in Keys : Kept(k) \/ Written(k) \/ Buried(k)

-----------------------------------------------------------------------------
\* create_in writes revision 1 of an identity that is neither live nor buried.
LEMMA CreateIsStep ==
    ASSUME Tables, NEW k \in Keys, NEW v \in Contents, NEW l \in Owner, Create(k, v, l)
    PROVE  RecordStep
<1>1. NewRecord(v, l) \in Record
  BY BoundsAssumption DEF NewRecord, Record, Revisions
<1>2. Tables'
  BY <1>1 DEF Tables, Create
<1>3. \A i \in Keys : i # k => Kept(i)
  BY DEF Tables, Create, Kept
<1>4. Written(k)
  BY <1>1 DEF Tables, Create, CanCreate, Written
<1> QED
  BY <1>2, <1>3, <1>4 DEF RecordStep

\* replace_in adds one to the revision and keeps the rest of the wrapper.
LEMMA ReplaceIsStep ==
    ASSUME Tables, LiveOrBuried, NEW k \in Keys, NEW v \in Contents,
           NEW e \in Revisions, Replace(k, v, e)
    PROVE  /\ RecordStep
           /\ live'[k].listed = live[k].listed
           /\ \A i \in Keys : i # k => Kept(i)
<1> DEFINE old == live[k]
           new == [old EXCEPT !.rev = @ + 1, !.content = v]
<1>1. old \in Record /\ old.rev < MaxRevision /\ tombstone[k] = 0
  BY DEF Tables, LiveOrBuried, Replace, CanReplace, IsLive
<1>2. old.rev \in 1..MaxRevision /\ old.rev + 1 \in Revisions
  BY <1>1, BoundsAssumption DEF Record, Revisions
<1>3. new \in Record
  BY <1>1, <1>2 DEF Record
<1>4. new.rev = old.rev + 1 /\ new.listed = old.listed
  BY <1>1 DEF Record
<1>5. live' = [live EXCEPT ![k] = new] /\ tombstone' = tombstone
  BY DEF Replace, Tables
<1> HIDE DEF new
<1>6. live'[k] = new /\ Tables' /\ (\A i \in Keys : i # k => Kept(i))
  BY <1>3, <1>5 DEF Tables, Kept
<1>7. Written(k)
  BY <1>1, <1>2, <1>3, <1>4, <1>5, <1>6, BoundsAssumption DEF Written
<1> QED
  BY <1>4, <1>6, <1>7 DEF RecordStep

\* delete_in, and the cascade: every row deleted leaves a newer tombstone.
LEMMA BuryIsStep ==
    ASSUME Tables, LiveOrBuried, NEW S, \A k \in S : k \in Keys /\ IsLive(k), Bury(S)
    PROVE  RecordStep
<1>1. \A k \in S : live[k].rev \in 1..MaxRevision /\ tombstone[k] = 0
  BY DEF Tables, LiveOrBuried, IsLive, Record, Revisions
<1>2. Tables'
  BY <1>1, BoundsAssumption DEF Tables, Bury
<1>3. ASSUME NEW k \in Keys PROVE Kept(k) \/ Buried(k)
  <2>1. CASE k \in S
    BY <1>1, <2>1, BoundsAssumption DEF Bury, Buried
  <2>2. CASE k \notin S
    BY <2>2 DEF Bury, Kept
  <2> QED BY <2>1, <2>2
<1> QED
  BY <1>2, <1>3 DEF RecordStep

-----------------------------------------------------------------------------
\* What validate_workspace_backup guarantees of one entry.
LEMMA BackupEntry ==
    ASSUME NEW b \in Backups, NEW k \in DOMAIN b
    PROVE  /\ k \in PortableKeys
           /\ b[k].rev \in Revisions
           /\ b[k].content = Gone => k \in ConversationKeys
           /\ b[k].content # Gone => b[k] \in Record
<1>1. PICK K \in SUBSET PortableKeys :
          b \in [K -> UNION {Entries(i) : i \in K}] /\ ValidBackup(b)
  BY DEF Backups
<1>2. k \in PortableKeys /\ b[k] \in Entries(k)
  BY <1>1 DEF ValidBackup
<1>3. CASE k \in ItemKeys
  BY <1>2, <1>3, ValuesAssumption DEF Entries, Record
<1>4. CASE k \notin ItemKeys
  <2> DEFINE C == Contents \cup IF k \in ConversationKeys THEN {Gone} ELSE {}
  <2>1. b[k] \in [rev: Revisions, listed: {None}, parent: {None}, content: C]
    BY <1>2, <1>4 DEF Entries
  <2>2. b[k].content = Gone => k \in ConversationKeys
    BY <2>1, ValuesAssumption
  <2>3. b[k].content # Gone => b[k].content \in Contents
    BY <2>1
  <2>4. b[k].content # Gone => b[k] \in Record
    BY <2>1, <2>3 DEF Record, Owner
  <2> QED
    BY <1>2, <2>1, <2>2, <2>4
<1> QED
  BY <1>3, <1>4

\* An import writes only newer revisions, never over a tombstone, and its
\* tombstones are never older than what they bury.
LEMMA ImportIsStep ==
    ASSUME Tables, LiveOrBuried, NEW b \in Backups, Import(b)
    PROVE  RecordStep
<1> DEFINE gone(k) == k \in Applied(b) /\ b[k].content = Gone
           wrote(k) == k \in Applied(b) /\ b[k].content # Gone
<1>1. ASSUME NEW k \in Keys, wrote(k)
      PROVE  live'[k] = b[k] /\ b[k] \in Record /\ tombstone'[k] = tombstone[k] /\ Written(k)
  <2>1. k \in DOMAIN b /\ PlansRecord(k, b[k])
    BY <1>1 DEF Applied, Applies
  <2>2. b[k] \in Record /\ b[k].rev \in 1..MaxRevision
    BY <1>1, <2>1, BackupEntry DEF Revisions
  <2>3. live'[k] = b[k] /\ tombstone'[k] = tombstone[k]
    BY <1>1 DEF Import
  <2>4. IsLive(k) => live[k].rev \in 1..MaxRevision
    BY DEF Tables, IsLive, Record, Revisions
  <2> QED
    BY <2>1, <2>2, <2>3, <2>4, BoundsAssumption DEF Written, PlansRecord
<1>2. ASSUME NEW k \in Keys, gone(k)
      PROVE  live'[k] = None /\ tombstone'[k] \in 1..MaxRevision /\ Buried(k)
  <2>1. k \in DOMAIN b /\ PlansTombstone(k, b[k])
    BY <1>2 DEF Applied, Applies
  <2>2. b[k].rev \in 1..MaxRevision
    BY <2>1, BackupEntry DEF Revisions
  <2>3. live'[k] = None /\ tombstone'[k] = b[k].rev
    BY <1>2 DEF Import
  <2> QED
    BY <2>1, <2>2, <2>3, BoundsAssumption DEF Buried, PlansTombstone
<1>3. ASSUME NEW k \in Keys, k \notin Applied(b)
      PROVE  Kept(k)
  BY <1>3 DEF Import, Kept
<1>4. ASSUME NEW k \in Keys
      PROVE  live'[k] \in Record \cup {None} /\ tombstone'[k] \in 0..(MaxRevision + 1)
  BY <1>1, <1>2, <1>3, BoundsAssumption DEF Tables, Kept
<1>5. Tables'
  <2>1. live' = [k \in Keys |-> live'[k]] /\ tombstone' = [k \in Keys |-> tombstone'[k]]
    BY DEF Import
  <2> QED BY <1>4, <2>1 DEF Tables
<1> QED
  BY <1>1, <1>2, <1>3, <1>5 DEF RecordStep

-----------------------------------------------------------------------------
\* _record_activity_in keeps the history of a collection within its bound.
LEMMA ActivityBounded ==
    ASSUME activity \in [Collections -> 0..MaxActivity], NEW c \in Collections,
           RecordActivity(c)
    PROVE  activity' \in [Collections -> 0..MaxActivity]
<1>1. MaxActivity \in Nat
  BY BoundsAssumption
<1> QED
  BY <1>1 DEF RecordActivity

\* Every operation is a RecordStep; only a read changes what a client holds,
\* and only an import adds a receipt.
LEMMA NextIsStep ==
    ASSUME TypeOK, LiveOrBuried, Next
    PROVE  /\ RecordStep
           /\ activity' \in [Collections -> 0..MaxActivity]
           /\ \/ held' = held
              \/ \E k \in Keys : Read(k)
           /\ \/ receipts' = receipts
              \/ \E b \in Backups : Import(b)
<1>0. Tables /\ activity \in [Collections -> 0..MaxActivity]
  BY DEF TypeOK, Tables
<1>s. ASSUME UNCHANGED <<live, tombstone>> PROVE RecordStep
  BY <1>0, <1>s DEF Tables, RecordStep, Kept
<1>1. ASSUME NEW k \in Keys, Read(k)
      PROVE RecordStep /\ activity' = activity /\ receipts' = receipts
  BY <1>1, <1>s DEF Read
<1>2. ASSUME NEW c \in Collections, NEW v \in Contents, CreateCollection(c, v)
      PROVE RecordStep /\ RecordActivity(c) /\ UNCHANGED <<receipts, held>>
  <2>1. <<"collection", c>> \in Keys /\ None \in Owner
    BY DEF Keys, CollectionKeys, Owner
  <2> QED BY <1>0, <1>2, <2>1, CreateIsStep DEF CreateCollection
<1>3. ASSUME NEW c \in Collections, NEW m \in Members, NEW v \in Contents,
             AddItem(c, m, v) \/ AddNote(c, m, v)
      PROVE RecordStep /\ RecordActivity(c) /\ UNCHANGED <<receipts, held>>
  <2>1. <<"item", m>> \in Keys /\ <<"note", m>> \in Keys /\ c \in Owner
    BY DEF Keys, ItemKeys, NoteKeys, Owner
  <2> QED BY <1>0, <1>3, <2>1, CreateIsStep DEF AddItem, AddNote
<1>4. ASSUME NEW c \in Collections, NEW v \in Contents, NEW e \in Revisions,
             UpdateCollection(c, v, e)
      PROVE RecordStep /\ RecordActivity(c) /\ UNCHANGED <<receipts, held>>
  <2>1. <<"collection", c>> \in Keys
    BY DEF Keys, CollectionKeys
  <2> QED BY <1>0, <1>4, <2>1, ReplaceIsStep DEF UpdateCollection
<1>5. ASSUME NEW c \in Collections, NEW e \in Revisions, DeleteCollection(c, e)
      PROVE RecordStep /\ RecordActivity(c) /\ UNCHANGED <<receipts, held>>
  <2> DEFINE S == {<<"collection", c>>} \cup Children(c)
  <2>1. \A k \in S : k \in Keys /\ IsLive(k)
    BY <1>5 DEF Keys, CollectionKeys, Children, DeleteCollection, CanDelete
  <2> QED BY <1>0, <1>5, <2>1, BuryIsStep DEF DeleteCollection
<1>6. ASSUME NEW c \in Collections, NEW m \in Members, NEW v \in Contents,
             NEW e \in Revisions, UpdateNote(c, m, v, e)
      PROVE RecordStep /\ RecordActivity(c) /\ UNCHANGED <<receipts, held>>
  <2>1. <<"note", m>> \in Keys
    BY DEF Keys, NoteKeys
  <2> QED BY <1>0, <1>6, <2>1, ReplaceIsStep DEF UpdateNote
<1>7. ASSUME NEW c \in Collections, NEW m \in Members, NEW e \in Revisions,
             DeleteMember(c, m, e)
      PROVE RecordStep /\ RecordActivity(c) /\ UNCHANGED <<receipts, held>>
  <2>1. MemberNamed(m) \in Keys
    BY DEF MemberNamed, Keys, ItemKeys, NoteKeys
  <2>2. \A k \in {MemberNamed(m)} : k \in Keys /\ IsLive(k)
    BY <1>7, <2>1 DEF DeleteMember, CanDelete
  <2> QED BY <1>0, <1>7, <2>2, BuryIsStep DEF DeleteMember
<1>8. ASSUME NEW b \in Backups, Import(b)
      PROVE RecordStep /\ activity' = activity /\ held' = held
  BY <1>0, <1>8, ImportIsStep DEF Import
<1>9. ASSUME NEW b \in Backups, ImportAgain(b)
      PROVE RecordStep /\ UNCHANGED <<activity, receipts, held>>
  BY <1>9, <1>s DEF ImportAgain, vars
<1>13. ASSUME NEW c \in Collections, RecordOperation(c)
       PROVE RecordStep /\ RecordActivity(c) /\ UNCHANGED <<receipts, held>>
  BY <1>13, <1>s DEF RecordOperation
<1>10. CASE \E k \in Keys : Read(k)
  BY <1>0, <1>1, <1>10
<1>11. CASE \E b \in Backups : Import(b) \/ ImportAgain(b)
  BY <1>0, <1>8, <1>9, <1>11
<1>12. CASE \E c \in Collections : RecordStep /\ RecordActivity(c) /\ UNCHANGED <<receipts, held>>
  BY <1>0, <1>12, ActivityBounded
<1> QED
  BY <1>2, <1>3, <1>4, <1>5, <1>6, <1>7, <1>10, <1>11, <1>12, <1>13 DEF Next

-----------------------------------------------------------------------------
\* An identity is never live and buried at once.
LEMMA ExclusivePreserved ==
    ASSUME LiveOrBuried, RecordStep
    PROVE  LiveOrBuried'
  BY DEF LiveOrBuried, RecordStep, Kept, Written, Buried, IsLive

\* Whatever is written meanwhile, a client's version only gets older.
LEMMA HeldPreserved ==
    ASSUME TypeOK, HeldIsOlder, RecordStep, held' = held
    PROVE  HeldIsOlder'
<1> SUFFICES ASSUME held # None PROVE HeldIsOlder'
  BY DEF HeldIsOlder
<1> DEFINE k == held.key
<1>1. k \in Keys /\ held.record \in Record
  BY DEF TypeOK
<1>2. tombstone[k] \in Nat /\ tombstone'[k] \in Nat /\ live'[k] \in Record \cup {None}
  BY <1>1, BoundsAssumption DEF TypeOK, RecordStep, Tables
<1>3. CASE Kept(k)
  BY <1>1, <1>3 DEF Kept, HeldIsOlder, IsLive
<1>4. CASE Written(k)
  <2>1. IsLive(k) /\ held.record.rev <= live[k].rev /\ live'[k].rev > live[k].rev
    BY <1>4 DEF Written, HeldIsOlder
  <2>2. live[k] \in Record /\ live'[k] \in Record /\ live'[k] # None
    BY <1>1, <1>4, <2>1, ValuesAssumption DEF TypeOK, IsLive, Written
  <2>3. held.record.rev \in Nat /\ live[k].rev \in Nat /\ live'[k].rev \in Nat
    BY <1>1, <2>2, BoundsAssumption DEF Record, Revisions
  <2>4. held.record.rev < live'[k].rev
    BY <2>1, <2>3
  <2> QED BY <2>2, <2>3, <2>4 DEF HeldIsOlder, IsLive
<1>5. CASE Buried(k)
  BY <1>2, <1>5 DEF Buried, HeldIsOlder
<1> QED
  BY <1>1, <1>3, <1>4, <1>5 DEF RecordStep

\* What is read is current.
LEMMA ReadIsCurrent ==
    ASSUME TypeOK, NEW k \in Keys, Read(k)
    PROVE  HeldIsOlder' /\ held' \in [key: Keys, record: Record]
<1>1. live[k] \in Record /\ held' = [key |-> k, record |-> live[k]] /\ live' = live
  BY DEF TypeOK, Read, IsLive
<1>2. live[k].rev \in Nat
  BY <1>1, BoundsAssumption DEF Record, Revisions
<1> QED
  BY <1>1, <1>2 DEF HeldIsOlder, Read, IsLive

-----------------------------------------------------------------------------
\* An entry that has nothing to apply stays so: revisions only grow and a
\* tombstone is not older than what it buried.
LEMMA StaysApplied ==
    ASSUME TypeOK, RecordStep, NEW b \in Backups, NEW k \in DOMAIN b, ~Applies(b, k)
    PROVE  ~Applies(b, k)'
<1>1. k \in Keys /\ b[k].rev \in 1..MaxRevision
  BY BackupEntry DEF PortableKeys, Keys, Revisions
<1>2. /\ tombstone[k] \in Nat /\ tombstone'[k] \in Nat
      /\ IsLive(k) => live[k].rev \in 1..MaxRevision
      /\ live'[k] # None => live'[k].rev \in 1..MaxRevision
      /\ live'[k] \in Record => live'[k] # None
  BY <1>1, BoundsAssumption, ValuesAssumption
     DEF TypeOK, RecordStep, Tables, IsLive, Record, Revisions
<1>3. CASE b[k].content = Gone
  <2>1. \/ IsLive(k) /\ live[k].rev > b[k].rev
        \/ tombstone[k] >= b[k].rev
    BY <1>1, <1>2, <1>3, BoundsAssumption DEF Applies, PlansTombstone
  <2>2. \/ live'[k] # None /\ live'[k].rev > b[k].rev
        \/ tombstone'[k] >= b[k].rev
    BY <1>1, <1>2, <2>1, BoundsAssumption DEF RecordStep, Kept, Written, Buried, IsLive
  <2> QED
    BY <1>1, <1>2, <1>3, <2>2, BoundsAssumption DEF Applies, PlansTombstone, IsLive
<1>4. CASE b[k].content # Gone
  <2>1. tombstone[k] # 0 \/ (IsLive(k) /\ live[k].rev >= b[k].rev)
    BY <1>1, <1>2, <1>4, BoundsAssumption DEF Applies, PlansRecord
  <2>2. tombstone'[k] # 0 \/ (live'[k] # None /\ live'[k].rev >= b[k].rev)
    BY <1>1, <1>2, <2>1, BoundsAssumption DEF RecordStep, Kept, Written, Buried, IsLive
  <2> QED
    BY <1>1, <1>2, <1>4, <2>2, BoundsAssumption DEF Applies, PlansRecord, IsLive
<1> QED
  BY <1>3, <1>4

\* A committed import has applied everything its plan can apply.
LEMMA ImportAppliesAll ==
    ASSUME TypeOK, RecordStep, NEW b \in Backups, Import(b), NEW k \in DOMAIN b
    PROVE  ~Applies(b, k)'
<1>1. k \in Keys /\ b[k].rev \in 1..MaxRevision
  BY BackupEntry DEF PortableKeys, Keys, Revisions
<1>2. b[k].content # Gone => b[k] # None
  BY BackupEntry, ValuesAssumption
<1>3. CASE Applies(b, k) /\ b[k].content = Gone
  <2>1. tombstone'[k] = b[k].rev
    BY <1>1, <1>3 DEF Import, Applied
  <2> QED BY <1>1, <1>3, <2>1, BoundsAssumption DEF Applies, PlansTombstone
<1>4. CASE Applies(b, k) /\ b[k].content # Gone
  <2>1. live'[k] = b[k]
    BY <1>1, <1>4 DEF Import, Applied
  <2> QED BY <1>1, <1>2, <1>4, <2>1, BoundsAssumption DEF Applies, PlansRecord, IsLive
<1>5. CASE ~Applies(b, k)
  BY <1>5, StaysApplied
<1> QED
  BY <1>3, <1>4, <1>5

\* The receipts stay good for what they stand for.
LEMMA IdempotencePreserved ==
    ASSUME TypeOK, ImportIsIdempotent, RecordStep,
           receipts' = receipts \/ \E b \in Backups : Import(b)
    PROVE  ImportIsIdempotent' /\ receipts' \subseteq Backups
<1>0. receipts \subseteq Backups
  BY DEF TypeOK
<1>1. ASSUME NEW b \in receipts, NEW k \in DOMAIN b PROVE ~Applies(b, k)'
  BY <1>0, <1>1, StaysApplied DEF ImportIsIdempotent, Applied
<1>2. CASE receipts' = receipts
  BY <1>0, <1>1, <1>2 DEF ImportIsIdempotent, Applied
<1>3. ASSUME NEW b \in Backups, Import(b)
      PROVE  ImportIsIdempotent' /\ receipts' \subseteq Backups
  <2>1. receipts' = receipts \cup {b}
    BY <1>3 DEF Import
  <2>2. \A k \in DOMAIN b : ~Applies(b, k)'
    BY <1>3, ImportAppliesAll
  <2> QED BY <1>0, <1>1, <2>1, <2>2 DEF ImportIsIdempotent, Applied
<1> QED
  BY <1>2, <1>3

-----------------------------------------------------------------------------
MemberKeys == ItemKeys \cup NoteKeys

\* The member k has its collection, or is just as an import wrote it.
HasParent(k) ==
    IsLive(k) /\ live[k].listed # None
        => \/ IsLive(<<"collection", live[k].listed>>)
           \/ \E b \in receipts : k \in DOMAIN b /\ b[k] = live[k]

CollectionsStay == \A k \in CollectionKeys : IsLive(k) => live'[k] # None

\* A member listed in a collection lists one that exists as a key.
LEMMA ListedKey ==
    ASSUME TypeOK, NEW k \in MemberKeys, IsLive(k), live[k].listed # None
    PROVE  <<"collection", live[k].listed>> \in CollectionKeys
<1>1. live[k] \in Record
  BY DEF TypeOK, MemberKeys, Keys, IsLive
<1> QED
  BY <1>1 DEF Record, Owner, CollectionKeys

\* As long as no collection goes, a member that is left alone keeps its own.
LEMMA ParentKept ==
    ASSUME TypeOK, CollectionsStay, receipts \subseteq receipts',
           NEW k \in MemberKeys, HasParent(k), live'[k] = live[k]
    PROVE  HasParent(k)'
  BY ListedKey DEF HasParent, CollectionsStay, IsLive

\* The kinds of identity are apart.
LEMMA KindsApart ==
    /\ \A k \in MemberKeys : k \in Keys /\ k \notin CollectionKeys /\ k \notin ConversationKeys
    /\ \A k \in CollectionKeys : k \in Keys /\ k \notin ConversationKeys
    /\ \A k \in NoteKeys : k \notin PortableKeys
  BY DEF MemberKeys, ItemKeys, NoteKeys, CollectionKeys, ConversationKeys, Keys, PortableKeys

\* add_item and add_note: the new member's collection is live.
LEMMA AddKeepsParents ==
    ASSUME TypeOK, \A k \in MemberKeys : HasParent(k), NEW i \in Keys, NEW v \in Contents,
           NEW l \in Owner, Create(i, v, l), receipts' = receipts,
           l # None => IsLive(<<"collection", l>>) /\ <<"collection", l>> \in Keys
    PROVE  \A k \in MemberKeys : HasParent(k)'
<1>1. \A k \in Keys : k # i => live'[k] = live[k]
  BY DEF TypeOK, Create
<1>2. live'[i] = NewRecord(v, l) /\ ~IsLive(i)
  BY DEF TypeOK, Create, CanCreate
<1>3. CollectionsStay
  BY <1>1, <1>2, KindsApart DEF CollectionsStay, IsLive
<1>4. ASSUME NEW k \in MemberKeys, k # i PROVE HasParent(k)'
  BY <1>1, <1>3, <1>4, KindsApart, ParentKept
<1>5. ASSUME i \in MemberKeys PROVE HasParent(i)'
  <2>1. live'[i].listed = l
    BY <1>2 DEF NewRecord
  <2>2. l # None => live'[<<"collection", l>>] # None
    BY <1>1, <1>2 DEF IsLive
  <2> QED BY <2>1, <2>2 DEF HasParent, IsLive
<1> QED
  BY <1>4, <1>5

\* update_collection and update_note: the record stays where it is listed.
LEMMA ReplaceKeepsParents ==
    ASSUME TypeOK, LiveOrBuried, \A k \in MemberKeys : HasParent(k),
           NEW i \in CollectionKeys \cup NoteKeys, NEW v \in Contents,
           NEW e \in Revisions, Replace(i, v, e), receipts' = receipts
    PROVE  \A k \in MemberKeys : HasParent(k)'
<1>1. i \in Keys /\ Tables
  BY KindsApart DEF TypeOK, Tables, MemberKeys
<1>2. /\ \A k \in Keys : k # i => live'[k] = live[k]
      /\ live'[i].listed = live[i].listed
      /\ RecordStep
  BY <1>1, ReplaceIsStep DEF Kept
<1>3. IsLive(i) /\ tombstone' = tombstone
  BY DEF Replace, CanReplace
<1>4. live'[i] # None
  BY <1>1, <1>2, <1>3, ValuesAssumption DEF RecordStep, Kept, Written, Buried, IsLive, Tables, TypeOK
<1>5. CollectionsStay
  BY <1>2, <1>4, KindsApart DEF CollectionsStay, IsLive
<1>6. ASSUME NEW k \in MemberKeys, k # i PROVE HasParent(k)'
  BY <1>2, <1>5, <1>6, KindsApart, ParentKept
<1>7. ASSUME i \in MemberKeys PROVE HasParent(i)'
  <2>1. i \in NoteKeys
    BY <1>7, KindsApart
  <2>2. \A b \in receipts : i \notin DOMAIN b
    BY <2>1, BackupEntry, KindsApart DEF TypeOK
  <2>3. live[i].listed # None => IsLive(<<"collection", live[i].listed>>)
    BY <1>3, <1>7, <2>2 DEF HasParent
  <2>4. live[i].listed # None => live'[<<"collection", live[i].listed>>] # None
    BY <1>3, <1>5, <1>7, <2>3, ListedKey DEF CollectionsStay
  <2> QED BY <1>2, <2>4 DEF HasParent, IsLive
<1> QED
  BY <1>6, <1>7

\* delete_collection: the cascade takes every member listed in it.
LEMMA CascadeKeepsParents ==
    ASSUME TypeOK, \A k \in MemberKeys : HasParent(k), NEW c \in Collections,
           Bury({<<"collection", c>>} \cup Children(c)), receipts' = receipts
    PROVE  \A k \in MemberKeys : HasParent(k)'
<1> DEFINE S == {<<"collection", c>>} \cup Children(c)
<1>1. \A k \in Keys : live'[k] = IF k \in S THEN None ELSE live[k]
  BY DEF Bury
<1>2. ASSUME NEW k \in MemberKeys, live'[k] # None, live'[k].listed # None
      PROVE  \/ live'[<<"collection", live'[k].listed>>] # None
             \/ \E b \in receipts' : k \in DOMAIN b /\ b[k] = live'[k]
  <2>1. k \in Keys /\ k \notin S /\ live'[k] = live[k] /\ IsLive(k)
    BY <1>1, <1>2, KindsApart DEF IsLive
  <2>2. live[k].listed # c
    BY <2>1 DEF Children, MemberKeys
  <2>3. <<"collection", live[k].listed>> \in CollectionKeys
    BY <1>2, <2>1, ListedKey
  <2>4. <<"collection", live[k].listed>> \notin S
    BY <2>2, <2>3, KindsApart DEF Children, MemberKeys
  <2>5. live'[<<"collection", live[k].listed>>] = live[<<"collection", live[k].listed>>]
    BY <1>1, <2>3, <2>4, KindsApart
  <2> QED BY <1>2, <2>1, <2>5 DEF HasParent, IsLive
<1> QED
  BY <1>2 DEF HasParent, IsLive

\* delete_item and delete_note leave every collection and every other member.
LEMMA DeleteKeepsParents ==
    ASSUME TypeOK, \A k \in MemberKeys : HasParent(k), NEW i \in MemberKeys,
           Bury({i}), receipts' = receipts
    PROVE  \A k \in MemberKeys : HasParent(k)'
<1>1. \A k \in Keys : live'[k] = IF k = i THEN None ELSE live[k]
  BY DEF Bury
<1>2. CollectionsStay
  BY <1>1, KindsApart DEF CollectionsStay, IsLive
<1>3. ASSUME NEW k \in MemberKeys, k # i PROVE HasParent(k)'
  BY <1>1, <1>2, <1>3, KindsApart, ParentKept
<1>4. HasParent(i)'
  BY <1>1, KindsApart DEF HasParent, IsLive
<1> QED
  BY <1>3, <1>4

\* An import deletes no collection, and the members it writes are its own.
LEMMA ImportKeepsParents ==
    ASSUME TypeOK, \A k \in MemberKeys : HasParent(k), NEW b \in Backups, Import(b)
    PROVE  \A k \in MemberKeys : HasParent(k)'
<1>1. \A k \in Keys : k \notin ConversationKeys =>
          live'[k] = IF k \in Applied(b) THEN b[k] ELSE live[k]
  BY BackupEntry DEF Import, Applied
<1>2. CollectionsStay
  <2> SUFFICES ASSUME NEW k \in CollectionKeys, IsLive(k) PROVE live'[k] # None
    BY DEF CollectionsStay
  <2>1. k \in Applied(b) => b[k] \in Record
    BY BackupEntry, KindsApart DEF Applied
  <2> QED BY <1>1, <2>1, KindsApart, ValuesAssumption DEF IsLive
<1>3. receipts' = receipts \cup {b}
  BY DEF Import
<1>4. ASSUME NEW k \in MemberKeys, k \in Applied(b) PROVE HasParent(k)'
  BY <1>1, <1>3, <1>4, KindsApart DEF HasParent, Applied
<1>5. ASSUME NEW k \in MemberKeys, k \notin Applied(b) PROVE HasParent(k)'
  BY <1>1, <1>2, <1>3, <1>5, KindsApart, ParentKept
<1> QED
  BY <1>4, <1>5

\* One case per operation that can disturb a member or a collection.
LEMMA ParentsPreserved ==
    ASSUME TypeOK, LiveOrBuried, MembersHaveParents, Next
    PROVE  MembersHaveParents'
<1>1. \A k \in MemberKeys : HasParent(k)
  BY DEF MembersHaveParents, MemberKeys, HasParent
<1>u. ASSUME UNCHANGED <<live, receipts>> PROVE \A k \in MemberKeys : HasParent(k)'
  BY <1>1, <1>u DEF HasParent, IsLive
<1>2. ASSUME NEW k \in Keys, Read(k) PROVE \A i \in MemberKeys : HasParent(i)'
  BY <1>2, <1>u DEF Read
<1>3. ASSUME NEW c \in Collections, NEW v \in Contents, CreateCollection(c, v)
      PROVE  \A i \in MemberKeys : HasParent(i)'
  <2>1. <<"collection", c>> \in Keys /\ None \in Owner
    BY DEF Keys, CollectionKeys, Owner
  <2> QED BY <1>1, <1>3, <2>1, AddKeepsParents DEF CreateCollection
<1>4. ASSUME NEW c \in Collections, NEW m \in Members, NEW v \in Contents,
             AddItem(c, m, v) \/ AddNote(c, m, v)
      PROVE  \A i \in MemberKeys : HasParent(i)'
  <2>1. /\ <<"item", m>> \in Keys /\ <<"note", m>> \in Keys /\ c \in Owner
        /\ <<"collection", c>> \in Keys
    BY DEF Keys, CollectionKeys, ItemKeys, NoteKeys, Owner
  <2>2. CASE AddItem(c, m, v)
    BY <1>1, <2>1, <2>2, AddKeepsParents DEF AddItem
  <2>3. CASE AddNote(c, m, v)
    BY <1>1, <2>1, <2>3, AddKeepsParents DEF AddNote
  <2> QED BY <1>4, <2>2, <2>3
<1>5. ASSUME NEW c \in Collections, NEW v \in Contents, NEW e \in Revisions,
             UpdateCollection(c, v, e)
      PROVE  \A i \in MemberKeys : HasParent(i)'
  <2>1. <<"collection", c>> \in CollectionKeys
    BY DEF CollectionKeys
  <2> QED BY <1>1, <1>5, <2>1, ReplaceKeepsParents DEF UpdateCollection
<1>6. ASSUME NEW c \in Collections, NEW e \in Revisions, DeleteCollection(c, e)
      PROVE  \A i \in MemberKeys : HasParent(i)'
  BY <1>1, <1>6, CascadeKeepsParents DEF DeleteCollection
<1>7. ASSUME NEW c \in Collections, NEW m \in Members, NEW v \in Contents,
             NEW e \in Revisions, UpdateNote(c, m, v, e)
      PROVE  \A i \in MemberKeys : HasParent(i)'
  <2>1. <<"note", m>> \in NoteKeys
    BY DEF NoteKeys
  <2> QED BY <1>1, <1>7, <2>1, ReplaceKeepsParents DEF UpdateNote
<1>8. ASSUME NEW c \in Collections, NEW m \in Members, NEW e \in Revisions,
             DeleteMember(c, m, e)
      PROVE  \A i \in MemberKeys : HasParent(i)'
  <2>1. MemberNamed(m) \in MemberKeys
    BY DEF MemberNamed, MemberKeys, ItemKeys, NoteKeys
  <2> QED BY <1>1, <1>8, <2>1, DeleteKeepsParents DEF DeleteMember
<1>9. ASSUME NEW b \in Backups, Import(b) \/ ImportAgain(b)
      PROVE  \A i \in MemberKeys : HasParent(i)'
  BY <1>1, <1>9, <1>u, ImportKeepsParents DEF ImportAgain, vars
<1>11. ASSUME NEW c \in Collections, RecordOperation(c)
       PROVE  \A i \in MemberKeys : HasParent(i)'
  BY <1>11, <1>u DEF RecordOperation
<1>10. \A k \in MemberKeys : HasParent(k)'
  BY <1>2, <1>3, <1>4, <1>5, <1>6, <1>7, <1>8, <1>9, <1>11 DEF Next
<1> QED
  BY <1>10 DEF MembersHaveParents, MemberKeys, HasParent

-----------------------------------------------------------------------------
\* An empty workspace satisfies the invariant.
LEMMA InitIInv == Init => IInv
  BY BoundsAssumption
     DEF Init, IInv, TypeOK, LiveOrBuried, HeldIsOlder, ImportIsIdempotent,
         MembersHaveParents, IsLive, Keys

\* No operation leaves the invariant, and each is a RecordStep.
LEMMA NextPreserves == IInv /\ [Next]_vars => IInv' /\ RecordStep
<1> SUFFICES ASSUME IInv, [Next]_vars PROVE IInv' /\ RecordStep
  OBVIOUS
<1>1. CASE UNCHANGED vars
  <2>1. RecordStep
    BY <1>1 DEF IInv, TypeOK, Tables, RecordStep, Kept, vars
  <2>2. IInv'
    BY <1>1 DEF vars, IInv, TypeOK, LiveOrBuried, HeldIsOlder, ImportIsIdempotent, Applied,
                Applies, PlansRecord, PlansTombstone, MembersHaveParents, IsLive
  <2> QED BY <2>1, <2>2
<1>2. CASE Next
  <2>1. /\ RecordStep
        /\ activity' \in [Collections -> 0..MaxActivity]
        /\ held' = held \/ \E k \in Keys : Read(k)
        /\ receipts' = receipts \/ \E b \in Backups : Import(b)
    BY <1>2, NextIsStep DEF IInv
  <2>2. LiveOrBuried'
    BY <2>1, ExclusivePreserved DEF IInv
  <2>3. HeldIsOlder' /\ held' \in {None} \cup [key: Keys, record: Record]
    <3>1. CASE held' = held
      BY <2>1, <3>1, HeldPreserved DEF IInv, TypeOK
    <3>2. CASE \E k \in Keys : Read(k)
      BY <3>2, ReadIsCurrent DEF IInv
    <3> QED BY <2>1, <3>1, <3>2
  <2>4. ImportIsIdempotent' /\ receipts' \subseteq Backups
    BY <2>1, IdempotencePreserved DEF IInv
  <2>5. MembersHaveParents'
    BY <1>2, ParentsPreserved DEF IInv
  <2>6. TypeOK'
    BY <2>1, <2>3, <2>4 DEF TypeOK, RecordStep, Tables
  <2> QED BY <2>1, <2>2, <2>3, <2>4, <2>5, <2>6 DEF IInv
<1> QED
  BY <1>1, <1>2

\* The invariant the theorems below are read off: in every reachable state of
\* the workspace.
THEOREM Invariance == Spec => []IInv
<1>1. Init => IInv
  BY InitIInv
<1>2. IInv /\ [Next]_vars => IInv'
  BY NextPreserves
<1> QED
  BY <1>1, <1>2, PTL DEF Spec

\* Records, tombstones, activity, receipts and client copies are well typed:
\* the activity history in particular never exceeds its bound.
THEOREM TypeCorrect == Spec => []TypeOK
<1>1. IInv => TypeOK
  BY DEF IInv
<1> QED
  BY <1>1, Invariance, PTL

\* A revision a client holds names one version for ever, so the
\* expected_revision of replace_in and delete_in rules out lost updates, also
\* across deletes, re-creations and imports.
THEOREM RevisionSafety == Spec => []RevisionNamesOneVersion
<1>1. IInv => RevisionNamesOneVersion
  BY DEF IInv, TypeOK, LiveOrBuried, HeldIsOlder, RevisionNamesOneVersion
<1> QED
  BY <1>1, Invariance, PTL

\* The early return of import_backup for a known digest hides no work.
THEOREM ImportSafety == Spec => []ImportIsIdempotent
<1>1. IInv => ImportIsIdempotent
  BY DEF IInv
<1> QED
  BY <1>1, Invariance, PTL

\* Only an import can leave a member without the collection it lists.
THEOREM ParentSafety == Spec => []MembersHaveParents
<1>1. IInv => MembersHaveParents
  BY DEF IInv
<1> QED
  BY <1>1, Invariance, PTL

\* No create and no backup brings a deleted record back, and tombstones never
\* go back to an older revision.
THEOREM DeletionFinality == Spec => DeletedStaysDeleted
<1> DEFINE A == \A k \in Keys :
               /\ tombstone[k] # 0 => /\ tombstone'[k] >= tombstone[k]
                                     /\ live'[k] = None
               /\ IsLive(k) /\ live'[k] = None => tombstone'[k] >= live[k].rev
<1>1. IInv /\ [Next]_vars => A
  <2> SUFFICES ASSUME IInv, [Next]_vars, NEW k \in Keys
               PROVE  /\ tombstone[k] # 0 => /\ tombstone'[k] >= tombstone[k]
                                             /\ live'[k] = None
                      /\ IsLive(k) /\ live'[k] = None => tombstone'[k] >= live[k].rev
    OBVIOUS
  <2>1. Kept(k) \/ Written(k) \/ Buried(k)
    BY NextPreserves DEF RecordStep
  <2>2. tombstone[k] \in Nat /\ (IsLive(k) => tombstone[k] = 0)
    BY BoundsAssumption DEF IInv, TypeOK, LiveOrBuried
  <2>3. tombstone'[k] \in Nat
    <3>1. RecordStep
      BY NextPreserves
    <3> QED BY <3>1, BoundsAssumption DEF RecordStep, Tables
  <2> QED
    BY <2>1, <2>2, <2>3, ValuesAssumption DEF Kept, Written, Buried, IsLive
<1> QED
  BY <1>1, Invariance, PTL DEF Spec, DeletedStaysDeleted

(***************************************************************************)
(* The opening of the database.                                            *)
(***************************************************************************)
\* A file is a record; whatever it holds, its receipts are a sequence.
FileIsRecord(f) ==
    /\ f = [id |-> f.id, tables |-> f.tables, widened |-> f.widened, applied |-> f.applied, meta |-> f.meta,
            sound |-> f.sound, ok |-> f.ok, suspect |-> f.suspect]
    /\ f.id \in Nat \ {0} /\ f.suspect \in BOOLEAN /\ f.applied \in Seq(Nat)

OpenerPlaces == {"idle", "waiting", "revalidating", "integrity", "table", "create", "receipts", "apply", "publish"}
OpenerRecord == [at : OpenerPlaces, version : 0..Latest, told : Nat, error : {"none", "state", "migration", "busy"}]

DbTypeOK ==
    /\ FileIsRecord(file)
    /\ opener \in [Openers -> OpenerRecord]
    /\ readiness \in [Processes -> [lock : Openers \cup {NoOpener}, ready : [id : Nat, version : 0..Latest]]]

\* The version a file was brought to, and one that needs nothing more.
AtLeast(f, v) == f.applied = Prefix(Len(f.applied)) /\ v <= Len(f.applied) /\ Len(f.applied) <= Latest
CurrentFile == file.sound /\ file.applied = Prefix(Latest) /\ Expected \subseteq DOMAIN file.tables

\* Nobody was told of a file that is not there yet.
ToldOfThePast ==
    /\ \A t \in Openers : opener[t].told <= file.id
    /\ \A p \in Processes : readiness[p].ready.id <= file.id

\* What a thread found out about the file on its way still holds.
CheckedSoFar(t) ==
    /\ opener[t].at \in {"table", "create", "receipts", "apply", "publish"} => file.sound
    /\ opener[t].at = "apply" => AtLeast(file, opener[t].version)
    /\ opener[t].at = "publish" => CurrentFile

ReadyInv ==
    /\ DbTypeOK
    /\ ToldOfThePast
    /\ ~file.suspect =>
         /\ \A t \in Openers : CheckedSoFar(t)
         /\ \A p \in Processes : IsReady(p) => CurrentFile
         /\ \A t \in Openers : opener[t].told = file.id => CurrentFile

LEMMA ProcessOfIs == \A t \in Openers : ProcessOf(t) \in Processes
BY DEF Openers, ProcessOf, Processes

\* The steps of the opener that leave the file alone.
Looks(t) ==
    /\ file' = file
    /\ opener' \in [Openers -> OpenerRecord]
    /\ \A o \in Openers \ {t} : opener'[o] = opener[o]
    /\ readiness' \in [Processes -> [lock : Openers \cup {NoOpener}, ready : [id : Nat, version : 0..Latest]]]
    /\ \A p \in Processes : readiness'[p].ready.id \in {0, readiness[p].ready.id}

\* and tell the thread nothing new, or what is so.
LEMMA LooksKeeps ==
    ASSUME ReadyInv, NEW t \in Openers, Looks(t), opener'[t].told <= file.id,
           ~file.suspect => CheckedSoFar(t)' /\ (opener'[t].told = file.id => CurrentFile)
    PROVE  ReadyInv'
<1>1. DbTypeOK'
  BY DEF ReadyInv, DbTypeOK, Looks
<1>2. ToldOfThePast'
  <2>1. file.id \in Nat /\ file' = file /\ ToldOfThePast
    BY DEF ReadyInv, DbTypeOK, FileIsRecord, Looks
  <2>2. \A o \in Openers : opener'[o].told <= file.id
    BY <2>1 DEF Looks, ToldOfThePast
  <2>3. \A p \in Processes : readiness'[p].ready.id <= file.id
    <3> SUFFICES ASSUME NEW p \in Processes PROVE readiness'[p].ready.id <= file.id
      OBVIOUS
    <3>1. readiness'[p].ready.id = 0 \/ readiness'[p].ready.id = readiness[p].ready.id
      BY DEF Looks
    <3> QED
      BY <2>1, <3>1 DEF ToldOfThePast
  <2> QED
    BY <2>1, <2>2, <2>3 DEF ToldOfThePast
<1>3. CurrentFile' = CurrentFile
  BY DEF CurrentFile, Looks
<1>4. ASSUME ~file.suspect PROVE \A o \in Openers : CheckedSoFar(o)'
  BY <1>3, <1>4 DEF ReadyInv, Looks, CheckedSoFar, AtLeast
<1>5. ASSUME ~file.suspect, NEW p \in Processes, IsReady(p)' PROVE CurrentFile
  BY <1>5 DEF ReadyInv, Looks, IsReady, DbTypeOK, FileIsRecord
<1>6. ASSUME ~file.suspect, NEW o \in Openers, opener'[o].told = file.id PROVE CurrentFile
  BY <1>6 DEF ReadyInv, Looks
<1> QED
  BY <1>1, <1>2, <1>3, <1>4, <1>5, <1>6 DEF ReadyInv, Looks

LEMMA RaiseKeeps ==
    ASSUME ReadyInv, NEW t \in Openers, NEW e \in {"state", "migration", "busy"}, Raise(t, e)
    PROVE  ReadyInv'
<1>1. Looks(t) /\ opener'[t].told = 0 /\ opener'[t].at = "idle"
  BY ProcessOfIs DEF Raise, Releases, Looks, ReadyInv, DbTypeOK, OpenerRecord, OpenerPlaces, Idle, Latest
<1> QED
  BY <1>1, LooksKeeps DEF CheckedSoFar, ReadyInv, DbTypeOK, FileIsRecord

\* A thread goes on to another place of ensure_initialized.
LEMMA MovesKeeps ==
    ASSUME ReadyInv, NEW t \in Openers, NEW at \in OpenerPlaces, Moves(t, at), file' = file, readiness' = readiness,
           ~file.suspect => CheckedSoFar(t)'
    PROVE  ReadyInv'
<1>1. opener[t] \in OpenerRecord /\ opener'[t] = [opener[t] EXCEPT !.at = at]
  BY DEF Moves, ReadyInv, DbTypeOK
<1>2. opener'[t] \in OpenerRecord /\ opener'[t].told = opener[t].told
  BY <1>1 DEF OpenerRecord
<1>3. Looks(t)
  BY <1>2 DEF Moves, Looks, ReadyInv, DbTypeOK
<1> QED
  BY <1>2, <1>3, LooksKeeps DEF ReadyInv, ToldOfThePast

LEMMA ToldKeeps ==
    ASSUME ReadyInv, NEW t \in Openers, Told(t), file' = file, readiness' = readiness, IsReady(ProcessOf(t))
    PROVE  ReadyInv'
<1>1. Looks(t) /\ opener'[t].told = file.id /\ opener'[t].at = "idle"
  BY DEF Told, Looks, ReadyInv, DbTypeOK, OpenerRecord, OpenerPlaces, Idle, Latest, FileIsRecord
<1>2. ~file.suspect => CurrentFile
  BY ProcessOfIs DEF ReadyInv
<1>3. opener'[t].told <= file.id
  BY <1>1 DEF ReadyInv, DbTypeOK, FileIsRecord
<1>4. CheckedSoFar(t)'
  BY <1>1 DEF CheckedSoFar
<1> QED
  BY <1>1, <1>2, <1>3, <1>4, LooksKeeps

LEMMA EnterKeeps ==
    ASSUME ReadyInv, NEW t \in Openers, EnsureInitialized(t) \/ Initialize(t) \/ Acquire(t)
    PROVE  ReadyInv'
<1>1. CASE Initialize(t)
  <2>1. Looks(t) /\ opener'[t].told = 0 /\ opener'[t].at = "revalidating"
    BY <1>1 DEF Initialize, Looks, ReadyInv, DbTypeOK, OpenerRecord, OpenerPlaces, Idle, Latest
  <2> QED
    BY <2>1, LooksKeeps DEF CheckedSoFar, ReadyInv, DbTypeOK, FileIsRecord
<1>2. CASE EnsureInitialized(t)
  <2>1. CASE IsReady(ProcessOf(t))
    BY <1>2, <2>1, ToldKeeps DEF EnsureInitialized
  <2>2. CASE ~IsReady(ProcessOf(t))
    <3>1. Looks(t) /\ opener'[t].told = 0 /\ opener'[t].at = "waiting"
      BY <1>2, <2>2 DEF EnsureInitialized, Looks, ReadyInv, DbTypeOK, OpenerRecord, OpenerPlaces, Idle, Latest
    <3> QED
      BY <3>1, LooksKeeps DEF CheckedSoFar, ReadyInv, DbTypeOK, FileIsRecord
  <2> QED
    BY <2>1, <2>2
<1>3. CASE Acquire(t)
  <2>1. CASE opener[t].at = "waiting" /\ IsReady(ProcessOf(t))
    BY <1>3, <2>1, ToldKeeps DEF Acquire
  <2>2. CASE ~(opener[t].at = "waiting" /\ IsReady(ProcessOf(t)))
    <3>1. /\ Moves(t, "integrity") /\ file' = file
          /\ readiness' = [readiness EXCEPT ![ProcessOf(t)] = [lock |-> t, ready |-> NotReady]]
      BY <1>3, <2>2 DEF Acquire
    <3>2. opener[t] \in OpenerRecord /\ opener'[t] = [opener[t] EXCEPT !.at = "integrity"]
      BY <3>1 DEF Moves, ReadyInv, DbTypeOK
    <3>3. opener'[t] \in OpenerRecord /\ opener'[t].told = opener[t].told /\ opener'[t].at = "integrity"
      BY <3>2 DEF OpenerRecord, OpenerPlaces
    <3>4. \A o \in Openers \ {t} : opener'[o] = opener[o]
      BY <3>1 DEF Moves, ReadyInv, DbTypeOK
    <3>5. /\ readiness' \in [Processes -> [lock : Openers \cup {NoOpener}, ready : [id : Nat, version : 0..Latest]]]
          /\ \A p \in Processes : readiness'[p].ready.id \in {0, readiness[p].ready.id}
      BY <3>1, ProcessOfIs DEF ReadyInv, DbTypeOK, NotReady, Latest
    <3>6. Looks(t)
      BY <3>1, <3>3, <3>4, <3>5 DEF Looks, Moves, ReadyInv, DbTypeOK
    <3> QED
      BY <3>3, <3>6, LooksKeeps DEF CheckedSoFar, ReadyInv, ToldOfThePast
  <2> QED
    BY <2>1, <2>2
<1> QED
  BY <1>1, <1>2, <1>3

LEMMA CheckKeeps ==
    ASSUME ReadyInv, NEW t \in Openers, CheckIntegrity(t) \/ EnsureMigrationTable(t) \/ ValidateShape(t) \/ Busy(t)
    PROVE  ReadyInv'
<1>0. opener \in [Openers -> OpenerRecord]
  BY DEF ReadyInv, DbTypeOK
<1>1. CASE CheckIntegrity(t)
  <2>1. CASE file.sound
    BY <1>0, <1>1, <2>1, MovesKeeps DEF CheckIntegrity, Moves, CheckedSoFar, OpenerPlaces, OpenerRecord
  <2> QED
    BY <1>1, <2>1, RaiseKeeps DEF CheckIntegrity
<1>2. CASE EnsureMigrationTable(t)
  <2>1. CASE file.meta \/ DOMAIN file.tables = {}
    <3>1. PICK at \in {"receipts", "create"} : Moves(t, at) /\ UNCHANGED <<file, readiness, disturbed>>
      BY <1>2, <2>1 DEF EnsureMigrationTable
    <3>2. opener'[t].at = at
      BY <1>0, <3>1 DEF Moves, OpenerRecord
    <3>3. ~file.suspect => file.sound
      BY <1>2 DEF EnsureMigrationTable, ReadyInv, CheckedSoFar
    <3> QED
      BY <3>1, <3>2, <3>3, MovesKeeps DEF CheckedSoFar, OpenerPlaces
  <2> QED
    BY <1>2, <2>1, RaiseKeeps DEF EnsureMigrationTable
<1>3. CASE ValidateShape(t)
  <2>1. CASE Expected \subseteq DOMAIN file.tables
    <3>1. Moves(t, "publish") /\ UNCHANGED <<file, readiness, disturbed>>
      BY <1>3, <2>1 DEF ValidateShape
    <3>2. opener'[t].at = "publish"
      BY <1>0, <3>1 DEF Moves, OpenerRecord
    <3>3. ~file.suspect => file.sound /\ AtLeast(file, Latest)
      BY <1>3 DEF ValidateShape, ReadyInv, CheckedSoFar
    <3>4. ~file.suspect => CurrentFile
      BY <2>1, <3>3 DEF AtLeast, CurrentFile, Latest, ReadyInv, DbTypeOK, FileIsRecord
    <3> QED
      BY <3>1, <3>2, <3>3, <3>4, MovesKeeps DEF CheckedSoFar, OpenerPlaces, CurrentFile
  <2> QED
    BY <1>3, <2>1, RaiseKeeps DEF ValidateShape
<1>4. CASE Busy(t)
  BY <1>4, RaiseKeeps DEF Busy
<1> QED
  BY <1>1, <1>2, <1>3, <1>4

LEMMA ReadReceiptsKeeps ==
    ASSUME ReadyInv, NEW t \in Openers, ReadReceipts(t)
    PROVE  ReadyInv'
<1>1. CASE file.meta /\ file.applied = Prefix(Len(file.applied)) /\ Len(file.applied) <= Latest
  <2>1. /\ opener' = [opener EXCEPT ![t].at = "apply", ![t].version = Len(file.applied)]
        /\ UNCHANGED <<file, readiness, disturbed>>
    BY <1>1 DEF ReadReceipts
  <2>0. Len(file.applied) \in Nat
    BY DEF ReadyInv, DbTypeOK, FileIsRecord
  <2>2. opener[t] \in OpenerRecord /\ Len(file.applied) \in 0..Latest /\ opener \in [Openers -> OpenerRecord]
    <3>1. \A n \in Nat : n <= Latest => n \in 0..Latest
      BY DEF Latest
    <3>2. Len(file.applied) \in 0..Latest
      BY <1>1, <2>0, <3>1
    <3> QED
      BY <3>2 DEF ReadyInv, DbTypeOK
  <2>3. /\ opener'[t] \in OpenerRecord /\ opener'[t].told = opener[t].told /\ opener'[t].at = "apply"
        /\ opener'[t].version = Len(file.applied)
    BY <2>1, <2>2 DEF OpenerRecord, OpenerPlaces
  <2>4. \A o \in Openers \ {t} : opener'[o] = opener[o]
    BY <2>1, <2>2
  <2>5. Looks(t)
    BY <2>1, <2>2, <2>3, <2>4 DEF Looks, ReadyInv, DbTypeOK
  <2>6. ~file.suspect => file.sound
    BY DEF ReadReceipts, ReadyInv, CheckedSoFar
  <2>7. AtLeast(file, opener'[t].version)
    BY <1>1, <2>2, <2>3 DEF AtLeast, Latest
  <2>8. ~file.suspect => CheckedSoFar(t)'
    BY <2>1, <2>3, <2>6, <2>7 DEF CheckedSoFar, AtLeast
  <2> QED
    BY <2>1, <2>3, <2>5, <2>8, LooksKeeps DEF ReadyInv, ToldOfThePast
<1> QED
  BY <1>1, RaiseKeeps DEF ReadReceipts

LEMMA CreateKeeps ==
    ASSUME ReadyInv, NEW t \in Openers, CreateMigrationTable(t)
    PROVE  ReadyInv'
<1>1. /\ file' = [file EXCEPT !.meta = TRUE] /\ readiness' = readiness
      /\ opener[t] \in OpenerRecord /\ opener' = [opener EXCEPT ![t].at = "receipts"]
  BY DEF CreateMigrationTable, Moves, ReadyInv, DbTypeOK
<1>2. /\ FileIsRecord(file') /\ file'.id = file.id /\ file'.suspect = file.suspect
      /\ file'.sound = file.sound /\ file'.applied = file.applied /\ file'.tables = file.tables
  BY <1>1 DEF FileIsRecord, ReadyInv, DbTypeOK
<1>3. /\ opener'[t] \in OpenerRecord /\ opener'[t].told = opener[t].told /\ opener'[t].at = "receipts"
      /\ \A o \in Openers \ {t} : opener'[o] = opener[o]
  BY <1>1 DEF OpenerRecord, OpenerPlaces, ReadyInv, DbTypeOK
<1>4. DbTypeOK'
  BY <1>1, <1>2, <1>3 DEF ReadyInv, DbTypeOK
<1>5. ToldOfThePast'
  BY <1>1, <1>2, <1>3 DEF ReadyInv, ToldOfThePast
<1>6. CurrentFile' = CurrentFile
  BY <1>2 DEF CurrentFile
<1>7. ~file.suspect => \A o \in Openers : CheckedSoFar(o)'
  BY <1>2, <1>3, <1>6 DEF ReadyInv, CheckedSoFar, AtLeast, CreateMigrationTable
<1>8. ~file.suspect => \A p \in Processes : IsReady(p)' => CurrentFile
  BY <1>1, <1>2 DEF ReadyInv, IsReady
<1>9. ~file.suspect => \A o \in Openers : opener'[o].told = file.id => CurrentFile
  BY <1>3 DEF ReadyInv
<1> QED
  BY <1>2, <1>4, <1>5, <1>6, <1>7, <1>8, <1>9 DEF ReadyInv

\* A migration applies to the version before it, and to no other.
LEMMA MigratedIs ==
    ASSUME NEW db, FileIsRecord(db), NEW v \in Nat
    PROVE  /\ FileIsRecord(Migrated(db, v))
           /\ Migrated(db, v).id = db.id /\ Migrated(db, v).suspect = db.suspect
           /\ Migrated(db, v).sound = db.sound /\ Migrated(db, v).applied = Append(db.applied, v)
           /\ Migrated(db, v).ok => v \notin ToSet(db.applied)
<1> DEFINE done == FoldLeft(Execute, db, Migrations[v])
           m == [db EXCEPT !.tables = done.tables, !.widened = done.widened, !.applied = Append(@, v),
                           !.ok = done.ok /\ v \notin ToSet(db.applied)]
<1> HIDE DEF done
<1>1. Migrated(db, v) = m
  BY DEF Migrated, done
<1>2. Append(db.applied, v) \in Seq(Nat)
  BY DEF FileIsRecord
<1>3. m = [id |-> db.id, tables |-> done.tables, widened |-> done.widened, applied |-> Append(db.applied, v),
           meta |-> db.meta, sound |-> db.sound, ok |-> done.ok /\ v \notin ToSet(db.applied), suspect |-> db.suspect]
  <2>1. PICK w : w = (done.ok /\ v \notin ToSet(db.applied))
    OBVIOUS
  <2>2. m = [db EXCEPT !.tables = done.tables, !.widened = done.widened, !.applied = Append(db.applied, v), !.ok = w]
    BY <2>1
  <2> HIDE DEF m
  <2>3. m = [id |-> db.id, tables |-> done.tables, widened |-> done.widened, applied |-> Append(db.applied, v),
             meta |-> db.meta, sound |-> db.sound, ok |-> w, suspect |-> db.suspect]
    BY <2>2 DEF FileIsRecord
  <2> QED
    BY <2>1, <2>3, Zenon
<1> HIDE DEF m
<1>4. /\ m.id = db.id /\ m.suspect = db.suspect /\ m.sound = db.sound /\ m.applied = Append(db.applied, v)
      /\ m.ok = (done.ok /\ v \notin ToSet(db.applied))
      /\ m = [id |-> m.id, tables |-> m.tables, widened |-> m.widened, applied |-> m.applied, meta |-> m.meta,
              sound |-> m.sound, ok |-> m.ok, suspect |-> m.suspect]
  BY <1>3
<1>5. FileIsRecord(m)
  BY <1>2, <1>4 DEF FileIsRecord
<1> QED
  BY <1>1, <1>4, <1>5

LEMMA NextVersion ==
    ASSUME NEW db, FileIsRecord(db), NEW v \in 0..Latest, v < Latest, AtLeast(db, v), Migrated(db, v + 1).ok
    PROVE  /\ Len(db.applied) = v
           /\ AtLeast(Migrated(db, v + 1), v + 1)
<1>1. /\ v \in Nat /\ v + 1 \in Nat /\ Len(db.applied) \in Nat /\ v <= Len(db.applied) /\ db.applied \in Seq(Nat)
      /\ db.applied = Prefix(Len(db.applied))
  BY DEF FileIsRecord, AtLeast, Latest
<1>2. v + 1 \notin ToSet(db.applied) /\ Migrated(db, v + 1).applied = Append(db.applied, v + 1)
  BY <1>1, MigratedIs
<1>3. ASSUME v + 1 <= Len(db.applied) PROVE FALSE
  <2>1. v + 1 \in 1..Len(db.applied) /\ v + 1 \in DOMAIN db.applied
    BY <1>1, <1>3
  <2>2. db.applied[v + 1] = v + 1
    BY <1>1, <2>1 DEF Prefix
  <2> QED
    BY <1>2, <2>1, <2>2 DEF ToSet
<1>4. Len(db.applied) = v
  BY <1>1, <1>3
<1>5. Append(Prefix(v), v + 1) = Prefix(v + 1)
  <2>1. Prefix(v) \in Seq(Nat) /\ Len(Prefix(v)) = v
    BY <1>1, <1>4
  <2>2. /\ DOMAIN Append(Prefix(v), v + 1) = 1..(v + 1) /\ Append(Prefix(v), v + 1) \in Seq(Nat)
        /\ \A i \in 1..(v + 1) : Append(Prefix(v), v + 1)[i] = IF i = v + 1 THEN v + 1 ELSE Prefix(v)[i]
    BY <1>1, <2>1
  <2>3. \A i \in 1..(v + 1) : Append(Prefix(v), v + 1)[i] = i
    BY <1>1, <2>2 DEF Prefix
  <2>4. Append(Prefix(v), v + 1) = [i \in 1..(v + 1) |-> Append(Prefix(v), v + 1)[i]]
    BY <2>2
  <2> QED
    BY <2>3, <2>4 DEF Prefix
<1>6. Len(Append(db.applied, v + 1)) = v + 1
  BY <1>1, <1>4
<1>7. Append(db.applied, v + 1) = Prefix(v + 1)
  BY <1>1, <1>4, <1>5
<1>8. v + 1 <= v + 1 /\ v + 1 <= Latest
  BY DEF Latest
<1> QED
  BY <1>2, <1>4, <1>6, <1>7, <1>8 DEF AtLeast

LEMMA ApplyKeeps ==
    ASSUME ReadyInv, NEW t \in Openers, ApplyMigration(t)
    PROVE  ReadyInv'
<1> DEFINE next == opener[t].version + 1
<1>0. /\ opener[t] \in OpenerRecord /\ opener \in [Openers -> OpenerRecord] /\ FileIsRecord(file)
      /\ opener[t].at = "apply" /\ opener[t].version < Latest
  BY DEF ApplyMigration, ReadyInv, DbTypeOK
<1>1. opener[t].version \in 0..Latest /\ next \in 0..Latest /\ next \in Nat
  BY <1>0 DEF OpenerRecord, Latest
<1> HIDE DEF next
<1>2. CASE file.meta /\ Migrated(file, next).ok
  <2>1. file' = Migrated(file, next) /\ opener' = [opener EXCEPT ![t].version = next] /\ readiness' = readiness
    BY <1>2 DEF ApplyMigration, next
  <2>2. FileIsRecord(file') /\ file'.id = file.id /\ file'.suspect = file.suspect /\ file'.sound = file.sound
    BY <1>0, <1>1, <2>1, MigratedIs
  <2>3. /\ opener'[t] \in OpenerRecord /\ opener'[t].told = opener[t].told /\ opener'[t].at = "apply"
        /\ opener'[t].version = next
        /\ \A o \in Openers \ {t} : opener'[o] = opener[o]
    BY <1>0, <1>1, <2>1 DEF OpenerRecord
  <2>4. DbTypeOK'
    BY <2>1, <2>2, <2>3 DEF ReadyInv, DbTypeOK
  <2>5. ToldOfThePast'
    BY <2>1, <2>2, <2>3 DEF ReadyInv, ToldOfThePast
  <2>6. ASSUME ~file.suspect
        PROVE  ~CurrentFile /\ \A o \in Openers : CheckedSoFar(o)'
    <3>1. file.sound /\ AtLeast(file, opener[t].version) /\ \A o \in Openers : CheckedSoFar(o)
      BY <1>0, <2>6 DEF ReadyInv, CheckedSoFar
    <3>2. Len(file.applied) = opener[t].version /\ AtLeast(file', next)
      BY <1>0, <1>1, <1>2, <2>1, <3>1, NextVersion DEF next
    <3>3. ~CurrentFile
      <4>1. Prefix(7) \in Seq(Nat) /\ Len(Prefix(7)) = 7
        BY DEF Prefix
      <4>2. opener[t].version \in Nat /\ opener[t].version < 7 /\ Len(file.applied) # 7
        BY <1>0, <1>1, <3>2 DEF Latest
      <4> QED
        BY <4>1, <4>2 DEF CurrentFile, Latest
    <3>4. \A o \in Openers : opener[o].at = "apply" => opener[o].version <= next
      <4> SUFFICES ASSUME NEW o \in Openers, opener[o].at = "apply" PROVE opener[o].version <= next
        OBVIOUS
      <4>1. opener[o].version \in Nat /\ opener[o].version <= Len(file.applied)
        BY <1>0, <3>1 DEF CheckedSoFar, AtLeast, OpenerRecord, Latest
      <4> QED
        BY <1>1, <3>2, <4>1 DEF next
    <3>5. Len(file'.applied) \in Nat
      BY <2>2 DEF FileIsRecord
    <3>6. ASSUME NEW o \in Openers PROVE CheckedSoFar(o)'
      <4>1. CASE o = t
        BY <2>2, <2>3, <3>1, <3>2, <4>1 DEF CheckedSoFar, AtLeast
      <4>2. CASE o # t
        <5>1. opener'[o] = opener[o] /\ CheckedSoFar(o) /\ opener[o].at # "publish"
          BY <2>3, <3>1, <3>3, <4>2 DEF CheckedSoFar
        <5>2. opener[o].at = "apply" => AtLeast(file', opener[o].version)
          BY <1>0, <1>1, <3>2, <3>4, <3>5 DEF AtLeast, OpenerRecord, Latest
        <5> QED
          BY <2>2, <5>1, <5>2 DEF CheckedSoFar, AtLeast
      <4> QED
        BY <4>1, <4>2
    <3> QED
      BY <3>3, <3>6
  <2>7. ~file.suspect => \A p \in Processes : ~IsReady(p)'
    BY <2>1, <2>2, <2>6 DEF ReadyInv, IsReady
  <2>8. ~file.suspect => \A o \in Openers : opener'[o].told # file'.id
    BY <2>2, <2>3, <2>6 DEF ReadyInv
  <2> QED
    BY <2>2, <2>4, <2>5, <2>6, <2>7, <2>8 DEF ReadyInv
<1> QED
  BY <1>2, RaiseKeeps DEF ApplyMigration, next

LEMMA PublishKeeps ==
    ASSUME ReadyInv, NEW t \in Openers, Publish(t)
    PROVE  ReadyInv'
<1>1. file.id \in Nat /\ file' = file /\ opener \in [Openers -> OpenerRecord]
  BY DEF Publish, ReadyInv, DbTypeOK, FileIsRecord
<1>2. /\ opener'[t] = [at |-> "idle", version |-> 0, told |-> file.id, error |-> "none"]
      /\ \A o \in Openers \ {t} : opener'[o] = opener[o]
      /\ opener' \in [Openers -> OpenerRecord]
  BY <1>1 DEF Publish, Idle, OpenerRecord, OpenerPlaces, Latest
<1>3. /\ readiness'[ProcessOf(t)] = [lock |-> NoOpener, ready |-> [id |-> file.id, version |-> Latest]]
      /\ \A p \in Processes \ {ProcessOf(t)} : readiness'[p] = readiness[p]
      /\ readiness' \in [Processes -> [lock : Openers \cup {NoOpener}, ready : [id : Nat, version : 0..Latest]]]
  BY <1>1, ProcessOfIs DEF Publish, ReadyInv, DbTypeOK, Latest
<1>4. DbTypeOK'
  BY <1>1, <1>2, <1>3 DEF ReadyInv, DbTypeOK
<1>5. ToldOfThePast'
  <2>1. \A o \in Openers : opener'[o].told <= file.id
    BY <1>1, <1>2 DEF ReadyInv, ToldOfThePast
  <2>2. \A p \in Processes : readiness'[p].ready.id <= file.id
    BY <1>1, <1>3 DEF ReadyInv, ToldOfThePast
  <2> QED
    BY <1>1, <2>1, <2>2 DEF ToldOfThePast
<1>6. ASSUME ~file.suspect PROVE CurrentFile /\ CurrentFile'
  BY <1>1, <1>6 DEF Publish, ReadyInv, CheckedSoFar, CurrentFile
<1>7. ~file.suspect => \A o \in Openers : CheckedSoFar(o)'
  BY <1>1, <1>2, <1>6 DEF ReadyInv, CheckedSoFar, AtLeast
<1> QED
  BY <1>1, <1>4, <1>5, <1>6, <1>7 DEF ReadyInv

LEMMA DiesKeeps ==
    ASSUME ReadyInv, NEW p \in Processes, Dies(p)
    PROVE  ReadyInv'
<1>1. /\ file.id \in Nat \ {0} /\ file' = file
      /\ opener \in [Openers -> OpenerRecord]
      /\ readiness \in [Processes -> [lock : Openers \cup {NoOpener}, ready : [id : Nat, version : 0..Latest]]]
      /\ opener' = [t \in Openers |-> IF ProcessOf(t) = p THEN Idle ELSE opener[t]]
      /\ readiness' = [readiness EXCEPT ![p] = [lock |-> NoOpener, ready |-> [id |-> 0, version |-> 0]]]
  BY DEF Dies, NotReady, ReadyInv, DbTypeOK, FileIsRecord
<1>2. /\ \A t \in Openers : opener'[t] \in {Idle, opener[t]}
      /\ Idle \in OpenerRecord /\ Idle.told = 0 /\ Idle.at = "idle"
  BY <1>1 DEF Idle, OpenerRecord, OpenerPlaces, Latest
<1>3. \A q \in Processes : readiness'[q].ready.id \in {0, readiness[q].ready.id}
  BY <1>1
<1>4. DbTypeOK'
  <2>1. opener' \in [Openers -> OpenerRecord]
    BY <1>1, <1>2
  <2>2. readiness' \in [Processes -> [lock : Openers \cup {NoOpener}, ready : [id : Nat, version : 0..Latest]]]
    BY <1>1 DEF Latest
  <2> QED
    BY <1>1, <2>1, <2>2 DEF ReadyInv, DbTypeOK
<1>5. ToldOfThePast'
  <2>1. \A o \in Openers : opener'[o].told <= file.id
    BY <1>1, <1>2 DEF ReadyInv, ToldOfThePast
  <2>2. \A q \in Processes : readiness'[q].ready.id <= file.id
    <3> SUFFICES ASSUME NEW q \in Processes PROVE readiness'[q].ready.id <= file.id
      OBVIOUS
    <3>1. readiness'[q].ready.id = 0 \/ readiness'[q].ready.id = readiness[q].ready.id
      BY <1>3
    <3> QED
      BY <1>1, <3>1 DEF ReadyInv, ToldOfThePast
  <2> QED
    BY <1>1, <2>1, <2>2 DEF ToldOfThePast
<1>6. CurrentFile' = CurrentFile
  BY <1>1 DEF CurrentFile
<1>7. ASSUME ~file.suspect, NEW o \in Openers PROVE CheckedSoFar(o)'
  <2>1. CASE opener'[o] = Idle
    BY <1>2, <2>1 DEF CheckedSoFar
  <2>2. CASE opener'[o] = opener[o]
    BY <1>1, <1>6, <1>7, <2>2 DEF ReadyInv, CheckedSoFar, AtLeast
  <2> QED
    BY <1>2, <2>1, <2>2
<1>8. ASSUME ~file.suspect, NEW q \in Processes, IsReady(q)' PROVE CurrentFile
  <2>1. readiness[q].ready.id = file.id
    BY <1>1, <1>3, <1>8 DEF IsReady
  <2> QED
    BY <1>8, <2>1 DEF ReadyInv, IsReady
<1>9. ASSUME ~file.suspect, NEW o \in Openers, opener'[o].told = file.id PROVE CurrentFile
  <2>1. opener[o].told = file.id
    BY <1>1, <1>2, <1>9
  <2> QED
    BY <1>9, <2>1 DEF ReadyInv
<1> QED
  BY <1>1, <1>4, <1>5, <1>6, <1>7, <1>8, <1>9 DEF ReadyInv

LEMMA ReplaceKeeps ==
    ASSUME ReadyInv, ReplaceFile, \A f \in Replacements : FileIsRecord(f)
    PROVE  ReadyInv'
<1>1. PICK f \in Replacements : file' = [f EXCEPT !.id = file.id + 1, !.suspect = Inside # {}]
  BY DEF ReplaceFile
<1>2. /\ opener' = opener /\ readiness' = readiness /\ FileIsRecord(f)
      /\ file.id \in Nat /\ ToldOfThePast /\ DbTypeOK
  BY DEF ReplaceFile, ReadyInv, DbTypeOK, FileIsRecord
<1>3. file'.id = file.id + 1 /\ file'.suspect = (Inside # {}) /\ FileIsRecord(file')
  <2>1. f = [id |-> f.id, tables |-> f.tables, widened |-> f.widened, applied |-> f.applied, meta |-> f.meta,
             sound |-> f.sound, ok |-> f.ok, suspect |-> f.suspect]
    BY <1>2 DEF FileIsRecord
  <2>2. file' = [id |-> file.id + 1, tables |-> f.tables, widened |-> f.widened, applied |-> f.applied,
                 meta |-> f.meta, sound |-> f.sound, ok |-> f.ok, suspect |-> (Inside # {})]
    BY <1>1, <2>1
  <2>3. f.applied \in Seq(Nat) /\ file.id + 1 \in Nat \ {0}
    BY <1>2 DEF FileIsRecord
  <2> QED
    BY <2>2, <2>3 DEF FileIsRecord
<1>4. DbTypeOK'
  BY <1>2, <1>3 DEF DbTypeOK
<1>5. (\A t \in Openers : opener[t].told < file'.id) /\ \A p \in Processes : readiness[p].ready.id < file'.id
  BY <1>2, <1>3 DEF ToldOfThePast, DbTypeOK, OpenerRecord
<1>6. ToldOfThePast'
  <2>1. opener \in [Openers -> OpenerRecord]
    BY <1>2 DEF DbTypeOK
  <2> QED
    BY <1>2, <1>3, <1>5 DEF ToldOfThePast, DbTypeOK, OpenerRecord
<1>7. ~file'.suspect => \A t \in Openers : CheckedSoFar(t)'
  BY <1>2, <1>3 DEF Inside, CheckedSoFar
<1>8. /\ \A p \in Processes : ~IsReady(p)'
      /\ \A t \in Openers : opener'[t].told # file'.id
  <2>1. file'.id \in Nat
    BY <1>2, <1>3
  <2> QED
    BY <1>2, <1>5, <2>1 DEF IsReady
<1> QED
  BY <1>4, <1>6, <1>7, <1>8 DEF ReadyInv

\* The files of every version exist, and are records.
LEMMA VersionsExist ==
    /\ AtVersion[0] = [EmptyDb EXCEPT !.meta = TRUE]
    /\ \A v \in 1..Latest : AtVersion[v] = Migrated(AtVersion[v - 1], v)
<1> DEFINE Step(f, v) == IF v = 0 THEN [EmptyDb EXCEPT !.meta = TRUE] ELSE Migrated(f[v - 1], v)
           a0 == [EmptyDb EXCEPT !.meta = TRUE]
           a1 == Migrated(a0, 1)
           a2 == Migrated(a1, 2)
           a3 == Migrated(a2, 3)
           a4 == Migrated(a3, 4)
           a5 == Migrated(a4, 5)
           a6 == Migrated(a5, 6)
           a7 == Migrated(a6, 7)
           g == [v \in 0..Latest |-> CASE v = 0 -> a0 [] v = 1 -> a1 [] v = 2 -> a2 [] v = 3 -> a3
                                       [] v = 4 -> a4 [] v = 5 -> a5 [] v = 6 -> a6 [] v = 7 -> a7]
<1>1. g = [v \in 0..Latest |-> Step(g, v)]
  <2>1. /\ a1 = Migrated(a0, 1) /\ a2 = Migrated(a1, 2) /\ a3 = Migrated(a2, 3) /\ a4 = Migrated(a3, 4)
        /\ a5 = Migrated(a4, 5) /\ a6 = Migrated(a5, 6) /\ a7 = Migrated(a6, 7)
    OBVIOUS
  <2> HIDE DEF a0, a1, a2, a3, a4, a5, a6, a7
  <2>2. /\ g[0] = a0 /\ g[1] = a1 /\ g[2] = a2 /\ g[3] = a3 /\ g[4] = a4 /\ g[5] = a5 /\ g[6] = a6 /\ g[7] = a7
        /\ g = [v \in 0..Latest |-> g[v]]
    BY DEF Latest
  <2> HIDE DEF g
  <2>3. a0 = [EmptyDb EXCEPT !.meta = TRUE]
    BY DEF a0
  <2>4. \A v \in 0..Latest : g[v] = Step(g, v)
    <3> SUFFICES ASSUME NEW v \in 0..Latest PROVE g[v] = Step(g, v)
      OBVIOUS
    <3>1. v \in {0, 1, 2, 3, 4, 5, 6, 7}
      BY DEF Latest
    <3>2. CASE v = 0
      BY <2>2, <2>3, <3>2
    <3>3. CASE v # 0
      <4>1. Step(g, v) = Migrated(g[v - 1], v)
        BY <3>3
      <4>2. g[v] = Migrated(g[v - 1], v)
        BY <2>1, <2>2, <3>1, <3>3
      <4> QED
        BY <4>1, <4>2
    <3> QED
      BY <3>2, <3>3
  <2> QED
    BY <2>2, <2>4
<1> HIDE DEF g
<1>2. AtVersion = CHOOSE f : f = [v \in 0..Latest |-> Step(f, v)]
  BY DEF AtVersion
<1>3. AtVersion = [v \in 0..Latest |-> Step(AtVersion, v)]
  BY <1>1, <1>2, Zenon
<1>4. \A v \in 0..Latest : AtVersion[v] = Step(AtVersion, v)
  BY <1>3, Zenon
<1>5. 0 \in 0..Latest /\ \A v \in 1..Latest : v \in 0..Latest /\ v # 0
  BY DEF Latest
<1> QED
  BY <1>4, <1>5, Zenon

LEMMA VersionIsRecord == \A v \in 0..Latest : FileIsRecord(AtVersion[v])
<1>0. FileIsRecord(AtVersion[0])
  <2>1. FileIsRecord(EmptyDb)
    BY DEF EmptyDb, FileIsRecord
  <2>2. AtVersion[0] = [id |-> 1, tables |-> << >>, widened |-> {}, applied |-> << >>, meta |-> TRUE,
                        sound |-> TRUE, ok |-> TRUE, suspect |-> FALSE]
    BY VersionsExist DEF EmptyDb
  <2> QED
    BY <2>2 DEF FileIsRecord
<1>1. \A v \in 1..Latest : FileIsRecord(AtVersion[v - 1]) => FileIsRecord(AtVersion[v])
  <2> SUFFICES ASSUME NEW v \in 1..Latest, FileIsRecord(AtVersion[v - 1]) PROVE FileIsRecord(AtVersion[v])
    OBVIOUS
  <2>1. v \in Nat
    BY DEF Latest
  <2> QED
    BY <2>1, VersionsExist, MigratedIs
<1>2. FileIsRecord(AtVersion[1])
  BY <1>0, <1>1 DEF Latest
<1>3. FileIsRecord(AtVersion[2])
  BY <1>1, <1>2 DEF Latest
<1>4. FileIsRecord(AtVersion[3])
  BY <1>1, <1>3 DEF Latest
<1>5. FileIsRecord(AtVersion[4])
  BY <1>1, <1>4 DEF Latest
<1>6. FileIsRecord(AtVersion[5])
  BY <1>1, <1>5 DEF Latest
<1>7. FileIsRecord(AtVersion[6])
  BY <1>1, <1>6 DEF Latest
<1>8. FileIsRecord(AtVersion[7])
  BY <1>1, <1>7 DEF Latest
<1> QED
  BY <1>0, <1>2, <1>3, <1>4, <1>5, <1>6, <1>7, <1>8 DEF Latest

\* A record stays one with other tables, other receipts, or damage.
LEMMA ChangedIsRecord ==
    ASSUME NEW f, FileIsRecord(f), NEW x
    PROVE  /\ FileIsRecord([f EXCEPT !.tables = x])
           /\ FileIsRecord([f EXCEPT !.sound = x])
           /\ x \in Seq(Nat) => FileIsRecord([f EXCEPT !.applied = x])
<1>1. [f EXCEPT !.tables = x] = [id |-> f.id, tables |-> x, widened |-> f.widened, applied |-> f.applied,
                                 meta |-> f.meta, sound |-> f.sound, ok |-> f.ok, suspect |-> f.suspect]
  BY DEF FileIsRecord
<1>2. [f EXCEPT !.sound = x] = [id |-> f.id, tables |-> f.tables, widened |-> f.widened, applied |-> f.applied,
                                meta |-> f.meta, sound |-> x, ok |-> f.ok, suspect |-> f.suspect]
  BY DEF FileIsRecord
<1>3. [f EXCEPT !.applied = x] = [id |-> f.id, tables |-> f.tables, widened |-> f.widened, applied |-> x,
                                  meta |-> f.meta, sound |-> f.sound, ok |-> f.ok, suspect |-> f.suspect]
  BY DEF FileIsRecord
<1>4. f.id \in Nat \ {0} /\ f.suspect \in BOOLEAN /\ f.applied \in Seq(Nat)
  BY DEF FileIsRecord
<1>5. FileIsRecord([f EXCEPT !.tables = x])
  BY <1>1, <1>4 DEF FileIsRecord
<1>6. FileIsRecord([f EXCEPT !.sound = x])
  BY <1>2, <1>4 DEF FileIsRecord
<1>7. x \in Seq(Nat) => FileIsRecord([f EXCEPT !.applied = x])
  BY <1>3, <1>4 DEF FileIsRecord
<1> QED
  BY <1>5, <1>6, <1>7

LEMMA FilesAreRecords ==
    /\ \A f \in Files : FileIsRecord(f)
    /\ \A f \in Replacements : FileIsRecord(f)
<1>1. FileIsRecord(EmptyDb)
  BY DEF EmptyDb, FileIsRecord
<1>2. \A v \in {0, 3, 5, 7} : FileIsRecord(Used(v))
  <2>1. \A v \in {0, 3, 5, 7} : FileIsRecord(AtVersion[v])
    BY VersionIsRecord DEF Latest
  <2>2. ASSUME NEW v \in {0, 3, 5, 7} PROVE \E x : Used(v) = [AtVersion[v] EXCEPT !.tables = x]
    BY DEF Used
  <2>3. ASSUME NEW v \in {0, 3, 5, 7} PROVE FileIsRecord(Used(v))
    <3>1. PICK x : Used(v) = [AtVersion[v] EXCEPT !.tables = x]
      BY <2>2
    <3>2. FileIsRecord(AtVersion[v])
      BY <2>1
    <3>3. FileIsRecord([AtVersion[v] EXCEPT !.tables = x])
      BY <3>2, ChangedIsRecord
    <3> QED
      BY <3>1, <3>3
  <2> QED
    BY <2>3
<1>3. FileIsRecord([EmptyDb EXCEPT !.tables = "other" :> {1}])
  BY <1>1, ChangedIsRecord
<1>4. /\ FileIsRecord([Used(7) EXCEPT !.sound = FALSE])
      /\ FileIsRecord([Used(7) EXCEPT !.applied = <<1, 2, 4>>])
      /\ FileIsRecord([Used(7) EXCEPT !.tables = Without(@, "notes")])
  <2>1. <<1, 2, 4>> \in Seq(Nat)
    OBVIOUS
  <2> QED
    BY <1>2, <2>1, ChangedIsRecord
<1>5. FileIsRecord([Used(7) EXCEPT !.applied = Append(@, 8)])
  <2>1. Append(Used(7).applied, 8) \in Seq(Nat)
    BY <1>2 DEF FileIsRecord
  <2> QED
    BY <1>2, <2>1, ChangedIsRecord
<1>6. \A f \in Replacements : FileIsRecord(f)
  BY <1>1, <1>2 DEF Replacements
<1>7. ASSUME NEW f \in Files PROVE FileIsRecord(f)
  BY <1>1, <1>2, <1>3, <1>4, <1>5, <1>7 DEF Files
<1> QED
  BY <1>6, <1>7

LEMMA DbStepKeeps ==
    ASSUME ReadyInv, [DbNext]_dbVars
    PROVE  ReadyInv'
<1>1. CASE UNCHANGED dbVars
  BY <1>1 DEF dbVars, ReadyInv, DbTypeOK, FileIsRecord, ToldOfThePast, CheckedSoFar, AtLeast, CurrentFile, IsReady
<1>2. ASSUME NEW t \in Openers, EnsureInitialized(t) \/ Initialize(t) \/ Acquire(t) PROVE ReadyInv'
  BY <1>2, EnterKeeps
<1>3. ASSUME NEW t \in Openers, CheckIntegrity(t) \/ EnsureMigrationTable(t) \/ ValidateShape(t) \/ Busy(t)
      PROVE ReadyInv'
  BY <1>3, CheckKeeps
<1>4. ASSUME NEW t \in Openers, CreateMigrationTable(t) PROVE ReadyInv'
  BY <1>4, CreateKeeps
<1>5. ASSUME NEW t \in Openers, ReadReceipts(t) PROVE ReadyInv'
  BY <1>5, ReadReceiptsKeeps
<1>6. ASSUME NEW t \in Openers, ApplyMigration(t) PROVE ReadyInv'
  BY <1>6, ApplyKeeps
<1>7. ASSUME NEW t \in Openers, Publish(t) PROVE ReadyInv'
  BY <1>7, PublishKeeps
<1>8. CASE Dies("a")
  BY <1>8, DiesKeeps DEF Processes
<1>9. CASE ReplaceFile
  BY <1>9, ReplaceKeeps, FilesAreRecords
<1> QED
  BY <1>1, <1>2, <1>3, <1>4, <1>5, <1>6, <1>7, <1>8, <1>9 DEF DbNext

LEMMA ReadyHolds ==
    ASSUME NEW found, \A f \in found : FileIsRecord(f)
    PROVE  FoundOnDisk(found) /\ [][DbNext]_dbVars => []ReadyInv
<1>1. FoundOnDisk(found) => ReadyInv
  <2> SUFFICES ASSUME FoundOnDisk(found) PROVE ReadyInv
    OBVIOUS
  <2>1. FileIsRecord(file) /\ file.id \in Nat \ {0}
    BY DEF FoundOnDisk, FileIsRecord
  <2>2. /\ \A t \in Openers : opener[t].told = 0 /\ opener[t].at = "idle"
        /\ \A p \in Processes : readiness[p].ready.id = 0
    BY DEF FoundOnDisk, Idle, NotReady
  <2>3. DbTypeOK
    BY <2>1 DEF FoundOnDisk, DbTypeOK, Idle, NotReady, OpenerRecord, OpenerPlaces, Latest
  <2> QED
    BY <2>1, <2>2, <2>3 DEF ReadyInv, ToldOfThePast, CheckedSoFar, IsReady
<1>2. ReadyInv /\ [DbNext]_dbVars => ReadyInv'
  BY DbStepKeeps
<1> QED
  BY <1>1, <1>2, PTL

(* A thread that was told that the database is ready works on a sound file *)
(* of the current version with every table, whatever files were found: of  *)
(* any version, with any receipts, foreign, damaged, or short of a table   *)
(* (database.py, ensure_initialized; migrations.py).                       *)
THEOREM OpenedIsCurrent ==
    ASSUME NEW found, \A f \in found : FileIsRecord(f)
    PROVE  FoundOnDisk(found) /\ [][DbNext]_dbVars => []ReadyIsCurrent
<1>1. ReadyInv => ReadyIsCurrent
  BY DEF ReadyInv, ReadyIsCurrent, CurrentFile
<1> QED
  BY <1>1, ReadyHolds, PTL

(* The same of the files the service may find (database.py,                *)
(* ensure_initialized).                                                    *)
THEOREM OpeningSafety == DbSpec => []ReadyIsCurrent
<1>1. DbInit => FoundOnDisk(Files)
  BY DEF DbInit
<1>2. FoundOnDisk(Files) /\ [][DbNext]_dbVars => []ReadyIsCurrent
  BY FilesAreRecords, OpenedIsCurrent
<1> QED
  BY <1>1, <1>2, PTL DEF DbSpec

(***************************************************************************)
(* One thread migrates at a time.                                          *)
(***************************************************************************)
\* A thread that validates holds its process's lock, so that only a thread
\* of another process can be there too, and then both are disturbed.
LocksAreHeld == \A t \in Inside : readiness[ProcessOf(t)].lock = t
Strangers == \A t, o \in Inside : ProcessOf(t) # ProcessOf(o) => t \in disturbed

\* The next migration of an undisturbed thread is the file's next.
AppliesOnTop ==
    \A t \in Openers \ disturbed : opener[t].at = "apply" => file.applied = Prefix(opener[t].version)

\* What a thread alone with its file may count on.
MigratesAlone ==
    /\ \A t \in Inside \ disturbed : Inside = {t}
    /\ AppliesOnTop

LockInv ==
    /\ DbTypeOK
    /\ LocksAreHeld
    /\ Strangers
    /\ AppliesOnTop

Sections == {"integrity", "table", "create", "receipts", "apply", "publish"}

LEMMA InsideIs == ASSUME DbTypeOK PROVE Inside = {t \in Openers : opener[t].at \in Sections}
BY DEF DbTypeOK, OpenerRecord, OpenerPlaces, Inside, Sections

LEMMA AloneUnlessDisturbed == ASSUME LockInv PROVE MigratesAlone
<1> SUFFICES ASSUME NEW t \in Inside \ disturbed PROVE Inside = {t}
  BY DEF LockInv, MigratesAlone
<1>1. ASSUME NEW o \in Inside PROVE o = t
  <2>1. ProcessOf(o) = ProcessOf(t)
    BY DEF LockInv, Strangers
  <2> QED
    BY <2>1 DEF LockInv, LocksAreHeld
<1> QED
  BY <1>1

\* A thread that does not enter the section, and leaves the file alone.
LEMMA StaysOut ==
    ASSUME LockInv, DbTypeOK', NEW t \in Openers, file'.applied = file.applied, disturbed' = disturbed,
           opener'[t].at \in {"idle", "waiting", "revalidating"},
           \A o \in Openers \ {t} : opener'[o] = opener[o],
           \A o \in Openers \ {t} : o \in Inside => readiness'[ProcessOf(o)].lock = readiness[ProcessOf(o)].lock
    PROVE  LockInv'
<1>1. Inside' = Inside \ {t}
  BY DEF Inside
<1>2. LocksAreHeld'
  BY <1>1 DEF LockInv, LocksAreHeld, Inside
<1>3. Strangers'
  BY <1>1 DEF LockInv, Strangers
<1>4. AppliesOnTop'
  BY DEF LockInv, AppliesOnTop
<1> QED
  BY <1>2, <1>3, <1>4 DEF LockInv

LEMMA LockReleases ==
    ASSUME LockInv, DbTypeOK', NEW t \in Inside, file' = file, disturbed' = disturbed, opener'[t].at = "idle",
           \A o \in Openers \ {t} : opener'[o] = opener[o],
           \A p \in Processes \ {ProcessOf(t)} : readiness'[p] = readiness[p]
    PROVE  LockInv'
<1>1. t \in Openers
  BY DEF Inside
<1>2. ASSUME NEW o \in Openers \ {t}, o \in Inside PROVE ProcessOf(o) # ProcessOf(t)
  BY <1>2 DEF LockInv, LocksAreHeld
<1>3. \A o \in Openers \ {t} : o \in Inside => readiness'[ProcessOf(o)].lock = readiness[ProcessOf(o)].lock
  BY <1>2, ProcessOfIs
<1> QED
  BY <1>1, <1>3, StaysOut

LEMMA RaiseReleases ==
    ASSUME LockInv, ReadyInv', NEW t \in Inside, NEW e \in {"state", "migration", "busy"}, Raise(t, e)
    PROVE  LockInv'
<1>1. t \in Openers /\ opener \in [Openers -> OpenerRecord] /\ DbTypeOK'
  BY DEF Inside, LockInv, DbTypeOK, ReadyInv
<1>2. opener'[t].at = "idle" /\ \A o \in Openers \ {t} : opener'[o] = opener[o]
  BY <1>1 DEF Raise, Idle
<1>3. \A p \in Processes \ {ProcessOf(t)} : readiness'[p] = readiness[p]
  BY ProcessOfIs DEF Raise, Releases, LockInv, DbTypeOK
<1> QED
  BY <1>1, <1>2, <1>3, LockReleases DEF Raise

\* A thread that goes on inside; what it writes is written on top.
LEMMA GoesOnInside ==
    ASSUME LockInv, DbTypeOK', NEW t \in Inside, disturbed' = disturbed, readiness' = readiness,
           opener'[t].at \in Sections, \A o \in Openers \ {t} : opener'[o] = opener[o],
           file'.applied = file.applied \/ opener[t].at = "apply",
           t \notin disturbed /\ opener'[t].at = "apply" => file'.applied = Prefix(opener'[t].version)
    PROVE  LockInv'
<1>0. t \in Openers /\ DbTypeOK
  BY DEF Inside, LockInv
<1>1. Inside' = Inside
  <2>1. Inside' = {o \in Openers : opener'[o].at \in Sections}
    BY DEF DbTypeOK, OpenerRecord, OpenerPlaces, Inside, Sections
  <2> QED
    BY <1>0, <2>1, InsideIs
<1>2. LocksAreHeld' /\ Strangers'
  BY <1>1 DEF LockInv, LocksAreHeld, Strangers, Inside
<1>3. ASSUME NEW o \in Openers \ disturbed, opener'[o].at = "apply" PROVE file'.applied = Prefix(opener'[o].version)
  <2>1. CASE o = t
    BY <1>3, <2>1
  <2>2. CASE o # t
    <3>1. o \in Inside /\ opener'[o] = opener[o]
      BY <1>0, <1>3, <2>2, InsideIs DEF Sections
    <3>2. Inside = {o}
      BY <3>1, AloneUnlessDisturbed DEF MigratesAlone
    <3> QED
      BY <2>2, <3>2
  <2> QED
    BY <2>1, <2>2
<1> QED
  BY <1>2, <1>3 DEF LockInv, AppliesOnTop

LEMMA AcquireLocks ==
    ASSUME LockInv, ReadyInv', NEW t \in Openers, Acquire(t)
    PROVE  LockInv'
<1>0. opener \in [Openers -> OpenerRecord] /\ DbTypeOK /\ DbTypeOK' /\ file' = file /\ t \notin Inside
  BY DEF LockInv, DbTypeOK, ReadyInv, Acquire, Inside
<1>1. CASE opener[t].at = "waiting" /\ IsReady(ProcessOf(t))
  <2>1. opener'[t].at = "idle" /\ \A o \in Openers \ {t} : opener'[o] = opener[o]
    BY <1>0, <1>1 DEF Acquire, Told, Idle
  <2> QED
    BY <1>0, <1>1, <2>1, StaysOut DEF Acquire
<1>2. CASE ~(opener[t].at = "waiting" /\ IsReady(ProcessOf(t)))
  <2>1. opener'[t].at = "integrity" /\ \A o \in Openers \ {t} : opener'[o] = opener[o]
    <3>1. Moves(t, "integrity")
      BY <1>2 DEF Acquire
    <3> QED
      BY <1>0, <3>1 DEF Moves, OpenerRecord
  <2>2. /\ readiness' = [readiness EXCEPT ![ProcessOf(t)] = [lock |-> t, ready |-> NotReady]]
        /\ readiness[ProcessOf(t)].lock = NoOpener
        /\ disturbed' = (disturbed \ {t}) \cup
               {o \in Openers : \E x, y \in {t} \cup Inside : o \in {x, y} /\ ProcessOf(x) # ProcessOf(y)}
    BY <1>2 DEF Acquire, MayEnter
  <2>3. Inside' = Inside \cup {t}
    <3>1. Inside' = {o \in Openers : opener'[o].at \in Sections}
      BY <1>0 DEF DbTypeOK, OpenerRecord, OpenerPlaces, Inside, Sections
    <3> QED
      BY <1>0, <2>1, <3>1, InsideIs DEF Sections
  <2>4. ASSUME NEW o \in Inside PROVE ProcessOf(o) # ProcessOf(t)
    BY <2>2 DEF LockInv, LocksAreHeld, Inside, Openers, NoOpener
  <2>5. LocksAreHeld'
    <3>1. readiness'[ProcessOf(t)].lock = t
      BY <1>0, <2>2, ProcessOfIs DEF DbTypeOK
    <3>2. ASSUME NEW o \in Inside PROVE readiness'[ProcessOf(o)].lock = o
      BY <1>0, <2>2, <2>4, <3>2, ProcessOfIs DEF DbTypeOK, LockInv, LocksAreHeld, Inside
    <3> QED
      BY <2>3, <3>1, <3>2 DEF LocksAreHeld
  <2>6. Strangers'
    <3> SUFFICES ASSUME NEW o \in Inside', NEW q \in Inside', ProcessOf(o) # ProcessOf(q) PROVE o \in disturbed'
      BY DEF Strangers
    <3>1. o \in {t} \cup Inside /\ q \in {t} \cup Inside /\ o \in Openers
      BY <2>3 DEF Inside
    <3> QED
      BY <2>2, <3>1
  <2>7. AppliesOnTop'
    <3> SUFFICES ASSUME NEW o \in Openers \ disturbed', opener'[o].at = "apply"
                 PROVE  file'.applied = Prefix(opener'[o].version)
      BY DEF AppliesOnTop
    <3>1. o # t /\ o \notin disturbed
      BY <2>1, <2>2
    <3> QED
      BY <1>0, <2>1, <3>1 DEF LockInv, AppliesOnTop
  <2> QED
    BY <1>0, <2>5, <2>6, <2>7 DEF LockInv
<1> QED
  BY <1>1, <1>2

LEMMA MovesOn ==
    ASSUME LockInv, ReadyInv', NEW t \in Inside, NEW at \in Sections \ {"apply"}, Moves(t, at),
           file'.applied = file.applied, readiness' = readiness, disturbed' = disturbed
    PROVE  LockInv'
<1>1. t \in Openers /\ opener \in [Openers -> OpenerRecord] /\ DbTypeOK'
  BY DEF LockInv, DbTypeOK, Inside, ReadyInv
<1>2. opener'[t].at = at /\ \A o \in Openers \ {t} : opener'[o] = opener[o]
  BY <1>1 DEF Moves, OpenerRecord
<1> QED
  BY <1>1, <1>2, GoesOnInside

LEMMA ThreadLocks ==
    ASSUME LockInv, ReadyInv, ReadyInv', NEW t \in Openers,
           \/ CheckIntegrity(t) \/ EnsureMigrationTable(t) \/ CreateMigrationTable(t) \/ ReadReceipts(t)
           \/ ApplyMigration(t) \/ ValidateShape(t) \/ Publish(t) \/ Busy(t)
    PROVE  LockInv'
<1>0. t \in Inside /\ opener \in [Openers -> OpenerRecord] /\ DbTypeOK /\ DbTypeOK'
  BY DEF LockInv, DbTypeOK, ReadyInv, Inside, CheckIntegrity, EnsureMigrationTable, CreateMigrationTable, ReadReceipts,
         ApplyMigration, ValidateShape, Publish, Busy
<1>1. CASE CheckIntegrity(t)
  BY <1>0, <1>1, MovesOn, RaiseReleases DEF CheckIntegrity, Sections
<1>2. CASE EnsureMigrationTable(t)
  BY <1>0, <1>2, MovesOn, RaiseReleases DEF EnsureMigrationTable, Sections
<1>3. CASE CreateMigrationTable(t)
  <2>1. file'.applied = file.applied
    BY <1>0, <1>3 DEF CreateMigrationTable, DbTypeOK, FileIsRecord
  <2> QED
    BY <1>0, <1>3, <2>1, MovesOn DEF CreateMigrationTable, Sections
<1>4. CASE ReadReceipts(t)
  <2>1. CASE file.meta /\ file.applied = Prefix(Len(file.applied)) /\ Len(file.applied) <= Latest
    <3>1. /\ opener' = [opener EXCEPT ![t].at = "apply", ![t].version = Len(file.applied)]
          /\ UNCHANGED <<file, readiness, disturbed>>
      BY <1>4, <2>1 DEF ReadReceipts
    <3>2. /\ opener'[t].at = "apply" /\ opener'[t].version = Len(file.applied)
          /\ \A o \in Openers \ {t} : opener'[o] = opener[o]
      BY <1>0, <3>1 DEF OpenerRecord
    <3> QED
      BY <1>0, <2>1, <3>1, <3>2, GoesOnInside DEF Sections
  <2> QED
    BY <1>0, <1>4, <2>1, RaiseReleases DEF ReadReceipts
<1>5. CASE ApplyMigration(t)
  <2> DEFINE next == opener[t].version + 1
  <2>1. opener[t].at = "apply" /\ opener[t].version \in 0..Latest /\ opener[t].version < Latest /\ FileIsRecord(file)
    BY <1>0, <1>5 DEF ApplyMigration, OpenerRecord, DbTypeOK, Inside
  <2>2. CASE file.meta /\ Migrated(file, next).ok
    <3>1. /\ file' = Migrated(file, next) /\ opener' = [opener EXCEPT ![t].version = next]
          /\ readiness' = readiness /\ disturbed' = disturbed
      BY <1>5, <2>2 DEF ApplyMigration
    <3>2. /\ opener'[t].at = "apply" /\ opener'[t].version = next
          /\ \A o \in Openers \ {t} : opener'[o] = opener[o]
      BY <1>0, <2>1, <3>1 DEF OpenerRecord, Inside
    <3>3. ASSUME t \notin disturbed PROVE file'.applied = Prefix(next)
      <4>1. file.applied = Prefix(opener[t].version) /\ opener[t].version \in Nat
        BY <1>0, <2>1, <3>3 DEF LockInv, AppliesOnTop, Latest
      <4>2. Len(file.applied) = opener[t].version
        BY <4>1 DEF Prefix
      <4>3. AtLeast(file, opener[t].version)
        BY <2>1, <4>1, <4>2 DEF AtLeast
      <4>4. AtLeast(file', next) /\ Len(file'.applied) = next
        <5>1. next \in Nat /\ file'.applied = Append(file.applied, next) /\ file.applied \in Seq(Nat)
          BY <2>1, <3>1, <4>1, MigratedIs DEF FileIsRecord
        <5> QED
          BY <2>1, <2>2, <3>1, <4>2, <4>3, <5>1, NextVersion
      <4> QED
        BY <4>4 DEF AtLeast
    <3> QED
      BY <1>0, <2>1, <3>1, <3>2, <3>3, GoesOnInside DEF Sections
  <2> QED
    BY <1>0, <1>5, <2>2, RaiseReleases DEF ApplyMigration
<1>6. CASE ValidateShape(t)
  BY <1>0, <1>6, MovesOn, RaiseReleases DEF ValidateShape, Sections
<1>7. CASE Publish(t)
  <2>1. /\ opener'[t].at = "idle" /\ \A o \in Openers \ {t} : opener'[o] = opener[o]
        /\ \A p \in Processes \ {ProcessOf(t)} : readiness'[p] = readiness[p]
        /\ file' = file /\ disturbed' = disturbed
    BY <1>0, <1>7 DEF Publish, Idle, DbTypeOK
  <2> QED
    BY <1>0, <2>1, LockReleases
<1>8. CASE Busy(t)
  BY <1>0, <1>8, RaiseReleases DEF Busy
<1> QED
  BY <1>1, <1>2, <1>3, <1>4, <1>5, <1>6, <1>7, <1>8

LEMMA LockStep ==
    ASSUME LockInv, ReadyInv, ReadyInv', [DbNext]_dbVars
    PROVE  LockInv'
<1>0. opener \in [Openers -> OpenerRecord] /\ DbTypeOK /\ DbTypeOK'
  BY DEF LockInv, ReadyInv, DbTypeOK
<1>1. CASE UNCHANGED dbVars
  BY <1>0, <1>1 DEF dbVars, LockInv, LocksAreHeld, Strangers, AppliesOnTop, Inside
<1>2. ASSUME NEW t \in Openers, EnsureInitialized(t) \/ Initialize(t) PROVE LockInv'
  <2>1. /\ opener'[t].at \in {"idle", "waiting", "revalidating"} /\ \A o \in Openers \ {t} : opener'[o] = opener[o]
        /\ UNCHANGED <<file, readiness, disturbed>>
    BY <1>0, <1>2 DEF EnsureInitialized, Initialize, Told, Idle
  <2> QED
    BY <1>0, <2>1, StaysOut
<1>3. ASSUME NEW t \in Openers, Acquire(t) PROVE LockInv'
  BY <1>3, AcquireLocks
<1>4. ASSUME NEW t \in Openers,
             \/ CheckIntegrity(t) \/ EnsureMigrationTable(t) \/ CreateMigrationTable(t) \/ ReadReceipts(t)
             \/ ApplyMigration(t) \/ ValidateShape(t) \/ Publish(t) \/ Busy(t)
      PROVE  LockInv'
  BY <1>4, ThreadLocks
<1>5. CASE Dies("a")
  <2>1. /\ \A t \in Openers : opener'[t] = IF ProcessOf(t) = "a" THEN Idle ELSE opener[t]
        /\ readiness' = [readiness EXCEPT !["a"] = [lock |-> NoOpener, ready |-> NotReady]]
        /\ file' = file /\ disturbed' = disturbed
    BY <1>5 DEF Dies
  <2>2. \A t \in Inside' : t \in Inside /\ ProcessOf(t) # "a" /\ opener'[t] = opener[t]
    BY <2>1 DEF Inside, Idle
  <2>3. LocksAreHeld' /\ Strangers'
    BY <1>0, <2>1, <2>2, ProcessOfIs DEF LockInv, LocksAreHeld, Strangers, DbTypeOK, Inside
  <2>4. AppliesOnTop'
    BY <2>1 DEF LockInv, AppliesOnTop, Idle
  <2> QED
    BY <1>0, <2>3, <2>4 DEF LockInv
<1>6. CASE ReplaceFile
  <2>1. opener' = opener /\ readiness' = readiness /\ disturbed' = disturbed \cup Inside
    BY <1>6 DEF ReplaceFile
  <2>2. Inside' = Inside
    BY <2>1 DEF Inside
  <2>3. \A t \in Openers \ disturbed' : opener'[t].at # "apply"
    BY <1>0, <2>1, InsideIs DEF Sections
  <2>4. LocksAreHeld' /\ Strangers' /\ AppliesOnTop'
    BY <2>1, <2>2, <2>3 DEF LockInv, LocksAreHeld, Strangers, AppliesOnTop, Inside
  <2> QED
    BY <1>0, <2>4 DEF LockInv
<1> QED
  BY <1>1, <1>2, <1>3, <1>4, <1>5, <1>6 DEF DbNext

(* A thread that no second process and no other file disturbed is alone    *)
(* inside, and applies each migration on top of exactly those before it:   *)
(* the threads of one process never apply a migration twice, whichever     *)
(* files were found (database.py, ensure_initialized and its lock).        *)
THEOREM MigrationSafety ==
    ASSUME NEW found, \A f \in found : FileIsRecord(f)
    PROVE  FoundOnDisk(found) /\ [][DbNext]_dbVars => []MigratesAlone
<1>1. FoundOnDisk(found) /\ ReadyInv => LockInv
  BY DEF FoundOnDisk, Idle, LockInv, LocksAreHeld, Strangers, AppliesOnTop, Inside, ReadyInv
<1>2. LockInv /\ ReadyInv /\ ReadyInv' /\ [DbNext]_dbVars => LockInv'
  BY LockStep
<1>3. LockInv => MigratesAlone
  BY AloneUnlessDisturbed
<1> QED
  BY <1>1, <1>2, <1>3, ReadyHolds, PTL

(***************************************************************************)
(* The Agent's run.                                                        *)
(***************************************************************************)
\* What freeze_plan makes of a request, as far as the proofs look at it.
PlanIsFrozen(p) == p.calls \in Nat /\ p.unique \in BOOLEAN /\ p.research \in BOOLEAN

\* AgentState and the research session are records, whatever they hold.
TurnIsRecord(t) ==
    t = [at |-> t.at, decision |-> t.decision, status |-> t.status, code |-> t.code, steps |-> t.steps,
         decisions |-> t.decisions, calls |-> t.calls, perTool |-> t.perTool, observed |-> t.observed,
         seen |-> t.seen]
LedgerIsRecord(l) ==
    l = [entries |-> l.entries, seen |-> l.seen, capped |-> l.capped, attempts |-> l.attempts]

Calling == Tools \X {"A", "B"}

\* What was started is what the orchestrator remembers while it runs.
CallsAreCounted ==
    /\ turn.at = "tool" => turn.decision.ticker \in {"A", "B"}
    /\ begun \in Seq(Calling)
    /\ Len(begun) <= plan.calls
    /\ plan.unique => IsInjective(begun)
    /\ turn.at # "gone" => turn.calls = Len(begun) /\ turn.seen = ToSet(begun)

CallInv == PlanIsFrozen(plan) /\ TurnIsRecord(turn) /\ CallsAreCounted

\* Actions that start no tool: the orchestrator goes on, or leaves.
Continues ==
    /\ plan' = plan /\ begun' = begun
    /\ TurnIsRecord(turn')
    /\ turn'.at = "tool" => turn'.decision.ticker \in {"A", "B"}
    /\ turn'.at # "gone" => turn.at # "gone" /\ turn'.calls = turn.calls /\ turn'.seen = turn.seen

LEMMA ContinuesKeeps == CallInv /\ Continues => CallInv'
BY DEF CallInv, Continues, CallsAreCounted, PlanIsFrozen

LEMMA EndedContinues ==
    ASSUME TurnIsRecord(turn), turn.at # "gone", NEW st, NEW c, Ended(st, c), plan' = plan, begun' = begun
    PROVE  Continues
BY DEF Ended, Continues, TurnIsRecord

LEMMA LeavesContinues ==
    ASSUME Leaves, plan' = plan, begun' = begun
    PROVE  Continues
BY DEF Leaves, NewTurn, Continues, TurnIsRecord, NewLedger

LEMMA DecisionIs ==
    ASSUME NEW d \in Decisions
    PROVE  d.kind \in {"tool", "final"} /\ (d.kind = "tool" => d.ticker \in {"A", "B"})
BY DEF Decisions, Calls, Finals

LEMMA OthersContinue ==
    ASSUME CallInv, RunNext, ~StartTool
    PROVE  Continues
<1>0. TurnIsRecord(turn)
  BY DEF CallInv
<1>1. CASE RequestCancel
  BY <1>0, <1>1 DEF RequestCancel, Continues, CallInv, CallsAreCounted
<1>2. CASE Interrupt \/ Finish \/ Abandon
  BY <1>2, LeavesContinues DEF Interrupt, Finish, Abandon
<1>3. CASE Decide
  <2>1. CASE turn' = [turn EXCEPT !.at = "deciding", !.decisions = @ + 1]
    BY <1>0, <1>3, <2>1 DEF Decide, Continues, TurnIsRecord
  <2> QED
    BY <1>0, <1>3, <2>1, EndedContinues DEF Decide
<1>4. CASE ModelAnswers
  <2>1. PICK d \in Decisions :
          /\ IF Cancelled THEN Ended("cancelled", "cancelled")
             ELSE turn' = [turn EXCEPT !.at = d.kind, !.decision = d, !.steps = @ + 1]
          /\ UNCHANGED <<plan, ledger, runRow, begun, shown>>
    BY <1>4 DEF ModelAnswers
  <2>2. turn.at # "gone"
    BY <1>4 DEF ModelAnswers
  <2>3. CASE turn' = [turn EXCEPT !.at = d.kind, !.decision = d, !.steps = @ + 1]
    BY <1>0, <2>1, <2>2, <2>3, DecisionIs DEF Continues, TurnIsRecord
  <2> QED
    BY <1>0, <2>1, <2>2, <2>3, EndedContinues
<1>5. CASE ModelFails \/ ModelRejected \/ RejectTool \/ ToolFails \/ ToolProjectionFails
  BY <1>0, <1>5, EndedContinues DEF ModelFails, ModelRejected, RejectTool, ToolFails, ToolProjectionFails
<1>6. CASE Final
  <2>1. CASE turn' = [turn EXCEPT !.at = "finish", !.status = "completed"]
    BY <1>0, <1>6, <2>1 DEF Final, Continues, TurnIsRecord
  <2> QED
    BY <1>0, <1>6, <2>1, EndedContinues DEF Final
<1>7. CASE ToolReturns
  BY <1>0, <1>7 DEF ToolReturns, Continues, TurnIsRecord
<1> QED
  BY <1>1, <1>2, <1>3, <1>4, <1>5, <1>6, <1>7 DEF RunNext

\* A tool is started only under an uncancelled row, and is a new one.
LEMMA StartIsCounted ==
    ASSUME CallInv, StartTool
    PROVE  CallInv' /\ (begun' # begun => runRow.state = "running")
<1> DEFINE d == turn.decision
           e == <<d.tool, d.ticker>>
<1>0. TurnIsRecord(turn) /\ turn.at = "tool" /\ ToolFailure(d) = "none" /\ plan' = plan
  BY DEF CallInv, StartTool
<1>1. CASE ~MayStart
  <2>1. Continues
    BY <1>0, <1>1, EndedContinues DEF StartTool
  <2> QED
    BY <2>1, ContinuesKeeps DEF Continues
<1>2. CASE MayStart
  <2>1. /\ turn' = [turn EXCEPT !.at = "invoking", !.seen = @ \cup {e}, !.calls = @ + 1, !.perTool[d.tool] = @ + 1]
        /\ begun' = Append(begun, e)
    BY <1>2 DEF StartTool
  <2>2. d.tool \in Tools /\ ~(turn.calls >= plan.calls) /\ ~(plan.unique /\ e \in turn.seen)
    BY <1>0 DEF ToolFailure
  <2>3. e \in Calling /\ begun \in Seq(Calling) /\ Len(begun) \in Nat
    BY <1>0, <2>2 DEF CallInv, CallsAreCounted, Calling
  <2>4. /\ TurnIsRecord(turn') /\ turn'.at = "invoking" /\ turn'.seen = turn.seen \cup {e}
        /\ turn'.calls = turn.calls + 1
    BY <1>0, <2>1 DEF TurnIsRecord
  <2>5. begun' \in Seq(Calling) /\ Len(begun') = Len(begun) + 1 /\ ToSet(begun') = ToSet(begun) \cup {e}
    BY <2>1, <2>3 DEF ToSet
  <2>6. turn.calls = Len(begun) /\ turn.seen = ToSet(begun) /\ plan.calls \in Nat
    BY <1>0 DEF CallInv, CallsAreCounted, PlanIsFrozen
  <2>7. Len(begun') <= plan.calls
    BY <2>2, <2>3, <2>5, <2>6
  <2>8. plan.unique => IsInjective(begun')
    <3> SUFFICES ASSUME plan.unique PROVE IsInjective(begun')
      OBVIOUS
    <3>1. \A i \in DOMAIN begun : begun[i] # e
      BY <2>2, <2>6 DEF ToSet
    <3>2. IsInjective(begun)
      BY DEF CallInv, CallsAreCounted
    <3> HIDE DEF e
    <3> QED
      BY <2>1, <2>3, <3>1, <3>2 DEF IsInjective
  <2>9. MayStart => runRow.state = "running"
    BY DEF MayStart, Cancelled
  <2> QED
    BY <1>0, <1>2, <2>4, <2>5, <2>6, <2>7, <2>8, <2>9 DEF CallInv, CallsAreCounted, PlanIsFrozen
<1> QED
  BY <1>1, <1>2

\* Whatever plan was frozen: once the cancellation of a run is stored no tool
\* is started for it, a plan that wants its calls unique gets them so, and
\* the budget of calls is kept (orchestration.py, run).
THEOREM ToolSafety ==
    ASSUME NEW Plans, \A p \in Plans : PlanIsFrozen(p)
    PROVE  StartedWith(Plans) /\ [][RunNext]_runVars => CancelStopsTools
<1>1. StartedWith(Plans) => CallInv
  BY DEF StartedWith, CallInv, CallsAreCounted, NewTurn, TurnIsRecord, ToSet, IsInjective, PlanIsFrozen
<1>2. CallInv /\ [RunNext]_runVars =>
        /\ CallInv'
        /\ begun' # begun => /\ runRow.state = "running"
                             /\ plan.unique => IsInjective(begun')
                             /\ Len(begun') <= plan.calls
  <2> SUFFICES ASSUME CallInv, [RunNext]_runVars
               PROVE  /\ CallInv'
                      /\ begun' # begun => /\ runRow.state = "running"
                                           /\ plan.unique => IsInjective(begun')
                                           /\ Len(begun') <= plan.calls
    OBVIOUS
  <2>1. CASE UNCHANGED runVars
    BY <2>1 DEF runVars, CallInv, CallsAreCounted
  <2>2. CASE RunNext /\ ~StartTool
    BY <2>2, OthersContinue, ContinuesKeeps DEF Continues
  <2>3. CASE StartTool
    <3>1. CallInv' /\ plan' = plan
      BY <2>3, StartIsCounted DEF StartTool
    <3> QED
      BY <2>3, <3>1, StartIsCounted DEF CallInv, CallsAreCounted
  <2> QED
    BY <2>1, <2>2, <2>3
<1>3. CallInv /\ [RunNext]_runVars =>
        [begun' # begun => /\ runRow.state = "running"
                           /\ plan.unique => IsInjective(begun')
                           /\ Len(begun') <= plan.calls]_runVars
  BY <1>2
<1> QED
  BY <1>1, <1>2, <1>3, PTL DEF CancelStopsTools

(***************************************************************************)
(* What an answer cites.                                                   *)
(***************************************************************************)
\* A sequence of whatever elements.
IsSeq(s) == s \in Seq(ToSet(s))

\* What the events of a log say that tools returned, and what they keep of it.
SumsIn(events) ==
    {e.summary : e \in {x \in ToSet(events) : x.type = "decision" /\ x.summary.kind = "tool"
                                              /\ x.summary.outcome = "observed"}}
RefsIn(events) == UNION {t.refs : t \in SumsIn(events)}
CutIn(events) == \E t \in SumsIn(events) : t.count > EvidenceCap

LEMMA AppendedIs ==
    ASSUME NEW s, IsSeq(s), NEW e
    PROVE  /\ IsSeq(Append(s, e)) /\ Len(Append(s, e)) = Len(s) + 1
           /\ ToSet(Append(s, e)) = ToSet(s) \cup {e}
           /\ Append(s, e) # << >>
<1> DEFINE S == ToSet(s) \cup {e}
<1>1. s \in Seq(S) /\ e \in S /\ Len(s) \in Nat
  BY DEF IsSeq
<1>2. \A i \in 1..Len(s) : s[i] \in ToSet(s)
  BY <1>1 DEF ToSet
<1>3. /\ Append(s, e) \in Seq(S) /\ Len(Append(s, e)) = Len(s) + 1
      /\ \A i \in 1..Len(s) : Append(s, e)[i] = s[i]
      /\ Append(s, e)[Len(s) + 1] = e
  BY <1>1
<1>4. ToSet(Append(s, e)) = S
  BY <1>1, <1>3 DEF ToSet
<1> QED
  BY <1>1, <1>3, <1>4 DEF IsSeq

LEMMA RefsGrow ==
    ASSUME NEW s, IsSeq(s), NEW e
    PROVE  RefsIn(s) \subseteq RefsIn(Append(s, e)) /\ (CutIn(s) => CutIn(Append(s, e)))
<1>1. SumsIn(s) \subseteq SumsIn(Append(s, e))
  BY AppendedIs DEF SumsIn
<1> QED
  BY <1>1 DEF RefsIn, CutIn

LEMMA SumsGain ==
    ASSUME NEW s, IsSeq(s), NEW e, e.type = "decision", e.summary.kind = "tool", e.summary.outcome = "observed"
    PROVE  e.summary \in SumsIn(Append(s, e))
<1>1. e \in {x \in ToSet(Append(s, e)) : x.type = "decision" /\ x.summary.kind = "tool"
                                         /\ x.summary.outcome = "observed"}
  BY AppendedIs
<1> QED
  BY <1>1 DEF SumsIn

\* The references of one observation.
AllRefs == {Ref("chunk", 1), Ref("chunk", 2), Ref("document", 1), Ref("document", 2), SearchRef}

\* An event that keeps less than it was given says so.
LEMMA FirstRefsIs ==
    ASSUME NEW refs \in SUBSET AllRefs
    PROVE  /\ FirstRefs(refs) \subseteq refs
           /\ ~(Cardinality(refs) > EvidenceCap) => FirstRefs(refs) = refs
<1>1. IsFiniteSet(AllRefs)
  <2>1. IsFiniteSet({Ref("chunk", 1)})
    BY FS_Singleton
  <2>2. IsFiniteSet({Ref("chunk", 1)} \cup {Ref("chunk", 2)})
    BY <2>1, FS_AddElement
  <2>3. IsFiniteSet({Ref("chunk", 1)} \cup {Ref("chunk", 2)} \cup {Ref("document", 1)})
    BY <2>2, FS_AddElement
  <2>4. IsFiniteSet({Ref("chunk", 1)} \cup {Ref("chunk", 2)} \cup {Ref("document", 1)} \cup {Ref("document", 2)})
    BY <2>3, FS_AddElement
  <2>5. IsFiniteSet({Ref("chunk", 1)} \cup {Ref("chunk", 2)} \cup {Ref("document", 1)} \cup {Ref("document", 2)}
                    \cup {SearchRef})
    BY <2>4, FS_AddElement
  <2>6. AllRefs = {Ref("chunk", 1)} \cup {Ref("chunk", 2)} \cup {Ref("document", 1)} \cup {Ref("document", 2)}
                    \cup {SearchRef}
    BY DEF AllRefs
  <2> QED
    BY <2>5, <2>6
<1>2. IsFiniteSet(refs)
  BY <1>1, FS_Subset
<1>3. ASSUME NEW r \in refs, ~(Cardinality(refs) > EvidenceCap)
      PROVE  Rank(r, refs) <= EvidenceCap
  <2> DEFINE S == {q \in refs : Place(q) <= Place(r)}
  <2>1. S \subseteq refs
    OBVIOUS
  <2> HIDE DEF S
  <2>2. Cardinality(S) <= Cardinality(refs) /\ Cardinality(S) \in Nat /\ Cardinality(refs) \in Nat
    BY <1>2, <2>1, FS_Subset, FS_CardinalityType
  <2>3. Cardinality(S) <= EvidenceCap
    BY <1>3, <2>2, EvidenceCapAssumption
  <2> QED
    BY <2>3 DEF S, Rank
<1>4. \A r : r \in FirstRefs(refs) <=> r \in refs /\ Rank(r, refs) <= EvidenceCap
  BY DEF FirstRefs
<1>5. FirstRefs(refs) \subseteq refs
  BY <1>4
<1>6. ASSUME ~(Cardinality(refs) > EvidenceCap) PROVE refs \subseteq FirstRefs(refs)
  <2> SUFFICES ASSUME NEW r \in refs PROVE r \in FirstRefs(refs)
    OBVIOUS
  <2>1. Rank(r, refs) <= EvidenceCap
    BY <1>3, <1>6
  <2> QED
    BY <1>4, <2>1, Zenon
<1> QED
  BY <1>5, <1>6, Zenon

LEMMA EventIs ==
    ASSUME NEW d, NEW o, NEW c, NEW refs
    PROVE  /\ Event(d, o, c, refs).kind = d.kind /\ Event(d, o, c, refs).outcome = o
           /\ Event(d, o, c, refs).refs = FirstRefs(refs) /\ Event(d, o, c, refs).count = Cardinality(refs)
BY DEF Event

\* An entry of the ledger: a chunk that was shown, for objectives of its company.
Backed(e, refs) ==
    /\ e = [chunk |-> e.chunk, objectives |-> e.objectives, tool |-> e.tool, step |-> e.step]
    /\ e.chunk \in Chunks /\ Ref("chunk", e.chunk) \in refs
    /\ \A o \in e.objectives : plan.scope[o] \in {"any", TickerOf(e.chunk)}

LedgerIsBacked(l, refs) == LedgerIsRecord(l) /\ \A e \in l.entries : Backed(e, refs)

LEMMA AlsoForIs ==
    ASSUME NEW e, NEW refs, Backed(e, refs), NEW o, plan.scope[o] \in {"any", TickerOf(e.chunk)}
    PROVE  Backed(AlsoFor(e, o), refs)
<1>1. AlsoFor(e, o) = [chunk |-> e.chunk, objectives |-> e.objectives \cup {o}, tool |-> e.tool, step |-> e.step]
  BY DEF AlsoFor, Backed
<1> QED
  BY <1>1 DEF Backed

LEMMA WithChunkIs ==
    ASSUME NEW refs, NEW l, LedgerIsBacked(l, refs), NEW d, NEW c \in Chunks, Ref("chunk", c) \in refs
    PROVE  LedgerIsBacked(WithChunk(l, d, c), refs)
<1> DEFINE known == {e \in l.entries : e.chunk = c}
           new == [chunk |-> c, objectives |-> {d.objective}, tool |-> d.tool, step |-> turn.steps]
           W == WithChunk(l, d, c)
<1>1. CASE plan.scope[d.objective] \notin {"any", TickerOf(c)}
  BY <1>1 DEF WithChunk
<1>2. CASE plan.scope[d.objective] \in {"any", TickerOf(c)} /\ known # {}
  <2>1. W = [l EXCEPT !.entries = (@ \ known) \cup {AlsoFor(e, d.objective) : e \in known}]
    BY <1>2 DEF WithChunk
  <2>2. LedgerIsRecord(W) /\ W.entries = (l.entries \ known) \cup {AlsoFor(e, d.objective) : e \in known}
    BY <2>1 DEF LedgerIsBacked, LedgerIsRecord
  <2>3. \A e \in known : Backed(AlsoFor(e, d.objective), refs)
    BY <1>2, AlsoForIs DEF LedgerIsBacked
  <2> QED
    BY <2>2, <2>3 DEF LedgerIsBacked
<1>3. CASE plan.scope[d.objective] \in {"any", TickerOf(c)} /\ known = {} /\ Cardinality(l.entries) >= plan.cap
  <2>1. W = [l EXCEPT !.capped = TRUE]
    BY <1>3 DEF WithChunk
  <2> QED
    BY <2>1 DEF LedgerIsBacked, LedgerIsRecord
<1>4. CASE plan.scope[d.objective] \in {"any", TickerOf(c)} /\ known = {} /\ ~(Cardinality(l.entries) >= plan.cap)
  <2>1. W = [l EXCEPT !.entries = @ \cup {new}]
    BY <1>4 DEF WithChunk
  <2>2. LedgerIsRecord(W) /\ W.entries = l.entries \cup {new}
    BY <2>1 DEF LedgerIsBacked, LedgerIsRecord
  <2>3. Backed(new, refs)
    BY <1>4 DEF Backed
  <2> QED
    BY <2>2, <2>3 DEF LedgerIsBacked
<1> QED
  BY <1>1, <1>2, <1>3, <1>4

\* The ledger after a tool that returned no more than two chunks.
LEMMA ObservedIs ==
    ASSUME NEW d, NEW chunks \in Seq(Chunks), Len(chunks) <= 2
    PROVE  \/ Observed(d, chunks) = ledger
           \/ Len(chunks) >= 1 /\ Observed(d, chunks) = WithChunk(ledger, d, chunks[1])
           \/ Len(chunks) = 2 /\ Observed(d, chunks) = WithChunk(WithChunk(ledger, d, chunks[1]), d, chunks[2])
<1> DEFINE k == Len(chunks)
           F(f) == [n \in 0..k |-> IF n = 0 THEN ledger ELSE WithChunk(f[n - 1], d, chunks[n])]
           g == [n \in 0..k |-> IF n = 0 THEN ledger
                                ELSE IF n = 1 THEN WithChunk(ledger, d, chunks[1])
                                ELSE WithChunk(WithChunk(ledger, d, chunks[1]), d, chunks[2])]
           h == CHOOSE f : f = F(f)
<1>0. k \in 0..2
  <2>1. k \in Nat /\ k <= 2
    OBVIOUS
  <2> HIDE DEF k
  <2> QED
    BY <2>1
<1>1. g = F(g)
  BY <1>0
<1>2. h = F(h)
  BY <1>1
<1>3. Observed(d, chunks) = h[k]
  BY DEF Observed
<1> HIDE DEF h, g
<1>4. h[0] = ledger /\ (k >= 1 => h[1] = WithChunk(h[0], d, chunks[1])) /\ (k = 2 => h[2] = WithChunk(h[1], d, chunks[2]))
  BY <1>0, <1>2
<1> QED
  BY <1>0, <1>3, <1>4

RowIsRecord(r) == r = [state |-> r.state, events |-> r.events, result |-> r.result]

\* The answer that _finish is about to store.
AnswerStands ==
    /\ turn.decision.refs \subseteq shown
    /\ plan.research => \A o \in Objectives \ Gaps :
                          \E e \in EntriesOf(o) : RefsOf(e.chunk) \cap turn.decision.refs # {}

\* What the orchestrator holds was shown to the model.
MemoryIsShown ==
    /\ IsSeq(turn.observed)
    /\ \A n \in DOMAIN turn.observed : turn.observed[n].refs \subseteq shown
    /\ LedgerIsBacked(ledger, shown)

\* What was shown is in the events, or they say that they keep a part.
ShownIsRecorded == shown \subseteq ObservedRefs \/ IncompleteRefs

SupportInv ==
    /\ PlanIsFrozen(plan) /\ TurnIsRecord(turn) /\ RowIsRecord(runRow)
    /\ IsSeq(runRow.events)
    /\ runRow.state \in Terminal => turn.at = "gone"
    /\ turn.at \in {"tool", "invoking"} => turn.decision.kind = "tool"
    /\ MemoryIsShown /\ ShownIsRecorded
    /\ turn.at = "finish" /\ turn.status = "completed" => AnswerStands
    /\ AnswersAreSupported

LEMMA RecordedIs ==
    /\ ObservedRefs = RefsIn(runRow.events) /\ ObservedRefs' = RefsIn(runRow'.events)
    /\ IncompleteRefs = CutIn(runRow.events) /\ IncompleteRefs' = CutIn(runRow'.events)
BY DEF ObservedRefs, IncompleteRefs, ObservedSums, RefsIn, CutIn, SumsIn

LEMMA BackedGrows ==
    ASSUME NEW l, NEW R, NEW S, R \subseteq S, LedgerIsBacked(l, R), plan' = plan
    PROVE  /\ LedgerIsBacked(l, S)
           /\ LedgerIsBacked(l, S)'
BY DEF LedgerIsBacked, Backed

\* The row gains an event, or none.
RowGrows == RowIsRecord(runRow') /\ (runRow'.events = runRow.events \/ \E x : runRow'.events = Append(runRow.events, x))

LEMMA RefsAreKept ==
    ASSUME SupportInv, RowGrows
    PROVE  /\ IsSeq(runRow'.events) /\ ObservedRefs \subseteq ObservedRefs' /\ (IncompleteRefs => IncompleteRefs')
           /\ shown' = shown => ShownIsRecorded'
<1>2. IsSeq(runRow.events) /\ ShownIsRecorded
  BY DEF SupportInv
<1>3. CASE runRow'.events = runRow.events
  BY <1>2, <1>3, RecordedIs DEF ShownIsRecorded
<1>4. CASE \E x : runRow'.events = Append(runRow.events, x)
  BY <1>2, <1>4, RecordedIs, AppendedIs, RefsGrow DEF ShownIsRecorded
<1> QED
  BY <1>3, <1>4 DEF RowGrows

LEMMA TraceGrows ==
    ASSUME RowIsRecord(runRow), NEW x, RecordTrace(x)
    PROVE  /\ RowGrows /\ runRow'.state = runRow.state /\ runRow'.result = runRow.result
           /\ runRow'.events = Append(runRow.events, [type |-> "decision", state |-> runRow.state, summary |-> x])
BY DEF RecordTrace, RowIsRecord, RowGrows

LEMMA TransitionGrows ==
    ASSUME NEW type, NEW st, NEW res, Transition(type, st, res)
    PROVE  RowGrows /\ runRow'.state = st /\ runRow'.result = res
BY DEF Transition, RowIsRecord, RowGrows

\* Steps that observe nothing and accept no answer.
GoesOn ==
    /\ plan' = plan /\ shown' = shown /\ turn.at # "gone" /\ turn'.at # "gone"
    /\ TurnIsRecord(turn') /\ turn'.observed = turn.observed
    /\ ~(turn'.at = "finish" /\ turn'.status = "completed")
    /\ turn'.at \in {"tool", "invoking"} => turn'.decision.kind = "tool"
    /\ LedgerIsRecord(ledger') /\ ledger'.entries = ledger.entries
    /\ RowGrows /\ runRow'.state = runRow.state

LEMMA MemoryKept ==
    ASSUME SupportInv, plan' = plan, shown' = shown, turn'.observed = turn.observed,
           LedgerIsRecord(ledger'), ledger'.entries = ledger.entries
    PROVE  MemoryIsShown'
BY DEF SupportInv, MemoryIsShown, LedgerIsBacked, Backed

LEMMA GoesOnKeeps == ASSUME SupportInv, GoesOn PROVE SupportInv'
<1>1. MemoryIsShown' /\ IsSeq(runRow'.events) /\ ShownIsRecorded'
  BY MemoryKept, RefsAreKept DEF GoesOn
<1>2. runRow'.state \notin Terminal
  BY DEF GoesOn, SupportInv
<1>3. AnswersAreSupported'
  BY <1>2 DEF AnswersAreSupported, Terminal
<1> QED
  BY <1>1, <1>2, <1>3 DEF GoesOn, SupportInv, PlanIsFrozen, RowGrows

LEMMA EndedGoesOn ==
    ASSUME SupportInv, turn.at # "gone", NEW st, st # "completed", NEW c, Ended(st, c), plan' = plan,
           shown' = shown, ledger' = ledger, RowGrows, runRow'.state = runRow.state
    PROVE  GoesOn
BY DEF Ended, GoesOn, SupportInv, TurnIsRecord, MemoryIsShown, LedgerIsBacked

LEMMA RowStays ==
    ASSUME SupportInv, runRow' = runRow
    PROVE  RowGrows /\ runRow'.state = runRow.state
BY DEF SupportInv, RowGrows

\* An action of the orchestrator that does not leave.
LEMMA OrchestratorGoesOn ==
    ASSUME SupportInv,
           Decide \/ ModelAnswers \/ ModelFails \/ ModelRejected \/ RejectTool \/ StartTool \/ ToolFails
             \/ ToolProjectionFails
    PROVE  GoesOn
<1>0. TurnIsRecord(turn) /\ RowIsRecord(runRow) /\ LedgerIsRecord(ledger)
  BY DEF SupportInv, MemoryIsShown, LedgerIsBacked
<1>1. CASE Decide
  <2>0. turn.at = "loop" /\ plan' = plan /\ ledger' = ledger /\ runRow' = runRow /\ shown' = shown
    BY <1>1 DEF Decide
  <2>1. CASE turn' = [turn EXCEPT !.at = "deciding", !.decisions = @ + 1]
    BY <1>0, <2>0, <2>1, RowStays DEF GoesOn, TurnIsRecord
  <2>2. CASE \/ Ended("policy_denied", "decision_provider_required") \/ Ended("cancelled", "cancelled")
             \/ Ended("budget_exhausted", "max_steps")
    BY <2>0, <2>2, RowStays, EndedGoesOn
  <2> QED
    BY <1>1, <2>1, <2>2 DEF Decide
<1>2. CASE ModelAnswers
  <2>1. PICK d \in Decisions :
          /\ IF Cancelled THEN Ended("cancelled", "cancelled")
             ELSE turn' = [turn EXCEPT !.at = d.kind, !.decision = d, !.steps = @ + 1]
          /\ UNCHANGED <<plan, ledger, runRow, begun, shown>>
    BY <1>2 DEF ModelAnswers
  <2>2. turn.at # "gone"
    BY <1>2 DEF ModelAnswers
  <2>3. CASE turn' = [turn EXCEPT !.at = d.kind, !.decision = d, !.steps = @ + 1]
    BY <1>0, <2>1, <2>2, <2>3, DecisionIs, RowStays DEF GoesOn, TurnIsRecord
  <2> QED
    BY <2>1, <2>2, <2>3, RowStays, EndedGoesOn
<1>3. CASE ModelFails
  BY <1>3, RowStays, EndedGoesOn DEF ModelFails
<1>4. CASE ModelRejected
  BY <1>0, <1>4, RowStays, TraceGrows, EndedGoesOn DEF ModelRejected
<1>5. CASE RejectTool
  <2>1. \A c : Status(c) # "completed"
    BY DEF Status
  <2> QED
    BY <1>0, <1>5, <2>1, TraceGrows, EndedGoesOn DEF RejectTool
<1>6. CASE StartTool
  <2> DEFINE d == turn.decision
  <2>0. turn.at = "tool" /\ plan' = plan /\ runRow' = runRow /\ shown' = shown
    BY <1>6 DEF StartTool
  <2>1. CASE ~MayStart
    BY <1>6, <2>0, <2>1, RowStays, EndedGoesOn DEF StartTool
  <2>2. CASE MayStart
    <3>1. /\ turn' = [turn EXCEPT !.at = "invoking", !.seen = @ \cup {<<d.tool, d.ticker>>}, !.calls = @ + 1,
                                  !.perTool[d.tool] = @ + 1]
          /\ ledger' = IF plan.research THEN Started(d) ELSE ledger
      BY <1>6, <2>2 DEF StartTool
    <3>2. LedgerIsRecord(ledger') /\ ledger'.entries = ledger.entries
      BY <1>0, <3>1 DEF Started, LedgerIsRecord
    <3>3. d.kind = "tool"
      BY <2>0 DEF SupportInv
    <3> QED
      BY <1>0, <2>0, <3>1, <3>2, <3>3, RowStays DEF GoesOn, TurnIsRecord
  <2> QED
    BY <2>1, <2>2
<1>7. CASE ToolFails
  BY <1>0, <1>7, TraceGrows, EndedGoesOn DEF ToolFails
<1>8. CASE ToolProjectionFails
  BY <1>0, <1>8, TraceGrows, EndedGoesOn DEF ToolProjectionFails
<1> QED
  BY <1>1, <1>2, <1>3, <1>4, <1>5, <1>6, <1>7, <1>8

LEMMA CancelKeeps == ASSUME SupportInv, RequestCancel PROVE SupportInv'
<1>1. RowGrows /\ runRow'.state = "cancelling"
  BY TransitionGrows DEF RequestCancel
<1>2. MemoryIsShown'
  BY <1>1, MemoryKept DEF RequestCancel, SupportInv, MemoryIsShown, LedgerIsBacked
<1>4. turn' = turn /\ plan' = plan /\ ledger' = ledger /\ shown' = shown
  BY DEF RequestCancel
<1>3. IsSeq(runRow'.events) /\ ShownIsRecorded'
  BY <1>1, <1>4, RefsAreKept
<1>5. Gaps' = Gaps /\ \A o \in Objectives : EntriesOf(o)' = EntriesOf(o)
  BY <1>4 DEF Gaps, Coverage, EntriesOf
<1>6. turn.at = "finish" /\ turn.status = "completed" => AnswerStands'
  BY <1>3, <1>4, <1>5 DEF AnswerStands, SupportInv
<1>7. AnswersAreSupported'
  BY <1>1 DEF AnswersAreSupported
<1> QED
  BY <1>1, <1>2, <1>3, <1>4, <1>6, <1>7 DEF SupportInv, RowGrows, Terminal

\* The orchestrator is gone, with an answer or without.
LEMMA GoneKeeps ==
    ASSUME SupportInv, plan' = plan, shown' = shown, Leaves, RowGrows, AnswersAreSupported'
    PROVE  SupportInv'
<1>1. IsSeq(runRow'.events) /\ ShownIsRecorded'
  BY RefsAreKept
<1>2. turn' = [NewTurn EXCEPT !.at = "gone"] /\ ledger' = NewLedger
  BY DEF Leaves
<1>3. TurnIsRecord(turn') /\ turn'.at = "gone" /\ turn'.observed = << >>
  BY <1>2 DEF NewTurn, TurnIsRecord
<1>4. LedgerIsBacked(ledger, shown)'
  BY <1>2 DEF NewLedger, LedgerIsBacked, LedgerIsRecord
<1>5. MemoryIsShown'
  BY <1>3, <1>4 DEF MemoryIsShown, IsSeq
<1> QED
  BY <1>1, <1>3, <1>5 DEF SupportInv, PlanIsFrozen, RowGrows

LEMMA NoAnswerKeeps ==
    ASSUME SupportInv, Interrupt \/ Abandon
    PROVE  SupportInv'
<1>1. RowGrows /\ runRow'.state # "succeeded" /\ plan' = plan /\ shown' = shown /\ Leaves
  <2>1. CASE Interrupt
    BY <2>1, TransitionGrows DEF Interrupt
  <2>2. CASE Abandon
    BY <2>2, TransitionGrows DEF Abandon
  <2> QED
    BY <2>1, <2>2
<1> QED
  BY <1>1, GoneKeeps DEF AnswersAreSupported

\* _finish stores an answer that stands.
LEMMA FinishKeeps ==
    ASSUME SupportInv, Finish
    PROVE  SupportInv'
<1>0. plan' = plan /\ shown' = shown /\ Leaves /\ turn.at = "finish"
  BY DEF Finish
<1>1. CASE runRow'.state # "succeeded"
  BY <1>0, <1>1, TransitionGrows, GoneKeeps DEF Finish, AnswersAreSupported
<1>2. CASE runRow'.state = "succeeded"
  <2>1. Transition("state", "succeeded", ResultOf("completed")) /\ turn.status = "completed"
    BY <1>2, TransitionGrows DEF Finish
  <2>2. RowGrows /\ runRow'.result = ResultOf("completed")
    BY <2>1, TransitionGrows
  <2>3. AnswerStands /\ MemoryIsShown /\ plan.research \in BOOLEAN
    BY <1>0, <2>1 DEF SupportInv, PlanIsFrozen
  <2>4. ShownIsRecorded'
    BY <1>0, <2>2, RefsAreKept
  <2>5. runRow'.result.refs = turn.decision.refs /\ runRow'.result.research = Summary
    BY <2>2 DEF ResultOf
  <2>6. ASSUME plan.research, NEW o \in Objectives \ DOMAIN runRow'.result.research.gaps
        PROVE  \E e \in runRow'.result.research.entries :
                 /\ o \in e.objectives /\ RefsOf(e.chunk) \cap turn.decision.refs # {}
                 /\ Ref("chunk", e.chunk) \in shown /\ plan.scope[o] \in {"any", TickerOf(e.chunk)}
    <3>1. DOMAIN Summary.gaps = Gaps /\ Summary.entries = ledger.entries
      BY <2>6 DEF Summary
    <3>2. PICK e \in EntriesOf(o) : RefsOf(e.chunk) \cap turn.decision.refs # {}
      BY <2>3, <2>5, <2>6, <3>1 DEF AnswerStands
    <3>3. e \in ledger.entries /\ o \in e.objectives /\ Backed(e, shown)
      BY <2>3, <3>2 DEF EntriesOf, MemoryIsShown, LedgerIsBacked
    <3> QED
      BY <2>5, <3>1, <3>2, <3>3 DEF Backed
  <2>8. turn.decision.refs \subseteq ObservedRefs' \/ IncompleteRefs'
    BY <1>0, <2>3, <2>4 DEF AnswerStands, ShownIsRecorded
  <2>7. AnswersAreSupported'
    BY <1>0, <2>3, <2>5, <2>6, <2>8 DEF AnswersAreSupported, AnswerStands
  <2> QED
    BY <1>0, <2>2, <2>7, GoneKeeps
<1> QED
  BY <1>1, <1>2

\* _validate_final accepts what was observed, and for research what is held.
LEMMA FinalKeeps ==
    ASSUME SupportInv, Final
    PROVE  SupportInv'
<1> DEFINE d == turn.decision
           code == IF ~plan.research /\ d.unresolved # {} THEN "research_unresolved_mismatch" ELSE FinalFailure(d)
<1>0. /\ TurnIsRecord(turn) /\ RowIsRecord(runRow) /\ turn.at = "final" /\ plan' = plan /\ ledger' = ledger
      /\ MemoryIsShown /\ shown' = shown
  BY DEF SupportInv, Final
<1>1. CASE code # "none"
  <2>1. GoesOn
    BY <1>0, <1>1, TraceGrows, EndedGoesOn DEF Final
  <2> QED
    BY <2>1, GoesOnKeeps
<1>2. CASE code = "none"
  <2>1. /\ RecordTrace(Event(d, "completed", "none", d.refs))
        /\ turn' = [turn EXCEPT !.at = "finish", !.status = "completed"]
    BY <1>2 DEF Final
  <2>2. RowGrows /\ runRow'.state = runRow.state
    BY <1>0, <2>1, TraceGrows
  <2>3. /\ TurnIsRecord(turn') /\ turn'.at = "finish" /\ turn'.decision = d /\ turn'.observed = turn.observed
    BY <1>0, <2>1 DEF TurnIsRecord
  <2>4. MemoryIsShown' /\ IsSeq(runRow'.events) /\ ShownIsRecorded'
    BY <1>0, <2>2, <2>3, MemoryKept, RefsAreKept DEF MemoryIsShown, LedgerIsBacked
  <2>5. d.refs \subseteq RefsSeen /\ (plan.research => ResearchFinal(d) = "none")
    BY <1>2 DEF FinalFailure
  <2>6. RefsSeen \subseteq shown
    BY <1>0 DEF RefsSeen, MemoryIsShown
  <2>7. ASSUME plan.research, NEW o \in Objectives \ Gaps
        PROVE  \E e \in EntriesOf(o) : RefsOf(e.chunk) \cap d.refs # {}
    BY <2>5, <2>7 DEF ResearchFinal
  <2>8. Gaps' = Gaps /\ \A o \in Objectives : EntriesOf(o)' = EntriesOf(o)
    BY <1>0 DEF Gaps, Coverage, EntriesOf
  <2>9. AnswerStands'
    BY <1>0, <2>3, <2>4, <2>5, <2>6, <2>7, <2>8 DEF AnswerStands
  <2>10. runRow'.state \notin Terminal
    BY <1>0, <2>2 DEF SupportInv
  <2> QED
    BY <1>0, <2>2, <2>3, <2>4, <2>9, <2>10 DEF SupportInv, PlanIsFrozen, RowGrows, AnswersAreSupported, Terminal
<1> QED
  BY <1>1, <1>2

LEMMA ReturnKeeps ==
    ASSUME SupportInv, ToolReturns
    PROVE  SupportInv'
<1> DEFINE d == turn.decision
           R(chunks) == (UNION {RefsOf(c) : c \in ToSet(chunks)}) \cup (IF d.tool = "search" THEN {SearchRef} ELSE {})
                          \cup (IF d.tool = "read" /\ chunks = << >>
                                THEN {Ref("document", IF d.ticker = "A" THEN 1 ELSE 2)} ELSE {})
<1>0. /\ TurnIsRecord(turn) /\ RowIsRecord(runRow) /\ turn.at = "invoking" /\ plan' = plan
      /\ MemoryIsShown /\ IsSeq(runRow.events) /\ runRow.state \notin Terminal
  BY DEF SupportInv, ToolReturns
<1>1. PICK chunks \in Returned(d) :
        /\ turn' = [turn EXCEPT !.at = "loop", !.decision = NoDecision, !.observed = Append(@, [refs |-> R(chunks)])]
        /\ ledger' = IF plan.research THEN Observed(d, chunks) ELSE ledger
        /\ RecordTrace(Event(d, "observed", "none", R(chunks))) /\ shown' = shown \cup R(chunks)
  BY DEF ToolReturns
<1>2. chunks \in Seq(Chunks) /\ Len(chunks) <= 2
  <2>1. chunks = << >> \/ chunks = <<1>> \/ chunks = <<2>> \/ chunks = <<2, 1>>
    BY DEF Returned
  <2>2. 1 \in Chunks /\ 2 \in Chunks
    BY DEF Chunks
  <2>3. /\ << >> \in Seq(Chunks) /\ Len(<< >>) = 0 /\ <<2, 1>> \in Seq(Chunks) /\ Len(<<2, 1>>) = 2
        /\ <<1>> \in Seq(Chunks) /\ Len(<<1>>) = 1 /\ <<2>> \in Seq(Chunks) /\ Len(<<2>>) = 1
    BY <2>2
  <2>4. CASE chunks = << >>
    BY <2>3, <2>4
  <2>5. CASE chunks = <<2, 1>>
    BY <2>3, <2>5
  <2>6. CASE chunks = <<1>>
    BY <2>3, <2>6
  <2>7. CASE chunks = <<2>>
    BY <2>3, <2>7
  <2> QED
    BY <2>1, <2>4, <2>5, <2>6, <2>7
<1> DEFINE refs == R(chunks)
           x == Event(d, "observed", "none", refs)
<1>3. \A n \in 1..Len(chunks) : chunks[n] \in Chunks /\ Ref("chunk", chunks[n]) \in refs
  <2> SUFFICES ASSUME NEW n \in 1..Len(chunks) PROVE chunks[n] \in Chunks /\ Ref("chunk", chunks[n]) \in refs
    OBVIOUS
  <2>1. chunks[n] \in Chunks /\ chunks[n] \in ToSet(chunks)
    BY <1>2 DEF ToSet
  <2>2. Ref("chunk", chunks[n]) \in RefsOf(chunks[n])
    BY DEF RefsOf
  <2>3. Ref("chunk", chunks[n]) \in UNION {RefsOf(c) : c \in ToSet(chunks)}
    BY <2>1, <2>2
  <2> QED
    BY <2>1, <2>3
<1>12. refs \in SUBSET AllRefs
  <2>1. \A c \in ToSet(chunks) : c = 1 \/ c = 2
    BY <1>2 DEF ToSet, Chunks
  <2>2. \A c \in ToSet(chunks) : RefsOf(c) \subseteq AllRefs
    BY <2>1 DEF RefsOf, AllRefs
  <2>3. SearchRef \in AllRefs /\ Ref("document", 1) \in AllRefs /\ Ref("document", 2) \in AllRefs
    BY DEF AllRefs
  <2> DEFINE U == UNION {RefsOf(c) : c \in ToSet(chunks)}
             S == IF d.tool = "search" THEN {SearchRef} ELSE {}
             E == IF d.tool = "read" /\ chunks = << >>
                  THEN {Ref("document", IF d.ticker = "A" THEN 1 ELSE 2)} ELSE {}
  <2>4. refs = U \cup S \cup E
    OBVIOUS
  <2>5. U \subseteq AllRefs
    BY <2>2, Zenon
  <2>6. S \subseteq AllRefs /\ E \subseteq AllRefs
    BY <2>3
  <2> HIDE DEF U, S, E, R, refs
  <2> QED
    BY <2>4, <2>5, <2>6
<1> HIDE DEF R
<1>4. RowGrows /\ runRow'.state = runRow.state
  BY <1>0, <1>1, TraceGrows
<1>5. ObservedRefs \subseteq ObservedRefs' /\ (IncompleteRefs => IncompleteRefs') /\ IsSeq(runRow'.events)
  BY <1>4, RefsAreKept
<1>6. TurnIsRecord(turn') /\ turn'.at = "loop" /\ turn'.observed = Append(turn.observed, [refs |-> refs])
  BY <1>0, <1>1 DEF TurnIsRecord
<1>7. plan.research \in BOOLEAN
  BY DEF SupportInv, PlanIsFrozen
<1>8. refs \subseteq ObservedRefs' \/ IncompleteRefs'
  <2> DEFINE e == [type |-> "decision", state |-> runRow.state, summary |-> x]
  <2>1. x.kind = "tool" /\ x.outcome = "observed" /\ x.refs = FirstRefs(refs) /\ x.count = Cardinality(refs)
    <3>1. d.kind = "tool"
      BY <1>0 DEF SupportInv
    <3> QED
      BY <3>1, EventIs
  <2>2. runRow'.events = Append(runRow.events, e)
    BY <1>0, <1>1, TraceGrows
  <2>3. e.type = "decision" /\ e.summary = x
    OBVIOUS
  <2> HIDE DEF e, x
  <2>4. x \in SumsIn(runRow'.events)
    BY <1>0, <2>1, <2>2, <2>3, SumsGain
  <2>5. CASE Cardinality(refs) > EvidenceCap
    BY <2>1, <2>4, <2>5, RecordedIs DEF CutIn
  <2>6. CASE ~(Cardinality(refs) > EvidenceCap)
    <3>1. x.refs = refs
      BY <1>12, <2>1, <2>6, FirstRefsIs
    <3> QED
      BY <2>4, <3>1, RecordedIs DEF RefsIn
  <2> QED
    BY <2>5, <2>6
<1> HIDE DEF refs
<1>13. shown' = shown \cup refs
  BY <1>1 DEF refs
<1>14. ShownIsRecorded'
  BY <1>5, <1>8, <1>13 DEF SupportInv, ShownIsRecorded
<1>9. IsSeq(turn'.observed) /\ \A n \in DOMAIN turn'.observed : turn'.observed[n].refs \subseteq shown'
  <2>1. IsSeq(turn.observed)
    BY <1>0 DEF MemoryIsShown
  <2>2. ToSet(turn'.observed) = ToSet(turn.observed) \cup {[refs |-> refs]} /\ IsSeq(turn'.observed)
    BY <1>6, <2>1, AppendedIs
  <2>3. \A y \in ToSet(turn.observed) : y.refs \subseteq shown'
    BY <1>0, <1>13 DEF MemoryIsShown, ToSet
  <2>4. \A y \in ToSet(turn'.observed) : y.refs \subseteq shown'
    BY <1>13, <2>2, <2>3
  <2> QED
    BY <2>2, <2>4 DEF ToSet
<1>10. LedgerIsBacked(ledger', shown')
  <2>1. LedgerIsBacked(ledger, shown')
    BY <1>0, <1>13 DEF MemoryIsShown, LedgerIsBacked, Backed
  <2>2. LedgerIsBacked(Observed(d, chunks), shown')
    <3>1. \A n \in 1..Len(chunks) : chunks[n] \in Chunks /\ Ref("chunk", chunks[n]) \in shown'
      BY <1>3, <1>13
    <3>2. CASE Observed(d, chunks) = ledger
      BY <2>1, <3>2
    <3>3. CASE Len(chunks) >= 1 /\ Observed(d, chunks) = WithChunk(ledger, d, chunks[1])
      BY <1>2, <2>1, <3>1, <3>3, WithChunkIs
    <3>4. CASE Len(chunks) = 2 /\ Observed(d, chunks) = WithChunk(WithChunk(ledger, d, chunks[1]), d, chunks[2])
      <4>1. LedgerIsBacked(WithChunk(ledger, d, chunks[1]), shown')
        BY <2>1, <3>1, <3>4, WithChunkIs
      <4> QED
        BY <3>1, <3>4, <4>1, WithChunkIs
    <3> QED
      BY <1>2, <3>2, <3>3, <3>4, ObservedIs
  <2> QED
    BY <1>1, <1>7, <2>1, <2>2
<1>11. LedgerIsBacked(ledger, shown)'
  BY <1>0, <1>10 DEF LedgerIsBacked, Backed
<1> QED
  BY <1>0, <1>4, <1>5, <1>6, <1>9, <1>11, <1>14
  DEF SupportInv, MemoryIsShown, PlanIsFrozen, RowGrows, AnswersAreSupported, Terminal

\* Whatever plan was frozen, and however many references an event keeps: a
\* run that succeeds cites only what its model was shown, its events hold all
\* of it or say that they do not, and in a research run every objective that
\* is not admitted to be open has cited evidence of its own company in the
\* ledger that is stored with the answer (orchestration.py, _validate_final;
\* research.py, validate_final; durable.py, _record_trace).
THEOREM AnswerSafety ==
    ASSUME NEW Plans, \A p \in Plans : PlanIsFrozen(p)
    PROVE  StartedWith(Plans) /\ [][RunNext]_runVars => []AnswersAreSupported
<1>1. StartedWith(Plans) => SupportInv
  <2> SUFFICES ASSUME StartedWith(Plans) PROVE SupportInv
    OBVIOUS
  <2>1. IsSeq(runRow.events)
    BY DEF StartedWith, IsSeq, ToSet
  <2>2. TurnIsRecord(turn) /\ turn.observed = << >> /\ turn.at = "loop"
    BY DEF StartedWith, NewTurn, TurnIsRecord
  <2>3. LedgerIsBacked(ledger, shown) /\ ShownIsRecorded
    BY DEF StartedWith, NewLedger, LedgerIsBacked, LedgerIsRecord, ShownIsRecorded
  <2>4. RowIsRecord(runRow) /\ runRow.state = "running"
    BY DEF StartedWith, RowIsRecord
  <2> QED
    BY <2>1, <2>2, <2>3, <2>4 DEF StartedWith, SupportInv, MemoryIsShown, AnswersAreSupported, Terminal, IsSeq
<1>2. SupportInv /\ [RunNext]_runVars => SupportInv'
  <2> SUFFICES ASSUME SupportInv, [RunNext]_runVars PROVE SupportInv'
    OBVIOUS
  <2>1. CASE UNCHANGED runVars
    BY <2>1 DEF runVars, SupportInv, MemoryIsShown, ShownIsRecorded, ObservedRefs, IncompleteRefs, ObservedSums,
                LedgerIsBacked, Backed, AnswerStands, Gaps, Coverage, EntriesOf, AnswersAreSupported
  <2>2. CASE RunNext
    BY <2>2, OrchestratorGoesOn, GoesOnKeeps, CancelKeeps, NoAnswerKeeps, FinishKeeps, FinalKeeps, ReturnKeeps
    DEF RunNext
  <2> QED
    BY <2>1, <2>2
<1>3. SupportInv => AnswersAreSupported
  BY DEF SupportInv
<1> QED
  BY <1>1, <1>2, <1>3, PTL

(***************************************************************************)
(* The service.                                                            *)
(***************************************************************************)
LEMMA PlansAreFrozen == \A p \in AgentPlans : PlanIsFrozen(p)
<1>1. PlanIsFrozen(PlainPlan) /\ PlanIsFrozen([PlainPlan EXCEPT !.decide = FALSE])
  BY DEF PlanIsFrozen, PlainPlan
<1>2. PlanIsFrozen([PlainPlan EXCEPT !.calls = 1, !.steps = 2, !.allowed = {"search", "ask"}])
  BY DEF PlanIsFrozen, PlainPlan
<1>3. \A s : PlanIsFrozen([ResearchPlan EXCEPT !.scope = s])
  BY DEF PlanIsFrozen, PlainPlan, ResearchPlan
<1>4. PlanIsFrozen([ResearchPlan EXCEPT !.cap = 1, !.calls = 3, !.observations = 3, !.allowed = {"search", "read"}])
  BY DEF PlanIsFrozen, PlainPlan, ResearchPlan
<1> QED
  BY <1>1, <1>2, <1>3, <1>4 DEF AgentPlans

(* The stores share no variable: what the service does is a behaviour of   *)
(* the records, of the opening and of the run at once.                     *)
THEOREM ServiceComposition == ServiceSpec => Spec /\ DbSpec /\ RunSpec
<1>1. ServiceInit => Init /\ DbInit /\ RunInit
  BY DEF ServiceInit, FreshDatabase, FreshRun
<1>2. [ServiceNext]_serviceVars => [Next]_vars /\ [DbNext]_dbVars /\ [RunNext]_runVars
  <2> SUFFICES ASSUME [ServiceNext]_serviceVars PROVE [Next]_vars /\ [DbNext]_dbVars /\ [RunNext]_runVars
    OBVIOUS
  <2>1. CASE UNCHANGED serviceVars
    BY <2>1 DEF serviceVars
  <2>2. CASE Next /\ UNCHANGED <<dbVars, runVars, exercised>>
    BY <2>2
  <2>3. CASE DbNext /\ UNCHANGED <<vars, runVars, exercised>>
    BY <2>3
  <2>4. CASE RunNext /\ UNCHANGED <<vars, dbVars, exercised>>
    BY <2>4
  <2> QED
    BY <2>1, <2>2, <2>3, <2>4 DEF ServiceNext
<1> QED
  BY <1>1, <1>2, PTL DEF ServiceSpec, Spec, DbSpec, RunSpec

(* What the stores promise, in the service that composes them: a revision  *)
(* names one version, an import is applied once, members have parents, a   *)
(* database that is said to be ready is current and is migrated by one     *)
(* thread, and what the Agent answers is supported by what it recorded.    *)
THEOREM ServiceSafety ==
    ServiceSpec => []/\ RevisionNamesOneVersion
                     /\ ImportIsIdempotent
                     /\ MembersHaveParents
                     /\ ReadyIsCurrent
                     /\ MigratesAlone
                     /\ AnswersAreSupported
<1>1. StartedWith(AgentPlans) /\ [][RunNext]_runVars => []AnswersAreSupported
  BY PlansAreFrozen, AnswerSafety
<1>2. RunSpec => []AnswersAreSupported
  BY <1>1, PTL DEF RunSpec, RunInit
<1>3. FoundOnDisk(Files) /\ [][DbNext]_dbVars => []MigratesAlone
  BY FilesAreRecords, MigrationSafety
<1>4. DbSpec => []MigratesAlone
  BY <1>3, PTL DEF DbSpec, DbInit
<1> QED
  BY <1>2, <1>4, ServiceComposition, RevisionSafety, ImportSafety, ParentSafety, OpeningSafety, PTL

(* What no step of the service may do: a deleted identity does not come    *)
(* back, and a run that was cancelled starts no tool any more.             *)
THEOREM ServiceFinality == ServiceSpec => DeletedStaysDeleted /\ CancelStopsTools
<1>1. StartedWith(AgentPlans) /\ [][RunNext]_runVars => CancelStopsTools
  BY PlansAreFrozen, ToolSafety
<1>2. RunSpec => CancelStopsTools
  BY <1>1, PTL DEF RunSpec, RunInit
<1> QED
  BY <1>2, ServiceComposition, DeletionFinality, PTL
=============================================================================
