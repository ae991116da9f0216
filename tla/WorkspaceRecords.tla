-------------------------- MODULE WorkspaceRecords --------------------------
(***************************************************************************)
(* The workspace's versioned records: collections, their items and notes,  *)
(* imported conversations, the tombstones of what was deleted, and the     *)
(* import of backups (workspace/repository.py, collections.py,             *)
(* transfer.py).                                                           *)
(*                                                                         *)
(* Every operation is one SQLite write transaction, so an action is one    *)
(* committed call; a call that is refused rolls back and leaves no trace,  *)
(* and is a stuttering step.  What interleaves is what clients HOLD: a     *)
(* client reads a record, keeps its revision, and later writes or deletes  *)
(* naming that revision, while other clients and imports have moved on.    *)
(* A request may name any expected revision; held is what one of the many  *)
(* clients, any of them, read last.                                        *)
(*                                                                         *)
(* A record keeps its revision, an abstract content, the collection its    *)
(* payload lists it under (data.collectionId) and the collection the       *)
(* transfer wrapper names (parent_legacy_id): the routes write the same    *)
(* collection in both, a backup written by the browser has only the        *)
(* second.                                                                 *)
(***************************************************************************)
EXTENDS Naturals, FiniteSets, TLC

CONSTANTS Collections,    \* collection ids
          Members,        \* ids of items and of notes (clients may choose them)
          Conversations,  \* conversation ids
          Contents,       \* abstract payloads
          None,           \* absent
          Gone,           \* the content of a tombstone entry of a backup
          MaxRevision,    \* bound on revisions
          MaxCollections, \* MAX_COLLECTIONS
          MaxItems,       \* MAX_ITEMS_PER_COLLECTION
          MaxNotes,       \* MAX_NOTES_PER_COLLECTION
          MaxActivity,    \* MAX_ACTIVITY_PER_COLLECTION
          MaxImports,     \* bound on distinct backups imported
          BackupSize      \* bound on the records of one backup

ASSUME BoundsAssumption ==
    /\ MaxRevision \in Nat \ {0}
    /\ {MaxCollections, MaxItems, MaxNotes, MaxActivity} \subseteq Nat \ {0}
    /\ MaxImports \in Nat
    /\ BackupSize \in Nat

CollectionKeys == {"collection"} \X Collections
ItemKeys == {"item"} \X Members
NoteKeys == {"note"} \X Members
ConversationKeys == {"conversation"} \X Conversations
Keys == CollectionKeys \cup ItemKeys \cup NoteKeys \cup ConversationKeys

Revisions == 1..MaxRevision
Owner == Collections \cup {None}
Record == [rev: Revisions, content: Contents, listed: Owner, parent: Owner]

ASSUME ValuesAssumption ==
    /\ Gone \notin Contents
    /\ None \notin Collections \cup Contents \cup Record

VARIABLES live,       \* workspace_records: the record of a key, or None
          tombstone,  \* tombstones: the revision of a deleted key, 0 if none
          activity,   \* collection_activity rows of a collection
          receipts,   \* workspace_imports: the backups committed, by digest
          held        \* what a client holds: a key and the record it read there

vars == <<live, tombstone, activity, receipts, held>>

(***************************************************************************)
(* Backups.  What validate_workspace_backup accepts: at most one record    *)
(* per identity, every item with its collection in the same backup,        *)
(* tombstones of conversations only and never beside a live copy, and at   *)
(* most MaxCollections collections.  Notes are not portable.  An item of a *)
(* browser backup carries no collectionId; an exported item lists its      *)
(* wrapper's parent.                                                       *)
(***************************************************************************)
Entries(k) ==
    IF k \in ItemKeys
    THEN {r \in Record : r.parent # None /\ r.listed \in {r.parent, None}}
    ELSE [rev: Revisions, listed: {None}, parent: {None},
          content: Contents \cup IF k \in ConversationKeys THEN {Gone} ELSE {}]

ValidBackup(b) ==
    /\ \A k \in DOMAIN b : b[k] \in Entries(k)
    /\ \A k \in DOMAIN b \cap ItemKeys :
           <<"collection", b[k].parent>> \in DOMAIN b
    /\ Cardinality(DOMAIN b \cap CollectionKeys) <= MaxCollections

PortableKeys == CollectionKeys \cup ItemKeys \cup ConversationKeys

Backups ==
    UNION {{b \in [K -> UNION {Entries(k) : k \in K}] : ValidBackup(b)} :
               K \in {S \in SUBSET PortableKeys :
                          Cardinality(S) \in 1..BackupSize}}

TypeOK ==
    /\ live \in [Keys -> Record \cup {None}]
    /\ tombstone \in [Keys -> 0..(MaxRevision + 1)]
    /\ activity \in [Collections -> 0..MaxActivity]
    /\ receipts \subseteq Backups
    /\ held \in {None} \cup [key: Keys, record: Record]

Init ==
    /\ live = [k \in Keys |-> None]
    /\ tombstone = [k \in Keys |-> 0]
    /\ activity = [c \in Collections |-> 0]
    /\ receipts = {}
    /\ held = None

-----------------------------------------------------------------------------
(***************************************************************************)
(* The record primitives: create_in, replace_in, delete_in.                *)
(***************************************************************************)
IsLive(k) == live[k] # None
CanCreate(k) == tombstone[k] = 0 /\ ~IsLive(k)

CanReplace(k, expected) == IsLive(k) /\ live[k].rev = expected

CanDelete(k, expected) == IsLive(k) /\ live[k].rev = expected

NewRecord(v, listed) ==
    [rev |-> 1, content |-> v, listed |-> listed, parent |-> listed]

Create(k, v, listed) ==
    /\ CanCreate(k)
    /\ live' = [live EXCEPT ![k] = NewRecord(v, listed)]
    /\ UNCHANGED tombstone

(* Mutant: the payload is written without a new revision. *)
ReplaceQuietly(k, v, expected) ==
    /\ CanReplace(k, expected)
    /\ live' = [live EXCEPT ![k].content = v]
    /\ UNCHANGED tombstone

Replace(k, v, expected) ==
    /\ CanReplace(k, expected)
    /\ live[k].rev < MaxRevision
    /\ live' = [live EXCEPT ![k].rev = @ + 1, ![k].content = v]
    /\ UNCHANGED tombstone

(* Each deleted row leaves a tombstone one revision above it. *)
Bury(S) ==
    /\ live' = [k \in Keys |-> IF k \in S THEN None ELSE live[k]]
    /\ tombstone' = [k \in Keys |->
                        IF k \in S THEN live[k].rev + 1 ELSE tombstone[k]]

(* _record_activity_in: prune to the bound, then append. *)
RecordActivity(c) ==
    activity' = [activity EXCEPT ![c] = IF @ < MaxActivity THEN @ + 1 ELSE @]

-----------------------------------------------------------------------------
(* _children_in, _member_count_in: membership is what the payload lists. *)
Children(c) ==
    {k \in ItemKeys \cup NoteKeys : IsLive(k) /\ live[k].listed = c}

LiveCollections == {k \in CollectionKeys : IsLive(k)}

(* Any reader: get_collection, list_items, list_notes. *)
Read(k) ==
    /\ IsLive(k)
    /\ held' = [key |-> k, record |-> live[k]]
    /\ UNCHANGED <<live, tombstone, activity, receipts>>

CreateCollection(c, v) ==
    /\ Cardinality(LiveCollections) < MaxCollections
    /\ Create(<<"collection", c>>, v, None)
    /\ RecordActivity(c)
    /\ UNCHANGED <<receipts, held>>

UpdateCollection(c, v, expected) ==
    /\ Replace(<<"collection", c>>, v, expected)
    /\ RecordActivity(c)
    /\ UNCHANGED <<receipts, held>>

(* Mutant: the cascade forgets the notes. *)
DeleteCollectionItemsOnly(c, expected) ==
    /\ CanDelete(<<"collection", c>>, expected)
    /\ Bury({<<"collection", c>>} \cup (Children(c) \cap ItemKeys))
    /\ RecordActivity(c)
    /\ UNCHANGED <<receipts, held>>

(* The parent's revision is checked first; then every listed item and note *)
(* is tombstoned at its current revision, and the parent.                  *)
DeleteCollection(c, expected) ==
    /\ CanDelete(<<"collection", c>>, expected)
    /\ Bury({<<"collection", c>>} \cup Children(c))
    /\ RecordActivity(c)
    /\ UNCHANGED <<receipts, held>>

AddItem(c, m, v) ==
    /\ IsLive(<<"collection", c>>)
    /\ Cardinality(Children(c)) < MaxItems
    /\ Create(<<"item", m>>, v, c)
    /\ RecordActivity(c)
    /\ UNCHANGED <<receipts, held>>

(* add_note, and add_item with kind "note". *)
AddNote(c, m, v) ==
    /\ IsLive(<<"collection", c>>)
    /\ Cardinality(Children(c) \cap NoteKeys) < MaxNotes
    /\ Cardinality(Children(c)) < MaxItems
    /\ Create(<<"note", m>>, v, c)
    /\ RecordActivity(c)
    /\ UNCHANGED <<receipts, held>>

UpdateNote(c, m, v, expected) ==
    /\ Replace(<<"note", m>>, v, expected)
    /\ live[<<"note", m>>].listed = c
    /\ RecordActivity(c)
    /\ UNCHANGED <<receipts, held>>

(* _item_in: an id names the live item of that id, and else the note. *)
MemberNamed(m) ==
    IF IsLive(<<"item", m>>) THEN <<"item", m>> ELSE <<"note", m>>

(* delete_item and delete_note: the record deleted is the one the id       *)
(* resolves to, and only if it is listed in the collection the client      *)
(* names.                                                                  *)
DeleteMember(c, m, expected) ==
    /\ CanDelete(MemberNamed(m), expected)
    /\ live[MemberNamed(m)].listed = c
    /\ Bury({MemberNamed(m)})
    /\ RecordActivity(c)
    /\ UNCHANGED <<receipts, held>>

(* record_activity, for an operation that was done elsewhere: the parent    *)
(* need not be live.                                                       *)
RecordOperation(c) ==
    /\ RecordActivity(c)
    /\ UNCHANGED <<live, tombstone, receipts, held>>

-----------------------------------------------------------------------------
(***************************************************************************)
(* Import.  _plan gives every entry of the backup one outcome; duplicate,  *)
(* conflict and blocked_by_tombstone all leave the workspace as it is and  *)
(* are not told apart.                                                     *)
(***************************************************************************)
(* Mutant: an equal revision is replaced. *)
PlansRecordAtEqual(k, entry) ==
    /\ tombstone[k] = 0
    /\ IsLive(k) => live[k].rev <= entry.rev

PlansRecord(k, entry) ==
    /\ tombstone[k] = 0
    /\ IsLive(k) => live[k].rev < entry.rev

(* Mutant: an older tombstone buries a newer record. *)
PlansTombstoneAlways(k, entry) == tombstone[k] < entry.rev

PlansTombstone(k, entry) ==
    /\ IsLive(k) => live[k].rev <= entry.rev
    /\ tombstone[k] < entry.rev

Applies(b, k) ==
    IF b[k].content = Gone THEN PlansTombstone(k, b[k]) ELSE PlansRecord(k, b[k])

Applied(b) == {k \in DOMAIN b : Applies(b, k)}

(* A digest already committed returns its stored receipt. *)
ImportAgain(b) ==
    /\ b \in receipts
    /\ UNCHANGED vars

Import(b) ==
    /\ b \notin receipts
    /\ Cardinality(receipts) < MaxImports
    /\ live' = [k \in Keys |->
                   IF k \in Applied(b)
                   THEN IF b[k].content = Gone THEN None ELSE b[k]
                   ELSE live[k]]
    /\ tombstone' = [k \in Keys |->
                        IF k \in Applied(b) /\ b[k].content = Gone
                        THEN b[k].rev ELSE tombstone[k]]
    /\ receipts' = receipts \cup {b}
    /\ UNCHANGED <<activity, held>>

Next ==
    \/ \E k \in Keys : Read(k)
    \/ \E c \in Collections, v \in Contents : CreateCollection(c, v)
    \/ \E c \in Collections, m \in Members, v \in Contents :
           AddItem(c, m, v) \/ AddNote(c, m, v)
    \/ \E c \in Collections, v \in Contents, e \in Revisions :
           UpdateCollection(c, v, e)
    \/ \E c \in Collections, e \in Revisions : DeleteCollection(c, e)
    \/ \E c \in Collections, m \in Members, v \in Contents, e \in Revisions :
           UpdateNote(c, m, v, e)
    \/ \E c \in Collections, m \in Members, e \in Revisions :
           DeleteMember(c, m, e)
    \/ \E c \in Collections : RecordOperation(c)
    \/ \E b \in Backups : Import(b) \/ ImportAgain(b)

Spec == Init /\ [][Next]_vars

-----------------------------------------------------------------------------
(* A revision names one version of a record for ever: when the revision a  *)
(* client holds is still the current one, the record is still what that    *)
(* client read.  This is what makes the expected_revision precondition of  *)
(* replace_in and delete_in rule out lost updates, and it rests on         *)
(* tombstones (no identity restarts at revision 1) and on _plan never      *)
(* replacing an equal revision.                                            *)
RevisionNamesOneVersion ==
    held # None =>
        (IsLive(held.key) /\ live[held.key].rev = held.record.rev
            => live[held.key] = held.record)

(* Nothing brings a deleted record back, neither a create with the same id *)
(* nor any backup; a tombstone, written by a delete or imported, is never  *)
(* older than the record it buries, and never goes back to an older        *)
(* revision.                                                               *)
DeletedStaysDeleted ==
    [][\A k \in Keys :
           /\ tombstone[k] # 0 => /\ tombstone'[k] >= tombstone[k]
                                 /\ live'[k] = None
           /\ IsLive(k) /\ live'[k] = None => tombstone'[k] >= live[k].rev]_vars

(* Once a backup is committed, planning it again at any later time would   *)
(* change nothing, whatever clients and other imports did in between: the  *)
(* receipt import_backup returns early hides no work.                      *)
ImportIsIdempotent == \A b \in receipts : Applied(b) = {}

(* No note, and no item but one that an import wrote, is listed in a       *)
(* collection that is not live: the cascade of delete_collection and the   *)
(* parent check of add_item and add_note leave no orphan.                  *)
MembersHaveParents ==
    \A k \in ItemKeys \cup NoteKeys :
        IsLive(k) /\ live[k].listed # None
            => \/ IsLive(<<"collection", live[k].listed>>)
               \/ \E b \in receipts : k \in DOMAIN b /\ b[k] = live[k]

(* "an item can never outlive the container it was listed in"              *)
(* (collections.py, delete_collection): the container an item's wrapper    *)
(* names is live as long as the item is, as the export requires.           *)
ItemsHaveContainers ==
    \A k \in ItemKeys :
        IsLive(k) => IsLive(<<"collection", live[k].parent>>)

-----------------------------------------------------------------------------
(* Ids and contents are interchangeable. *)
Symmetry == Permutations(Collections) \cup Permutations(Members)
                \cup Permutations(Contents)
=============================================================================
