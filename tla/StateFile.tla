------------------------------ MODULE StateFile ------------------------------
(***************************************************************************)
(* The state file of infrastructure/persistence/json-file-repository.ts:   *)
(* what a save does to the file system call by call, what a start makes of *)
(* the file it finds, and what both are worth when the process dies in the *)
(* middle, a write fails, or the file is damaged while it lies on disk.    *)
(*                                                                         *)
(* CollectionPipeline takes a save to reach the file as a whole or not at  *)
(* all, and a restart to return what the file holds; this module is where  *)
(* that is checked.  The registry of added sites and the demo site's       *)
(* scenario are written by the same two calls (target-store.ts,            *)
(* file-scenario-store.ts).                                                *)
(*                                                                         *)
(* A record, a field and an event stand for themselves: reading keeps or   *)
(* drops each of them and never looks inside.  Malformed is any JSON value *)
(* of another shape than the code expects in that place.                   *)
(***************************************************************************)
EXTENDS SequencesExt, Naturals, Lists

CONSTANTS
    Collectors, Records, Fields,
    Snapshots,            \* the verified rows that are saved
    NoSnapshot, NoContract, NoFile, Unreadable, Malformed, Missing,
    MAX_EVENTS,           \* 200 in the code
    MaxDamages            \* how often the file is damaged

ASSUME StateFileAssumption ==
    /\ Snapshots \subseteq Seq(Records)
    /\ {MAX_EVENTS, MaxDamages} \subseteq Nat

\* What the file may hold for a collector, each list with members that lost their shape.
StoredRows == Seq(Records \cup {Malformed}) \cup {NoSnapshot, Malformed}
StoredContracts == (SUBSET (Fields \cup {Malformed})) \cup {NoContract, Malformed}

Documents == [snapshots : [Collectors -> StoredRows] \cup {Missing},
              catalog : [Collectors -> StoredRows] \cup {Missing},
              contracts : [Collectors -> StoredContracts] \cup {Missing},
              events : Seq(Collectors \cup {Malformed})]

\* A value of the wrong shape, and an absent one, is none of the right shape.
ASSUME MarkersAssumption ==
    /\ Malformed \notin Records \cup Fields \cup Collectors
    /\ NoSnapshot # Malformed /\ NoContract # Malformed
    /\ {NoSnapshot, Malformed} \cap Seq(Records \cup {Malformed}) = {}
    /\ \A rules \in SUBSET (Fields \cup {Malformed}) : rules \notin {NoContract, Malformed}
    /\ Missing \notin [Collectors -> StoredRows] \cup [Collectors -> StoredContracts]
    /\ {NoFile, Unreadable} \cap Documents = {}

VARIABLES
    state,         \* #state
    step,          \* how far a #write under way has come, "resting" without one
    file,          \* the state file
    temporary,     \* the file beside it that #write fills
    acknowledged,  \* what was in the last save that returned, less what was damaged since
    damages

vars == <<state, step, file, temporary, acknowledged, damages>>

EMPTY == [snapshots |-> [c \in Collectors |-> NoSnapshot],
          contracts |-> [c \in Collectors |-> NoContract], events |-> <<>>]

\* A file of version 2, and one of version 1: rows under another key, no contracts yet.
Document(s) == [snapshots |-> s.snapshots, catalog |-> Missing,
                contracts |-> s.contracts, events |-> s.events]

VersionOne(s) == [snapshots |-> Missing, catalog |-> s.snapshots,
                  contracts |-> Missing, events |-> s.events]
-----------------------------------------------------------------------------
(* Reading: each entry is kept or dropped on its own. *)

WellFormed(list) == Without(list, {Malformed})

readSnapshot(entry) ==
    IF entry \in {NoSnapshot, Malformed} THEN NoSnapshot ELSE WellFormed(entry)

\* A contract's own shape is required of it, the members of its lists are not.
readContract(entry) ==
    IF entry \in {NoContract, Malformed} THEN NoContract ELSE entry \ {Malformed}

Read(f) ==
    IF f \in {NoFile, Unreadable} THEN EMPTY
    ELSE LET raw == IF f.snapshots # Missing THEN f.snapshots ELSE f.catalog IN
         [snapshots |-> [c \in Collectors |-> readSnapshot(raw[c])],
          contracts |-> [c \in Collectors |->
                            IF f.contracts = Missing THEN NoContract
                                                     ELSE readContract(f.contracts[c])],
          events |-> WellFormed(f.events)]
-----------------------------------------------------------------------------
(* Saving: memory first, then the temporary file, then the rename. *)

Newest(events) ==
    SubSeq(events, IF Len(events) > MAX_EVENTS THEN Len(events) - MAX_EVENTS + 1 ELSE 1,
           Len(events))

Save(new) ==
    /\ step = "resting"
    /\ state' = new
    /\ step' = "opening"
    /\ UNCHANGED <<file, temporary, acknowledged, damages>>

saveLastKnownGood(c) ==
    \E rows \in Snapshots : Save([state EXCEPT !.snapshots[c] = rows])

saveContract(c) == Save([state EXCEPT !.contracts[c] = Fields])

appendEvent(c) == Save([state EXCEPT !.events = Newest(Append(@, c))])

\* Mutant: the state file itself is opened for writing.
OpensInPlace ==
    /\ step = "opening"
    /\ file' = Unreadable
    /\ step' = "writing"
    /\ UNCHANGED <<state, temporary, acknowledged, damages>>

\* writeFileSync: the file is truncated, and then filled.
Opens ==
    /\ step = "opening"
    /\ temporary' = Unreadable
    /\ step' = "writing"
    /\ UNCHANGED <<state, file, acknowledged, damages>>

Fills ==
    /\ step = "writing"
    /\ temporary' = Document(state)
    /\ step' = "written"
    /\ UNCHANGED <<state, file, acknowledged, damages>>

\* renameSync, after which the save returns.
Renames ==
    /\ step = "written"
    /\ file' = temporary
    /\ temporary' = NoFile
    /\ step' = "resting"
    /\ acknowledged' = state
    /\ UNCHANGED <<state, damages>>

\* Any call of #write throws, mkdirSync first: memory is not taken back.  A temporary file
\* left behind is truncated before it is next used, so what it holds is not kept.
WriteThrows ==
    /\ step # "resting"
    /\ step' = "resting"
    /\ temporary' = NoFile
    /\ UNCHANGED <<state, file, acknowledged, damages>>

\* The process dies, at any point, and is started again.
Restart ==
    /\ state' = Read(file)
    /\ step' = "resting"
    /\ temporary' = NoFile
    /\ UNCHANGED <<file, acknowledged, damages>>
-----------------------------------------------------------------------------
(* Damage to the file between two operations.  What it leaves of an        *)
(* acknowledged save is everything it did not touch.                       *)

Damage(damaged, left) ==
    /\ step = "resting"
    /\ damages < MaxDamages
    /\ damages' = damages + 1
    /\ file' = damaged
    /\ acknowledged' = left
    /\ UNCHANGED <<state, step, temporary>>

FileIsTorn == file # NoFile /\ Damage(Unreadable, EMPTY)

Rows == IF file.snapshots # Missing THEN "snapshots" ELSE "catalog"

SnapshotIsDamaged(c) ==
    /\ file \notin {NoFile, Unreadable}
    /\ file[Rows][c] # NoSnapshot
    /\ Damage([file EXCEPT ![Rows][c] = Malformed],
              [acknowledged EXCEPT !.snapshots[c] = NoSnapshot])

RecordIsDamaged(c) ==
    /\ file \notin {NoFile, Unreadable}
    /\ file[Rows][c] \in Snapshots
    /\ \E i \in DOMAIN file[Rows][c] :
          Damage([file EXCEPT ![Rows][c][i] = Malformed],
                 [acknowledged EXCEPT !.snapshots[c] = RemoveAt(@, i)])

ContractIsDamaged(c) ==
    /\ file \notin {NoFile, Unreadable}
    /\ file.contracts # Missing /\ file.contracts[c] # NoContract
    /\ Damage([file EXCEPT !.contracts[c] = Malformed],
              [acknowledged EXCEPT !.contracts[c] = NoContract])

\* One of the rules of a contract: the others remain in force.
RuleIsDamaged(c) ==
    /\ file \notin {NoFile, Unreadable}
    /\ file.contracts # Missing /\ file.contracts[c] \notin {NoContract, Malformed}
    /\ \E f \in file.contracts[c] \ {Malformed} :
          Damage([file EXCEPT !.contracts[c] = (@ \ {f}) \cup {Malformed}],
                 [acknowledged EXCEPT !.contracts[c] = @ \ {f}])

EventIsDamaged ==
    /\ file \notin {NoFile, Unreadable}
    /\ \E i \in DOMAIN file.events :
          /\ file.events[i] # Malformed
          /\ Damage([file EXCEPT !.events[i] = Malformed],
                    [acknowledged EXCEPT !.events =
                        RemoveAt(@, Cardinality({j \in 1..i : file.events[j] # Malformed}))])
-----------------------------------------------------------------------------
\* The first start finds no file, one of this version or one of the version before.
Init ==
    /\ acknowledged = EMPTY \/
       \E c \in Collectors, rows \in Snapshots :
          acknowledged = [EMPTY EXCEPT !.snapshots[c] = rows]
    /\ file \in {IF acknowledged = EMPTY THEN NoFile ELSE VersionOne(acknowledged),
                 Document(acknowledged)}
    /\ state = Read(file)
    /\ step = "resting"
    /\ temporary = NoFile
    /\ damages = 0

Next ==
    \/ \E c \in Collectors :
          \/ saveLastKnownGood(c) \/ saveContract(c) \/ appendEvent(c)
          \/ SnapshotIsDamaged(c) \/ RecordIsDamaged(c)
          \/ ContractIsDamaged(c) \/ RuleIsDamaged(c)
    \/ Opens \/ Fills \/ Renames \/ WriteThrows
    \/ Restart
    \/ FileIsTorn \/ EventIsDamaged

Spec == Init /\ [][Next]_vars
-----------------------------------------------------------------------------
\* Whenever the process dies, the start that follows finds every part of the last save
\* that returned, except exactly the parts that were damaged on disk since: a save that was
\* cut short or failed, an entry that no longer has its shape, and the older format of
\* the file cost nothing else (#write, #read).
AcknowledgedIsReadBack == Read(file) = acknowledged
==============================================================================
