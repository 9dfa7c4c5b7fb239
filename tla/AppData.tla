------------------------------- MODULE AppData -------------------------------
(***************************************************************************)
(* What the handlers of a OneBot 11 connection share: AppData of           *)
(* app/compat/data.rs, which holds the bot's status and the file storage.  *)
(* Frames are handled by tasks of their own, on any thread: a meta event   *)
(* that carries a status is compared with the status held, which is then   *)
(* written and told to the application under no common lock.               *)
(***************************************************************************)
EXTENDS Storage

CONSTANTS
    Meta,      \* meta events that carry a status
    StatusOf,  \* the status each of them carries
    Good,      \* the status a connection starts with
    None       \* no meta event

ASSUME AppDataAssumption == IsFiniteSet(Meta) /\ None \notin Meta

VARIABLES
    status,    \* AppDataInner.status
    told,      \* the status of the last StatusUpdate sent, Good before the first
    meta,      \* where the conversion of each meta event is
    writer,    \* history: the event whose status was written last
    teller,    \* history: the event whose status was told last
    overtaken  \* history: events that another wrote after before they told

statusVars == <<status, told, meta, writer, teller, overtaken>>
vars == <<storageVars, statusVars>>

Status == {StatusOf[m] : m \in Meta} \cup {Good}

TypeOK ==
    /\ StorageTypeOK
    /\ {status, told} \subseteq Status
    /\ meta \in [Meta -> {"idle", "differs", "written", "same", "told", "failed"}]
    /\ {writer, teller} \subseteq Meta \cup {None}
    /\ overtaken \subseteq Meta

Init ==
    /\ StorageInit
    /\ status = Good /\ told = Good
    /\ meta = [m \in Meta |-> "idle"]
    /\ writer = None /\ teller = None
    /\ overtaken = {}

-----------------------------------------------------------------------------
(* convert_meta_event *)

\* A conversion awaits nothing, so that it has a thread to itself until it ends.
\* It shares nothing with the storage, whose steps run beside it.
ThreadToConvert ==
    Cardinality({w \in Writer : call[w] = "locking"})
        + Cardinality({m \in Meta : meta[m] \in {"differs", "written"}}) < Threads

\* The status is compared under a read lock, which is dropped.
Compare(m) ==
    /\ meta[m] = "idle"
    /\ ThreadToConvert
    /\ meta' = [meta EXCEPT ![m] = IF status = StatusOf[m] THEN "same" ELSE "differs"]
    /\ UNCHANGED <<storageVars, status, told, writer, teller, overtaken>>

Write(m) ==
    /\ meta[m] = "differs"
    /\ status' = StatusOf[m]
    /\ writer' = m
    /\ overtaken' = overtaken \cup {n \in Meta : meta[n] = "written"}

\* Mutant: the status is written and the conversion ends without telling it.
WriteStatusOnly(m) ==
    /\ Write(m)
    /\ meta' = [meta EXCEPT ![m] = "told"]
    /\ UNCHANGED <<storageVars, told, teller>>

\* Between the locks another event may have written, this status or a third.
WriteStatus(m) ==
    /\ Write(m)
    /\ meta' = [meta EXCEPT ![m] = "written"]
    /\ UNCHANGED <<storageVars, told, teller>>

TellStatus(m) ==
    /\ meta[m] = "written"
    /\ meta' = [meta EXCEPT ![m] = "told"]
    /\ told' = StatusOf[m]
    /\ teller' = m
    /\ UNCHANGED <<storageVars, status, writer, overtaken>>

\* The StatusUpdate does not convert, or the application's receiver is gone: an
\* error, with the status written.
TellFails(m) ==
    /\ meta[m] = "written"
    /\ meta' = [meta EXCEPT ![m] = "failed"]
    /\ UNCHANGED <<storageVars, status, told, writer, teller, overtaken>>

ConvertMeta(m) == Compare(m) \/ WriteStatus(m) \/ TellStatus(m) \/ TellFails(m)

StorageStep == StorageNext /\ UNCHANGED statusVars

Next == StorageStep \/ \E m \in Meta : ConvertMeta(m)

Spec == Init /\ [][Next]_vars

FairSpec == Spec /\ StorageFairness

-----------------------------------------------------------------------------
(* Once the event that wrote last has told its status, the status the      *)
(* application was told last is the status held, a return to an earlier    *)
(* one included: that events write between each other's comparison and     *)
(* write does no harm.  It may differ in one way only: the event that told *)
(* last was overtaken between its write and its message, by another that   *)
(* wrote after it and told before it.                                      *)
StatusTold ==
    writer # None /\ meta[writer] = "told" => told = status \/ teller \in overtaken
=============================================================================
