------------------------------- MODULE Storage -------------------------------
(***************************************************************************)
(* OBFileStorage over LocalFs (common/storage.rs), as the action handlers  *)
(* of a connection call it: uploads in one piece, and uploads in fragments *)
(* that are prepared, transferred and finished by separate calls.          *)
(*                                                                         *)
(* A transfer keeps a reference into frag_map, a read lock on the entry's  *)
(* shard, while it awaits the file system.  An insertion or removal in     *)
(* that shard blocks its thread meanwhile, and a blocked thread runs no    *)
(* other task.  The entries of map are never referred to across an await.  *)
(*                                                                         *)
(* A write returns when its bytes are handed to tokio's blocking pool; the *)
(* file is not flushed, so a failure after that is seen by nobody.  Every  *)
(* transfer has an offset of its own.  lazy is always TRUE and every url   *)
(* gets a path at once, so nothing is ever downloaded.  Reads change       *)
(* nothing and are left out.                                               *)
(***************************************************************************)
EXTENDS Naturals, FiniteSets

CONSTANTS
    Plain,    \* uploads in one piece
    Upload,   \* uploads in fragments, each the id that Prepare returns
    Part,     \* calls of Transfer
    Fin,      \* calls of Finish, each the id that it returns
    FileOf,   \* the upload a part or a finish is for
    ShardOf,  \* the shard of frag_map that an upload's id hashes to
    Threads   \* worker threads of the runtime

ASSUME StorageAssumption ==
    /\ FileOf \in [Part \cup Fin -> Upload]
    /\ Threads \in Nat \ {0}
    /\ IsFiniteSet(Upload \cup Fin)
    /\ Upload \cap Fin = {}

VARIABLES
    frag_map,  \* uploads that are prepared and not finished
    map,       \* the source of every file that has an entry
    call,      \* where each Prepare and Finish is
    part,      \* where each Transfer is
    plain,     \* where each upload in one piece is
    flying,    \* parts whose bytes the blocking pool still has to write
    disk       \* parts that are in their file

storageVars == <<frag_map, map, call, part, plain, flying, disk>>

Writer == Upload \cup Fin
UploadOf(w) == IF w \in Upload THEN w ELSE FileOf[w]

StorageTypeOK ==
    /\ frag_map \subseteq Upload
    /\ map \in [Fin \cup Plain -> {"none", "url", "path"}]
    /\ call \in [Writer -> {"idle", "locking", "ok", "missing"}]
    /\ part \in [Part -> {"idle", "writing", "ok", "missing", "failed"}]
    /\ plain \in [Plain -> {"idle", "writing", "ok", "failed"}]
    /\ flying \cup disk \subseteq {t \in Part : part[t] = "ok"}
    /\ flying \cap disk = {}

StorageInit ==
    /\ frag_map = {}
    /\ map = [i \in Fin \cup Plain |-> "none"]
    /\ call = [w \in Writer |-> "idle"]
    /\ part = [t \in Part |-> "idle"]
    /\ plain = [p \in Plain |-> "idle"]
    /\ flying = {}
    /\ disk = {}

\* Mutant: a transfer's reference is kept with its answer.
HeldForGood(u) == \E t \in Part : part[t] \in {"writing", "ok"} /\ ShardOf[FileOf[t]] = ShardOf[u]

\* A reference into the shard of u exists.
Held(u) == \E t \in Part : part[t] = "writing" /\ ShardOf[FileOf[t]] = ShardOf[u]

\* A thread is left that is not in the middle of an insertion or a removal.
FreeThread == Cardinality({w \in Writer : call[w] = "locking"}) < Threads

-----------------------------------------------------------------------------
(* upload *)

\* A url or a path is entered; nothing is downloaded or looked at.
UploadSource(p) ==
    /\ FreeThread
    /\ plain[p] = "idle"
    /\ plain' = [plain EXCEPT ![p] = "ok"]
    /\ \E s \in {"url", "path"} : map' = [map EXCEPT ![p] = s]
    /\ UNCHANGED <<frag_map, call, part, flying, disk>>

UploadData(p) ==
    /\ FreeThread
    /\ plain[p] = "idle"
    /\ plain' = [plain EXCEPT ![p] = "writing"]
    /\ UNCHANGED <<frag_map, map, call, part, flying, disk>>

\* The data was written or not; its id is returned but gets no entry.
UploadReturns(p) ==
    /\ FreeThread
    /\ plain[p] = "writing"
    /\ \E s \in {"ok", "failed"} : plain' = [plain EXCEPT ![p] = s]
    /\ UNCHANGED <<frag_map, map, call, part, flying, disk>>

-----------------------------------------------------------------------------
(* upload_fragmented *)

\* The id is known to the client once Prepare has returned.
Known(u) == call[u] = "ok"

\* A Prepare or a Finish reaches the lock of its shard.
Lock(w) ==
    /\ FreeThread
    /\ call[w] = "idle"
    /\ w \in Fin => Known(FileOf[w])
    /\ call' = [call EXCEPT ![w] = "locking"]
    /\ UNCHANGED <<frag_map, map, part, plain, flying, disk>>

Prepare(u) ==
    /\ call[u] = "locking"
    /\ ~Held(u)
    /\ call' = [call EXCEPT ![u] = "ok"]
    /\ frag_map' = frag_map \cup {u}
    /\ UNCHANGED <<map, part, plain, flying, disk>>

\* Mutant: the entry is read and stays.
FinishReading(f) ==
    /\ call[f] = "locking"
    /\ call' = [call EXCEPT ![f] = IF FileOf[f] \in frag_map THEN "ok" ELSE "missing"]
    /\ map' = [map EXCEPT ![f] = IF FileOf[f] \in frag_map THEN "path" ELSE @]
    /\ UNCHANGED <<frag_map, part, plain, flying, disk>>

\* The entry is removed and the file entered under a new id, whatever has been
\* transferred; without an entry the id does not exist.
Finish(f) ==
    /\ call[f] = "locking"
    /\ ~Held(FileOf[f])
    /\ call' = [call EXCEPT ![f] = IF FileOf[f] \in frag_map THEN "ok" ELSE "missing"]
    /\ map' = [map EXCEPT ![f] = IF FileOf[f] \in frag_map THEN "path" ELSE @]
    /\ frag_map' = frag_map \ {FileOf[f]}
    /\ UNCHANGED <<part, plain, flying, disk>>

\* Transfer looks the upload up and starts to write with the reference held.
Transfer(t) ==
    /\ FreeThread
    /\ part[t] = "idle"
    /\ Known(FileOf[t])
    /\ part' = [part EXCEPT ![t] = IF FileOf[t] \in frag_map THEN "writing" ELSE "missing"]
    /\ UNCHANGED <<frag_map, map, call, plain, flying, disk>>

\* The write returns to its task, which drops the reference: an error, or bytes
\* that are on their way.
TransferReturns(t) ==
    /\ FreeThread
    /\ part[t] = "writing"
    /\ \/ part' = [part EXCEPT ![t] = "failed"] /\ UNCHANGED flying
       \/ part' = [part EXCEPT ![t] = "ok"] /\ flying' = flying \cup {t}
    /\ UNCHANGED <<frag_map, map, call, plain, disk>>

\* Mutant: bytes that were written are written again.
LandAgain(t) ==
    /\ t \in flying
    /\ disk' \in {disk, disk \cup {t}}
    /\ UNCHANGED <<frag_map, map, call, part, plain, flying>>

\* The blocking pool writes the bytes next to the others of the file, or fails.
Land(t) ==
    /\ t \in flying
    /\ flying' = flying \ {t}
    /\ disk' \in {disk, disk \cup {t}}
    /\ UNCHANGED <<frag_map, map, call, part, plain>>

Enter(w) == IF w \in Upload THEN Prepare(w) ELSE Finish(w)

StorageNext ==
    \/ \E p \in Plain : UploadSource(p) \/ UploadData(p) \/ UploadReturns(p)
    \/ \E w \in Writer : Lock(w) \/ Enter(w)
    \/ \E t \in Part : Transfer(t) \/ TransferReturns(t) \/ Land(t)

\* The file system answers, the runtime polls what it answered, and a lock that
\* stays free is given to a thread that waits for it.
StorageFairness ==
    /\ \A t \in Part : WF_storageVars(TransferReturns(t)) /\ WF_storageVars(Land(t))
    /\ \A p \in Plain : WF_storageVars(UploadReturns(p))
    /\ \A w \in Writer : WF_storageVars(Enter(w))

-----------------------------------------------------------------------------
(* A finished upload takes nothing more: however calls are repeated and    *)
(* interleaved, from the return of Finish on no other Finish makes a file  *)
(* of the upload, and no transfer into it is accepted, goes on or returns. *)
(* Only bytes of transfers that had returned before may still get to the   *)
(* file, which Finish does not wait for.                                   *)
FinishSeals ==
    [][\A f \in Fin : call[f] = "ok" =>
         /\ \A g \in Fin \ {f} : FileOf[g] = FileOf[f] => call'[g] # "ok"
         /\ \A t \in Part : FileOf[t] = FileOf[f] =>
              /\ part'[t] # "writing"
              /\ t \in flying' \cup disk' => t \in flying \cup disk]_storageVars

\* Every thread waits for a lock that a transfer holds, which none is left to run.
Stuck ==
    /\ ~FreeThread
    /\ \A w \in Writer : call[w] = "locking" => Held(UploadOf(w))

(* A Prepare or a Finish that waits for transfers to let go of their       *)
(* entries ends, whatever other calls come meanwhile, unless all worker    *)
(* threads come to wait like it: then nothing would ever release the lock. *)
LockIsGiven ==
    ([]~Stuck) => \A w \in Writer : call[w] = "locking" ~> call[w] # "locking"
=============================================================================
