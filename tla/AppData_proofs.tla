--------------------------- MODULE AppData_proofs ---------------------------
(***************************************************************************)
(* Proofs about AppData and the Storage under it, for any uploads, calls,  *)
(* parts, statuses, shards and number of threads.                          *)
(***************************************************************************)
EXTENDS AppData, TLAPS

USE StorageAssumption, AppDataAssumption

-----------------------------------------------------------------------------
(* Types *)

LEMMA StorageTypeStep == StorageTypeOK /\ StorageNext => StorageTypeOK'
<1> SUFFICES ASSUME StorageTypeOK, StorageNext
             PROVE  StorageTypeOK'
  OBVIOUS
<1> USE DEF StorageTypeOK, Writer
<1>1. ASSUME NEW p \in Plain, UploadSource(p)
      PROVE  StorageTypeOK'
  BY <1>1 DEF UploadSource
<1>2. ASSUME NEW p \in Plain, UploadData(p) \/ UploadReturns(p)
      PROVE  StorageTypeOK'
  BY <1>2 DEF UploadData, UploadReturns
<1>3. ASSUME NEW w \in Writer, Lock(w)
      PROVE  StorageTypeOK'
  BY <1>3 DEF Lock
<1>4. ASSUME NEW u \in Upload, Prepare(u)
      PROVE  StorageTypeOK'
  BY <1>4 DEF Prepare
<1>5. ASSUME NEW f \in Fin, Finish(f)
      PROVE  StorageTypeOK'
  BY <1>5 DEF Finish
<1>6. ASSUME NEW t \in Part, Transfer(t)
      PROVE  StorageTypeOK'
  BY <1>6 DEF Transfer
<1>7. ASSUME NEW t \in Part, TransferReturns(t)
      PROVE  StorageTypeOK'
  BY <1>7 DEF TransferReturns
<1>8. ASSUME NEW t \in Part, Land(t)
      PROVE  StorageTypeOK'
  BY <1>8 DEF Land
<1> QED
  BY <1>1, <1>2, <1>3, <1>4, <1>5, <1>6, <1>7, <1>8 DEF StorageNext, Enter

LEMMA TypeStep == TypeOK /\ [Next]_vars => TypeOK'
<1> SUFFICES ASSUME TypeOK, [Next]_vars
             PROVE  TypeOK'
  OBVIOUS
<1> USE DEF TypeOK
<1>1. ASSUME UNCHANGED storageVars
      PROVE  StorageTypeOK'
  BY <1>1 DEF storageVars, StorageTypeOK
<1>2. CASE UNCHANGED vars
  BY <1>1, <1>2 DEF vars, statusVars, Status
<1>3. CASE StorageStep
  BY <1>3, StorageTypeStep DEF StorageStep, statusVars, Status
<1>4. ASSUME NEW m \in Meta, ConvertMeta(m)
      PROVE  TypeOK'
  <2>1. StatusOf[m] \in Status
    BY DEF Status
  <2>2. StorageTypeOK'
    BY <1>1, <1>4 DEF ConvertMeta, Compare, Write, WriteStatus, TellStatus, TellFails
  <2>3. CASE Compare(m)
    BY <2>2, <2>3 DEF Compare, Status
  <2>4. CASE WriteStatus(m)
    BY <2>1, <2>2, <2>4 DEF WriteStatus, Write, Status
  <2>5. CASE TellStatus(m)
    BY <2>1, <2>2, <2>5 DEF TellStatus, Status
  <2>6. CASE TellFails(m)
    BY <2>2, <2>6 DEF TellFails, Status
  <2> QED
    BY <1>4, <2>3, <2>4, <2>5, <2>6 DEF ConvertMeta
<1> QED
  BY <1>2, <1>3, <1>4 DEF Next

(***************************************************************************)
(* The types; bytes are on their way or in a file only for transfers that  *)
(* returned without an error.                                              *)
(***************************************************************************)
THEOREM Typing == Spec => []TypeOK
<1>1. Init => TypeOK
  BY DEF Init, TypeOK, StorageInit, StorageTypeOK, Status, Writer
<1> QED
  BY <1>1, TypeStep, PTL DEF Spec

-----------------------------------------------------------------------------
(* Uploads *)

\* An upload is in frag_map only when its Prepare has returned, and a Finish is
\* called for such an upload alone: none comes back once it was removed.
Prepared == /\ \A u \in frag_map : Known(u)
            /\ \A f \in Fin : call[f] # "idle" => Known(FileOf[f])

\* A transfer writes only into an upload that is not finished.
Writing == \A t \in Part : part[t] = "writing" => FileOf[t] \in frag_map

\* A finished upload is prepared no more, and became one file.
Finished ==
    \A f \in Fin : call[f] = "ok" =>
        /\ FileOf[f] \notin frag_map
        /\ \A g \in Fin : FileOf[g] = FileOf[f] /\ call[g] = "ok" => g = f

SealInv == Prepared /\ Writing /\ Finished

LEMMA SealStep == StorageTypeOK /\ SealInv /\ [StorageNext]_storageVars => SealInv'
<1> SUFFICES ASSUME StorageTypeOK, SealInv, [StorageNext]_storageVars
             PROVE  SealInv'
  OBVIOUS
<1> USE DEF SealInv, Prepared, Writing, Finished, Known
<1>1. ASSUME UNCHANGED <<frag_map, call, part>>
      PROVE  SealInv'
  BY <1>1
<1>2. ASSUME NEW p \in Plain, UploadSource(p) \/ UploadData(p) \/ UploadReturns(p)
      PROVE  SealInv'
  BY <1>1, <1>2 DEF UploadSource, UploadData, UploadReturns
<1>3. ASSUME NEW w \in Writer, Lock(w)
      PROVE  SealInv'
  BY <1>3 DEF Lock, StorageTypeOK, Writer
<1>4. ASSUME NEW u \in Upload, Prepare(u)
      PROVE  SealInv'
  BY <1>4 DEF Prepare, StorageTypeOK, Writer
<1>5. ASSUME NEW f \in Fin, Finish(f)
      PROVE  SealInv'
  <2>1. \A t \in Part : part[t] = "writing" => FileOf[t] # FileOf[f]
    BY <1>5 DEF Finish, Held
  <2>2. /\ frag_map' = frag_map \ {FileOf[f]}
        /\ part' = part
        /\ call[f] = "locking"
        /\ call' = [call EXCEPT ![f] = IF FileOf[f] \in frag_map THEN "ok" ELSE "missing"]
    BY <1>5 DEF Finish
  <2>3. /\ \A u \in Upload : call'[u] = call[u]
        /\ \A g \in Fin : g # f => call'[g] = call[g]
        /\ call'[f] = "ok" => FileOf[f] \in frag_map
    BY <2>2 DEF StorageTypeOK, Writer
  <2>4. Prepared' /\ Writing'
    BY <2>1, <2>2, <2>3 DEF StorageTypeOK
  <2>5. Finished'
    BY <2>1, <2>2, <2>3
  <2> QED
    BY <2>4, <2>5
<1>6. ASSUME NEW t \in Part, Transfer(t)
      PROVE  SealInv'
  BY <1>6 DEF Transfer, StorageTypeOK
<1>7. ASSUME NEW t \in Part, TransferReturns(t)
      PROVE  SealInv'
  BY <1>7 DEF TransferReturns, StorageTypeOK
<1>8. ASSUME NEW t \in Part, Land(t)
      PROVE  SealInv'
  BY <1>1, <1>8 DEF Land
<1>9. CASE UNCHANGED storageVars
  BY <1>1, <1>9 DEF storageVars
<1> QED
  BY <1>2, <1>3, <1>4, <1>5, <1>6, <1>7, <1>8, <1>9 DEF StorageNext, Enter, Writer

\* What a step may still do to the parts of a finished upload.
LEMMA SealedStep ==
    ASSUME StorageTypeOK, SealInv, SealInv', StorageNext,
           NEW f \in Fin, call[f] = "ok",
           NEW t \in Part, FileOf[t] = FileOf[f]
    PROVE  part'[t] # "writing" /\ (t \in flying' \cup disk' => t \in flying \cup disk)
<1>1. FileOf[f] \notin frag_map /\ part[t] # "writing"
  BY DEF SealInv, Writing, Finished
<1>2. ASSUME UNCHANGED <<part, flying, disk>>
      PROVE  part'[t] # "writing" /\ (t \in flying' \cup disk' => t \in flying \cup disk)
  BY <1>1, <1>2
<1>3. ASSUME NEW p \in Plain, UploadSource(p) \/ UploadData(p) \/ UploadReturns(p)
      PROVE  UNCHANGED <<part, flying, disk>>
  BY <1>3 DEF UploadSource, UploadData, UploadReturns
<1>4. ASSUME NEW w \in Writer, Lock(w) \/ Enter(w)
      PROVE  UNCHANGED <<part, flying, disk>>
  BY <1>4 DEF Lock, Enter, Prepare, Finish
<1>5. ASSUME NEW s \in Part, Transfer(s)
      PROVE  part'[t] # "writing" /\ UNCHANGED <<flying, disk>>
  BY <1>1, <1>5 DEF Transfer, StorageTypeOK
<1>6. ASSUME NEW s \in Part, TransferReturns(s)
      PROVE  part'[t] # "writing" /\ (t \in flying' <=> t \in flying) /\ UNCHANGED disk
  BY <1>1, <1>6 DEF TransferReturns, StorageTypeOK
<1>7. ASSUME NEW s \in Part, Land(s)
      PROVE  /\ UNCHANGED part
             /\ t \in flying' \cup disk' => t \in flying \cup disk
  BY <1>7 DEF Land
<1> QED
  BY <1>1, <1>2, <1>3, <1>4, <1>5, <1>6, <1>7 DEF StorageNext

(***************************************************************************)
(* However many calls prepare, transfer and finish at once, a finished     *)
(* upload is no other file's and takes no more bytes than those of the     *)
(* transfers that returned before.                                         *)
(***************************************************************************)
THEOREM SealTheorem == Spec => FinishSeals
<1> DEFINE Step == \A f \in Fin : call[f] = "ok" =>
                     /\ \A g \in Fin \ {f} : FileOf[g] = FileOf[f] => call'[g] # "ok"
                     /\ \A t \in Part : FileOf[t] = FileOf[f] =>
                          /\ part'[t] # "writing"
                          /\ t \in flying' \cup disk' => t \in flying \cup disk
<1>1. Init => SealInv
  BY DEF Init, StorageInit, SealInv, Prepared, Writing, Finished, Writer
<1>2. [Next]_vars => [StorageNext]_storageVars
  BY DEF vars, Next, StorageStep, ConvertMeta, Compare, Write, WriteStatus, TellStatus, TellFails
<1>3. TypeOK /\ SealInv /\ [Next]_vars => SealInv'
  BY <1>2, SealStep DEF TypeOK
<1>4. TypeOK /\ SealInv /\ SealInv' /\ [Next]_vars => [Step]_storageVars
  <2> SUFFICES ASSUME StorageTypeOK, SealInv, SealInv', StorageNext,
                      NEW f \in Fin, call[f] = "ok"
               PROVE  /\ \A g \in Fin \ {f} : FileOf[g] = FileOf[f] => call'[g] # "ok"
                      /\ \A t \in Part : FileOf[t] = FileOf[f] =>
                           /\ part'[t] # "writing"
                           /\ t \in flying' \cup disk' => t \in flying \cup disk
    BY <1>2 DEF TypeOK
  <2>1. call'[f] = "ok"
    BY DEF StorageTypeOK, StorageNext, Writer, UploadSource, UploadData, UploadReturns, Lock, Enter,
           Prepare, Finish, Transfer, TransferReturns, Land
  <2>2. \A g \in Fin \ {f} : FileOf[g] = FileOf[f] => call'[g] # "ok"
    BY <2>1 DEF SealInv, Finished
  <2>3. \A t \in Part : FileOf[t] = FileOf[f] =>
          part'[t] # "writing" /\ (t \in flying' \cup disk' => t \in flying \cup disk)
    BY SealedStep
  <2> QED
    BY <2>2, <2>3
<1> QED
  BY <1>1, <1>3, <1>4, Typing, PTL DEF Spec, FinishSeals

-----------------------------------------------------------------------------
(* The bot's status *)

\* An event that has written and not yet told is the last writer or was
\* overtaken by it; so the one that told last was overtaken, or it is the last
\* writer, or that one has not told.
Written ==
    /\ writer # None => status = StatusOf[writer]
    /\ \A m \in Meta : meta[m] = "written" => m = writer \/ m \in overtaken
    /\ teller # None => told = StatusOf[teller]
    /\ writer # None /\ meta[writer] = "told" =>
         teller # None /\ (teller = writer \/ teller \in overtaken)

LEMMA WrittenStep == TypeOK /\ Written /\ [Next]_vars => Written'
<1> SUFFICES ASSUME TypeOK, Written, [Next]_vars
             PROVE  Written'
  OBVIOUS
<1> USE DEF TypeOK, Written
<1>1. CASE UNCHANGED statusVars
  BY <1>1 DEF statusVars
<1>2. ASSUME NEW m \in Meta, Compare(m)
      PROVE  Written'
  BY <1>2 DEF Compare
<1>3. ASSUME NEW m \in Meta, WriteStatus(m)
      PROVE  Written'
  BY <1>3 DEF WriteStatus, Write
<1>4. ASSUME NEW m \in Meta, TellStatus(m)
      PROVE  Written'
  BY <1>4 DEF TellStatus
<1>5. ASSUME NEW m \in Meta, TellFails(m)
      PROVE  Written'
  BY <1>5 DEF TellFails
<1> QED
  BY <1>1, <1>2, <1>3, <1>4, <1>5 DEF Next, StorageStep, ConvertMeta, vars

(***************************************************************************)
(* However many meta events run at once, the status told last is the one   *)
(* held unless the event that wrote last did not tell, or the one that     *)
(* told last was overtaken between its write and its message.              *)
(***************************************************************************)
THEOREM ToldTheorem == Spec => []StatusTold
<1>1. Init => Written
  BY DEF Init, Written
<1>2. Written => StatusTold
  BY DEF Written, StatusTold
<1> QED
  BY <1>1, <1>2, WrittenStep, Typing, PTL DEF Spec
=============================================================================
