-------------------------------- MODULE Files --------------------------------
(***************************************************************************)
(* Uploads and the documents that name them: the files of the media        *)
(* library, on the local disk or in a bucket, and the popups, which keep   *)
(* the picture they show in a bucket.  A middleware stores what is         *)
(* uploaded before the request is validated; a permanent deletion removes  *)
(* first the bytes and then the document, and nothing spans the two.       *)
(***************************************************************************)
EXTENDS Integers, FiniteSets

CONSTANTS
  Docs,            \* documents
  Uploaders,       \* requests; each makes one call
  MaxFaults        \* bound: storage errors and requests that are cut short

ASSUME FilesAssumption == Docs \cap Uploaders = {} /\ MaxFaults \in Nat

VARIABLES
  doc,      \* the documents; one that is gone keeps what it held, for the properties
  stored,   \* objects whose bytes are there
  spared,   \* objects whose deletion failed; the error is logged
  call,     \* the requests
  faults

fileVars == <<doc, stored, spared, call, faults>>

(* What a document held at the start is called like it, what a request     *)
(* uploads like the request.                                               *)
Objects == Docs \cup Uploaders
Places == {"local", "gcs", "popup"}
Exists == {"live", "deleted"}

Creates == {"createLocalFile", "createCloudFiles", "createFeaturePopup"}
Uploads == Creates \cup {"updateFeaturePopup"}
CallNames ==
  Uploads \cup {"delete", "deletePermanent", "deletesPermanent", "restore"}
Ended == {"done", "rejected", "cut"}

(* raced: was written while another request on it was under way; cut: was  *)
(* to be deleted when the request was cut short, its bytes perhaps gone.   *)
DocStates ==
  [state : {"none", "live", "deleted", "gone"}, place : Places,
   object : SUBSET Objects, restored : BOOLEAN, raced : BOOLEAN, cut : BOOLEAN]
CallStates ==
  [pc : {"idle", "handle", "find", "write", "old", "bytes"} \cup Ended,
   name : CallNames, docs : SUBSET Docs, left : SUBSET Docs, old : SUBSET Objects]

FilesTypeOK ==
  /\ doc \in [Docs -> DocStates]
  /\ stored \subseteq Objects /\ spared \subseteq Objects
  /\ call \in [Uploaders -> CallStates]
  /\ faults \in 0..MaxFaults

FilesInit ==
  /\ \E place \in [Docs -> Places], state \in [Docs -> {"none", "live", "deleted"}] :
       /\ \A d \in Docs : state[d] = "none" => place[d] = "local"
       /\ doc = [d \in Docs |->
         [state |-> state[d], place |-> place[d],
          object |-> IF state[d] = "none" THEN {} ELSE {d},
          restored |-> FALSE, raced |-> FALSE, cut |-> FALSE]]
  /\ stored = UNION {doc[d].object : d \in Docs}
  /\ spared = {} /\ faults = 0
  /\ call = [r \in Uploaders |->
       [pc |-> "idle", name |-> "delete", docs |-> {}, left |-> {}, old |-> {}]]

-----------------------------------------------------------------------------
Busy(r) == call[r].pc \notin Ended \cup {"idle"}
Raced(r, d) == \E q \in Uploaders \ {r} : Busy(q) /\ d \in call[q].docs

(* r writes the documents that new is defined for. *)
Write(r, new) ==
  doc' = [d \in Docs |->
    IF d \in DOMAIN new THEN [new[d] EXCEPT !.raced = @ \/ Raced(r, d)] ELSE doc[d]]

Goes(r, pc) == call' = [call EXCEPT ![r].pc = pc]

Fault == faults < MaxFaults /\ faults' = faults + 1

-----------------------------------------------------------------------------
(* Uploads: file() and storage() *)

(* The bytes are there when the handler has yet to be reached.  A failure  *)
(* of makePublic() comes after them too.                                   *)
Upload(r, name) ==
  /\ call[r].pc = "idle" /\ name \in Uploads
  /\ stored' = stored \cup {r}
  /\ \E pc \in {"handle", "rejected"} :
       IF name = "updateFeaturePopup"
       THEN \E d \in Docs : /\ doc[d].place = "popup" /\ doc[d].state # "none"
                            /\ call' = [call EXCEPT ![r].pc = pc, ![r].name = name,
                                                    ![r].docs = {d}]
       ELSE call' = [call EXCEPT ![r].pc = pc, ![r].name = name]
  /\ UNCHANGED <<doc, spared, faults>>

(* The schema, the value of another popup, a feature that is not there:    *)
(* nobody takes the object back.                                           *)
Refuse(r) ==
  /\ call[r].name \in Uploads /\ call[r].pc \in {"handle", "write"}
  /\ Goes(r, "rejected")
  /\ UNCHANGED <<doc, stored, spared, faults>>

PlaceOf(name) ==
  CASE name = "createLocalFile" -> "local"
    [] name = "createCloudFiles" -> "gcs"
    [] name = "createFeaturePopup" -> "popup"

Create(r) ==
  /\ call[r].pc = "handle" /\ call[r].name \in Creates
  /\ \E d \in Docs :
       /\ doc[d].state = "none"
       /\ doc' = [doc EXCEPT ![d].state = "live", ![d].object = {r},
                             ![d].place = PlaceOf(call[r].name)]
       /\ call' = [call EXCEPT ![r].pc = "done", ![r].docs = {d}]
  /\ UNCHANGED <<stored, spared, faults>>

(* updateFeaturePopup remembers the object that the popup shows now ... *)
FindPopup(r) ==
  /\ call[r].pc = "handle" /\ call[r].name = "updateFeaturePopup"
  /\ LET shown == {d \in call[r].docs : doc[d].state = "live"} IN
     call' = [call EXCEPT ![r].pc = IF shown = {} THEN "rejected" ELSE "write",
                          ![r].old = UNION {doc[d].object : d \in shown}]
  /\ UNCHANGED <<doc, stored, spared, faults>>

WritePopupWithoutObject(r) ==           \* mutant: the new object is not in updateData
  /\ call[r].pc = "write" /\ call[r].name = "updateFeaturePopup"
  /\ Write(r, [d \in {e \in call[r].docs : doc[e].state = "live"} |-> doc[d]])
  /\ Goes(r, IF call[r].old = {} THEN "done" ELSE "old")
  /\ UNCHANGED <<stored, spared, faults>>

(* ... and goes on to delete it, when its own write has found no popup too. *)
WritePopup(r) ==
  /\ call[r].pc = "write" /\ call[r].name = "updateFeaturePopup"
  /\ Write(r, [d \in {e \in call[r].docs : doc[e].state = "live"} |->
             [doc[d] EXCEPT !.object = {r}]])
  /\ Goes(r, IF call[r].old = {} THEN "done" ELSE "old")
  /\ UNCHANGED <<stored, spared, faults>>

(* An object of a bucket is deleted, or an error is logged. *)
DeleteObject(S) ==
  \/ stored' = stored \ S /\ UNCHANGED <<spared, faults>>
  \/ Fault /\ spared' = spared \cup S /\ UNCHANGED stored

DeleteOld(r) ==
  /\ call[r].pc = "old"
  /\ DeleteObject(call[r].old)
  /\ Goes(r, "done")
  /\ UNCHANGED doc

-----------------------------------------------------------------------------
(* Deletion and restore; S are documents, or were, of one collection *)

Ask(r, name, S) ==
  /\ call[r].pc = "idle" /\ name \notin Uploads /\ S # {}
  /\ name = "deletePermanent" => Cardinality(S) = 1
  /\ \A d \in S : doc[d].state # "none"
  /\ \A c, d \in S : (doc[c].place = "popup") = (doc[d].place = "popup")
  /\ call' = [call EXCEPT ![r].pc = "find", ![r].name = name, ![r].docs = S]
  /\ UNCHANGED <<doc, stored, spared, faults>>

(* A permanent deletion finds a file or popup in any state, that of a list *)
(* the deleted files but no popup, whose is_deleted the query does not     *)
(* select; a soft deletion the live ones.                                  *)
Found(name) ==
  CASE name = "delete" -> {"live"}
    [] name = "deletePermanent" -> Exists
    [] name = "deletesPermanent" -> {"deleted"}

FindDocs(r) ==
  /\ call[r].pc = "find" /\ call[r].name # "restore"
  /\ LET S == {d \in call[r].docs :
                  /\ doc[d].state \in Found(call[r].name)
                  /\ call[r].name = "deletesPermanent" => doc[d].place # "popup"} IN
     call' = [call EXCEPT
       ![r].pc = IF S = {} THEN "rejected"
                 ELSE IF call[r].name = "delete" THEN "write" ELSE "bytes",
       ![r].docs = S,
       ![r].left = {d \in S : doc[d].place # "popup"}]
  /\ UNCHANGED <<doc, stored, spared, faults>>

SoftDelete(r) ==
  /\ call[r].pc = "write" /\ call[r].name = "delete"
  /\ Write(r, [d \in {e \in call[r].docs : doc[e].state \in Exists} |->
             [doc[d] EXCEPT !.state = "deleted"]])
  /\ Goes(r, "done")
  /\ UNCHANGED <<stored, spared, faults>>

(* restoreById, restoreManyByIds: one update. *)
Restore(r) ==
  /\ call[r].pc = "find" /\ call[r].name = "restore"
  /\ Write(r, [d \in {e \in call[r].docs : doc[e].state = "deleted"} |->
             [doc[d] EXCEPT !.state = "live", !.restored = TRUE]])
  /\ Goes(r, "done")
  /\ UNCHANGED <<stored, spared, faults>>

(* The path that a local file keeps begins with uploads/, and deleteFiles  *)
(* looks for it under uploads: it finds nothing, and the bytes stay.       *)
DeleteBytes(r) ==
  /\ call[r].pc = "bytes"
  /\ \E d \in call[r].left :
       /\ call' = [call EXCEPT ![r].left = @ \ {d}]
       /\ IF doc[d].place = "local"
          THEN UNCHANGED <<stored, spared, faults>>
          ELSE DeleteObject(doc[d].object)
  /\ UNCHANGED doc

DeleteDocsFirst(r) ==                   \* mutant: does not wait for the bytes
  /\ call[r].pc = "bytes"
  /\ Write(r, [d \in {e \in call[r].docs : doc[e].state \in Found(call[r].name)} |->
             [doc[d] EXCEPT !.state = "gone"]])
  /\ Goes(r, "done")
  /\ UNCHANGED <<stored, spared, faults>>

(* hardDeleteById, whatever the document is now; hardDeleteManyByIds those *)
(* that are still deleted.                                                 *)
DeleteDocs(r) ==
  /\ call[r].pc = "bytes" /\ call[r].left = {}
  /\ Write(r, [d \in {e \in call[r].docs : doc[e].state \in Found(call[r].name)} |->
             [doc[d] EXCEPT !.state = "gone"]])
  /\ Goes(r, "done")
  /\ UNCHANGED <<stored, spared, faults>>

(* The process stops, or the database fails: nothing is taken up again. *)
CutShort(r) ==
  /\ Busy(r) /\ Fault
  /\ Goes(r, "cut")
  /\ doc' = [d \in Docs |->
       IF call[r].pc = "bytes" /\ d \in call[r].docs
       THEN [doc[d] EXCEPT !.cut = TRUE] ELSE doc[d]]
  /\ UNCHANGED <<stored, spared>>

-----------------------------------------------------------------------------
FilesStep(r) ==
  \/ \E name \in CallNames : Upload(r, name) \/ \E S \in SUBSET Docs : Ask(r, name, S)
  \/ Refuse(r)     \/ Create(r)
  \/ FindPopup(r)  \/ WritePopup(r) \/ DeleteOld(r)
  \/ FindDocs(r)   \/ SoftDelete(r) \/ Restore(r)
  \/ DeleteBytes(r) \/ DeleteDocs(r) \/ CutShort(r)

FilesNext == \E r \in Uploaders : FilesStep(r)

FilesSpec == FilesInit /\ [][FilesNext]_fileVars

-----------------------------------------------------------------------------
(* Properties *)

(* A live document without its object is being deleted, or was when the    *)
(* request was cut short; otherwise it was restored, and some request      *)
(* wrote it while another was at it: restored while its bytes were being   *)
(* deleted, or deleted while an update was about to replace its picture.   *)
MissingOnlyAfterRace ==
  \A d \in Docs :
    doc[d].state = "live" /\ ~(doc[d].object \subseteq stored) =>
      \/ doc[d].cut
      \/ \E r \in Uploaders : call[r].pc = "bytes" /\ d \in call[r].docs
      \/ doc[d].restored /\ doc[d].raced

(* Bytes in a bucket that outlive their document have a reason: their own  *)
(* deletion failed, a popup was deleted for good (it deletes no object),   *)
(* two requests wrote the popup at a time, or the request that uploaded    *)
(* them was refused or cut short.                                          *)
LeftoverHasReason ==
  /\ \A d \in Docs : doc[d].state = "gone" /\ doc[d].place = "gcs" =>
       doc[d].object \cap stored \subseteq spared
  /\ \A r \in Uploaders : \A d \in call[r].docs :
       call[r].pc = "done" /\ call[r].name \in Uploads
       /\ r \in stored /\ r \notin doc[d].object =>
         \/ r \in spared \/ doc[d].raced
         \/ \E q \in Uploaders : r \in call[q].old /\ call[q].pc \in {"old", "cut"}
=============================================================================
