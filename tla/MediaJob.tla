------------------------------ MODULE MediaJob ------------------------------
(***************************************************************************)
(* The life of an uploaded photograph: the client puts it into the object  *)
(* store, /media/complete records it, and process_media checks it, stores  *)
(* a copy without metadata, points the row at the copy, deletes the        *)
(* original and computes a search vector.  The row and the store change in *)
(* separate steps and a run may be cut off between any two of them.        *)
(***************************************************************************)
EXTENDS WorkerJobs, FiniteSets

CONSTANTS
  Photos,    \* uploads, pictures or videos
  ListingOf  \* the publication each belongs to, None for one in a chat

VARIABLES
  photo,  \* the media_objects row of each photograph
  store   \* the objects in the store: which upload or copy, and its content

mediaVars == <<photo, store>>

\* An upload is a good picture, a broken or mislabelled one, or a video; a copy is clean.
Object == [of : Photos, copy : Nat, content : {"raw", "bad", "clean", "video"}]

ASSUME ObjectsAssumption == None \notin Object

PhotoJob(m) == [name |-> "process_media", of |-> m]
MatchJob(l) == [name |-> "match_listing", of |-> l]

Row(status, key, vector) == [status |-> status, key |-> key, vector |-> vector]
NoPhoto == Row("absent", None, FALSE)
Settled(m) == photo[m].status \in {"ready", "rejected", "blocked"}

MediaInit == photo = [m \in Photos |-> NoPhoto] /\ store = {}

\* The presigned upload and /media/complete, up to its commit.
CompleteUpload(m, content) ==
  LET key == [of |-> m, copy |-> 0, content |-> content]
  IN /\ photo[m] = NoPhoto
     /\ store' = store \cup {key}
     /\ photo' = [photo EXCEPT ![m] = Row("processing", key, FALSE)]
     /\ outbox' = outbox \cup {PhotoJob(m)}
     /\ UNCHANGED <<queue, run, dead, lost, faults>>

Held == run.entry.job.of

\* The row is loaded and the object's checksum read: without the object the
\* store raises, a finished photograph is left alone.
BeginMedia ==
  LET row == photo[Held]
  IN /\ Running("process_media", "begin")
     /\ run' = IF Settled(Held) THEN Done
               ELSE IF row.key \notin store THEN Failed
               ELSE IF row.key.content = "bad" THEN Go("rejecting", None)
               ELSE IF row.key.content = "video" THEN Go("described", None)
               ELSE Go("cleaning", [old |-> row.key])
     /\ UNCHANGED <<queue, dead, outbox, lost, faults, photo, store>>

RejectMedia ==
  /\ Running("process_media", "rejecting")
  /\ photo' = [photo EXCEPT ![Held].status = "rejected"]
  /\ run' = Done
  /\ UNCHANGED <<queue, dead, outbox, lost, faults, store>>

Copies(m) == {o \in store : o.of = m}
Fresh(m) == [of |-> m, content |-> "clean",
             copy |-> CHOOSE n \in 1..(MaxFaults + 2) : \A o \in Copies(m) : o.copy # n]

\* The cleaned copy is written under a new key; the row still names the old one.
WriteCopy ==
  /\ Running("process_media", "cleaning")
  /\ store' = store \cup {Fresh(Held)}
  /\ run' = Go("written", [old |-> run.memo.old, new |-> Fresh(Held)])
  /\ UNCHANGED <<queue, dead, outbox, lost, faults, photo>>

SwapKey ==
  /\ Running("process_media", "written")
  /\ photo' = [photo EXCEPT ![Held].key = run.memo.new]
  /\ run' = Go("swapped", run.memo)
  /\ UNCHANGED <<queue, dead, outbox, lost, faults, store>>

\* Mutant of Discarded: the wrong one of two keys is deleted.
NewOne(keys) == keys.new

Discarded(keys) == keys.old

DeleteOriginal ==
  /\ Running("process_media", "swapped")
  /\ store' = store \ {Discarded(run.memo)}
  /\ run' = Go("described", run.memo)
  /\ UNCHANGED <<queue, dead, outbox, lost, faults, photo>>

\* The visual service may be away: the photograph is ready without a vector.
\* A photograph of a publication asks for new matches.
FinishMedia(vector) ==
  /\ Running("process_media", "described")
  /\ vector => photo[Held].key.content = "clean"
  /\ photo' = [photo EXCEPT ![Held].status = "ready", ![Held].vector = vector]
  /\ run' = GoAnnounce(IF ListingOf[Held] = None THEN {} ELSE {MatchJob(ListingOf[Held])})
  /\ UNCHANGED <<queue, dead, outbox, lost, faults, store>>

\* retry_missing_embeddings: the worker's other task repairs a ready photograph.
RepairVector(m) ==
  /\ photo[m].status = "ready" /\ ~photo[m].vector
  /\ photo[m].key.content = "clean" /\ ListingOf[m] # None
  /\ photo' = [photo EXCEPT ![m].vector = TRUE]
  /\ outbox' = outbox \cup {MatchJob(ListingOf[m])}
  /\ UNCHANGED <<queue, run, dead, lost, faults, store>>

MediaStep == BeginMedia \/ RejectMedia \/ WriteCopy \/ SwapKey \/ DeleteOriginal
             \/ \E vector \in BOOLEAN : FinishMedia(vector)

-----------------------------------------------------------------------------
\* Whatever was interrupted, the row of a photograph never names an object that
\* is gone, and a photograph that is shown names a copy without metadata: the
\* key is committed after the copy is written and before the original goes.
\* Objects that no row names are left by interrupted runs alone, one each at
\* most, besides the one the present run is about to name or to delete.
PhotoIsServable ==
  /\ \A m \in Photos : photo[m] # NoPhoto =>
       /\ photo[m].key \in store
       /\ photo[m].status = "ready" => photo[m].key.content \in {"clean", "video"}
  /\ Cardinality({o \in store : o # photo[o.of].key})
       <= faults + (IF run.phase \in {"written", "swapped"} THEN 1 ELSE 0)

\* A recorded photograph is eventually shown or rejected, unless its job never
\* reached the queue or failed three times.
PhotosSettle ==
  \A m \in Photos : (photo[m].status = "processing")
                      ~> (Settled(m) \/ PhotoJob(m) \in dead \/ PhotoJob(m) \in lost)
=============================================================================
