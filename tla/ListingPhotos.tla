---------------------------- MODULE ListingPhotos ----------------------------
(***************************************************************************)
(* The photos of one listing: backend/app/modules/catalog/photos.py and    *)
(* photo_router.py over an object storage, and the two clean-up loops of   *)
(* backend/app/main.py.                                                    *)
(*                                                                         *)
(* A client writes a staging object through a signed link; the API keeps   *)
(* its exact bytes as the original, and a sanitised derivative as the      *)
(* public object.  Rows change by transactions that lock the listing or    *)
(* the photo; the storage does not take part in them.  An operation calls  *)
(* the storage in a fixed order and then commits, so one that fails or     *)
(* dies leaves a prefix of its calls behind and no row changed.  A batch   *)
(* of a clean-up is a succession of steps for one photo each.              *)
(***************************************************************************)
EXTENDS ListingReview, Integers, Sequences, FiniteSets

CONSTANTS
  Photos,    \* identifiers, each used at most once
  Good, Bad, \* contents that are, and are not, a photo of the declared type
  Window,    \* UPLOAD_WINDOW
  Grace,     \* PHOTO_DELETION_RETENTION_GRACE
  Retry,     \* pause before a failed deletion is tried again
  Limit,     \* LISTING_PHOTO_MAX_COUNT
  MaxTime,   \* bound of the clock
  None

Keys == {"staging", "original", "public"}
Contents == Good \union Bad

\* The rows of listing_photo and of listing_photo_deletion.
PhotoRows ==
  [status : {"pending", "confirmed"}, expires : Nat, staged : BOOLEAN, original : BOOLEAN]
DeletionRows == [keys : Seq(Keys), uploadEnds : Nat, next : Nat]

\* Assumed of the constants by the theorems and by every instance.
PhotosAssumption ==
  /\ {Window, Grace, Retry, Limit} \subseteq Nat \ {0}
  /\ MaxTime \in Nat
  /\ None \notin Contents /\ None \notin PhotoRows /\ None \notin DeletionRows

VARIABLES
  row,        \* listing_photo, None when there is no row
  link,       \* when the signed link of each photo expires, 0 before it is signed
  object,     \* the storage: the content under each key of each photo
  intent,     \* listing_photo_deletion
  journalled, \* history: the photos deleted with an intent that names the staging key
  submitted,  \* history: the confirmed photos when the listing was submitted
  now

vars == <<reviewVars, row, link, object, intent, journalled, submitted, now>>

Confirmed == {p \in Photos : row[p] # None /\ row[p].status = "confirmed"}
Pending == {p \in Photos : row[p] # None /\ row[p].status = "pending"}

-----------------------------------------------------------------------------
\* The storage.

\* The first n of these keys are deleted.
DeleteSome(p, keys, n) ==
  object' = [object EXCEPT ![p] =
    [k \in Keys |-> IF \E i \in 1 .. n : keys[i] = k THEN None ELSE @[k]]]

\* _pending_object_keys: an original or derivative may exist from a confirmation
\* that did not commit.
PendingKeys == <<"staging", "public", "original">>

\* A PUT through the link of photo p arrives.  It was authorised before the link
\* expired and may take the grace to finish, whatever has become of the photo.
Put(p, data) ==
  /\ link[p] > 0
  /\ now < link[p] + Grace
  /\ object' = [object EXCEPT ![p].staging = data]
  /\ UNCHANGED <<reviewVars, row, link, intent, journalled, submitted, now>>

-----------------------------------------------------------------------------
\* Requests.

\* When the row's window ends: counted after the link has been signed.
WindowEnds(began) == now + Window

\* request_photo_upload, which began a moment ago and signs the link on its way.
\* It first cleans expired uploads as CleanUpload does.
RequestUpload(p) ==
  /\ approval # "none"
  /\ link[p] = 0
  /\ now + Window + Grace <= MaxTime
  /\ Cardinality({q \in Photos : row[q] # None}) < Limit
  /\ \E began \in {t \in {now - 1, now} : t >= 0}, signed \in {t \in {now - 1, now} : t >= 0} :
       /\ began <= signed
       /\ link' = [link EXCEPT ![p] = signed + Window]
       /\ row' = [row EXCEPT ![p] = [status |-> "pending", expires |-> WindowEnds(began),
                                     staged |-> TRUE, original |-> FALSE]]
  /\ UNCHANGED <<reviewVars, object, intent, journalled, submitted, now>>

\* Faulty variant: what a pending photo has, also of a confirmed one.
JournalUpload(p) ==
  /\ intent' = [intent EXCEPT ![p] =
       [keys |-> <<"public", "staging">>, uploadEnds |-> row[p].expires, next |-> now]]
  /\ journalled' = journalled \union {p}

\* _journal_photo_deletion: the keys the row still knows.
Journal(p) ==
  /\ intent' = [intent EXCEPT ![p] =
       [keys |-> <<"public">> \o (IF row[p].original THEN <<"original">> ELSE <<>>)
                 \o (IF row[p].staged THEN <<"staging">> ELSE <<>>),
        uploadEnds |-> row[p].expires, next |-> now]]
  /\ journalled' = IF row[p].staged THEN journalled \union {p} ELSE journalled

Remove(p) == row' = [row EXCEPT ![p] = None]

\* Faulty variant: what the client uploaded last.
SourceLatest(p) == object[p].staging

\* The bytes a confirmation works on: an original that survived an earlier
\* attempt, before what the client may have uploaded since.
Source(p) ==
  IF object[p].original # None THEN object[p].original ELSE object[p].staging

\* clean_photo decides; it is a function of the bytes.
IsPhoto(data) == data \in Good

\* The uploaded bytes are no photo: all objects go, and the row into the journal.
Discard(p, n) ==
  /\ DeleteSome(p, PendingKeys, n)
  /\ \/ /\ n = Len(PendingKeys)
        /\ Journal(p)
        /\ Remove(p)
     \/ UNCHANGED <<row, intent, journalled>>
  /\ UNCHANGED <<reviewVars, link, submitted, now>>

\* The original and then the derivative are written, and the listing is reopened
\* with the commit.
Accept(p, role, n) ==
  LET source == Source(p) IN
  /\ object' = [object EXCEPT ![p].original = IF n >= 1 THEN source ELSE @,
                              ![p].public = IF n >= 2 THEN source ELSE @]
  /\ \/ /\ n = 2
        /\ row' = [row EXCEPT ![p].status = "confirmed", ![p].original = TRUE]
        /\ Reopen(role)
     \/ UNCHANGED <<row, reviewVars>>
  /\ UNCHANGED <<link, intent, journalled, submitted, now>>

\* confirm_photo, of a pending photo in its window that has been uploaded.
Confirm(p, role) ==
  /\ MayEdit(role)
  /\ p \in Pending
  /\ now < row[p].expires
  /\ Source(p) # None
  /\ IF IsPhoto(Source(p)) THEN \E n \in 0 .. 2 : Accept(p, role, n)
                           ELSE \E n \in 0 .. 3 : Discard(p, n)

\* Faulty variant: the listing stays where it is.
DeleteConfirmedInPlace(p, role) ==
  /\ Journal(p)
  /\ Remove(p)
  /\ UNCHANGED <<reviewVars, object>>

\* A confirmed photo's objects are left to the journal.
DeleteConfirmed(p, role) ==
  /\ Journal(p)
  /\ Remove(p)
  /\ Reopen(role)
  /\ UNCHANGED object

\* A pending photo's objects are deleted at once, and once more by the journal.
DeletePending(p) ==
  \E n \in 0 .. 3 :
    /\ DeleteSome(p, PendingKeys, n)
    /\ \/ n = Len(PendingKeys) /\ Journal(p) /\ Remove(p)
       \/ UNCHANGED <<row, intent, journalled>>
    /\ UNCHANGED reviewVars

\* delete_photo.
Delete(p, role) ==
  /\ \/ p \in Confirmed /\ MayDecide(role) /\ DeleteConfirmed(p, role)
     \/ p \in Pending /\ MayEdit(role) /\ DeletePending(p)
  /\ UNCHANGED <<link, submitted, now>>

ReviewPhotos(role) ==
  /\ ApplyTransition(role, Confirmed # {})
  /\ submitted' = IF approval' = "pending" THEN Confirmed ELSE submitted
  /\ UNCHANGED <<row, link, object, intent, journalled, now>>

CreateListing(role) ==
  /\ CreateDraft(role)
  /\ UNCHANGED <<row, link, object, intent, journalled, submitted, now>>

-----------------------------------------------------------------------------
\* The clean-up loops.

UploadOver(p) == row[p] # None /\ row[p].expires <= now

\* Faulty variant: everything under the photo's keys.
StagingOnlyAll(p) == PendingKeys

\* A confirmed photo loses its staging copy, a pending one all it may have.
StagingOnly(p) == IF p \in Pending THEN PendingKeys ELSE <<"staging">>

\* cleanup_expired_photo_uploads, by its loop or before an upload request.
CleanUpload(p) ==
  /\ UploadOver(p)
  /\ p \in Confirmed => row[p].staged
  /\ \E n \in 0 .. Len(StagingOnly(p)) :
       /\ DeleteSome(p, StagingOnly(p), n)
       /\ \/ /\ n = Len(StagingOnly(p))
             /\ IF p \in Pending THEN Remove(p)
                ELSE row' = [row EXCEPT ![p].staged = FALSE]
          \/ UNCHANGED row
  /\ UNCHANGED <<reviewVars, link, intent, journalled, submitted, now>>

\* Faulty variant: only at its very moment.
DueExactly(p) == intent[p] # None /\ intent[p].next = now

Due(p) == intent[p] # None /\ intent[p].next <= now
Earliest(t) == IF t < MaxTime THEN t ELSE MaxTime

\* Faulty variant: the intent is dropped once its keys have been deleted.
RetainedNever(p) == FALSE

\* An upload that began in the window may still arrive.
Retained(p) == now < intent[p].uploadEnds + Grace

\* All keys are gone: the intent stays until no upload can bring one back.
SweepDone(p) ==
  /\ Due(p)
  /\ DeleteSome(p, intent[p].keys, Len(intent[p].keys))
  /\ intent' = [intent EXCEPT ![p] =
       IF Retained(p) THEN [@ EXCEPT !.next = intent[p].uploadEnds + Grace] ELSE None]
  /\ UNCHANGED <<reviewVars, row, link, journalled, submitted, now>>

\* The storage refuses one of the deletions, or the process dies before it
\* commits.
SweepFailed(p) ==
  /\ Due(p)
  /\ \E n \in 0 .. Len(intent[p].keys) : DeleteSome(p, intent[p].keys, n)
  /\ \/ intent' = [intent EXCEPT ![p].next = Earliest(now + Retry)]
     \/ UNCHANGED intent
  /\ UNCHANGED <<reviewVars, row, link, journalled, submitted, now>>

Tick ==
  /\ now < MaxTime
  /\ now' = now + 1
  /\ UNCHANGED <<reviewVars, row, link, object, intent, journalled, submitted>>

-----------------------------------------------------------------------------
Init ==
  /\ ReviewInit
  /\ row = [p \in Photos |-> None]
  /\ link = [p \in Photos |-> 0]
  /\ object = [p \in Photos |-> [k \in Keys |-> None]]
  /\ intent = [p \in Photos |-> None]
  /\ journalled = {}
  /\ submitted = {}
  /\ now = 0

Next ==
  \/ \E role \in Roles :
       \/ CreateListing(role)
       \/ ReviewPhotos(role)
       \/ \E p \in Photos : Confirm(p, role) \/ Delete(p, role)
  \/ \E p \in Photos :
       \/ RequestUpload(p)
       \/ \E data \in Contents : Put(p, data)
       \/ CleanUpload(p)
       \/ SweepDone(p)
       \/ SweepFailed(p)
  \/ Tick

Spec == Init /\ [][Next]_vars

\* The deletion loop runs for ever and the storage does not refuse for ever.
FairSpec ==
  /\ Spec
  /\ WF_vars(Tick)
  /\ \A p \in Photos : SF_vars(SweepDone(p))

-----------------------------------------------------------------------------
PhotosTypeOK ==
  /\ ReviewTypeOK
  /\ now \in 0 .. MaxTime
  /\ link \in [Photos -> 0 .. MaxTime + Window]
  /\ object \in [Photos -> [Keys -> Contents \union {None}]]
  /\ \A p \in Photos : row[p] # None =>
       /\ intent[p] = None
       /\ link[p] <= row[p].expires
       /\ (row[p].status = "confirmed") = row[p].original

\* A confirmed photo has its original and a derivative of that very original,
\* whatever failed on the way and whatever is cleaned up around it.
ConfirmedIsStored ==
  \A p \in Confirmed :
    /\ object[p].original \in Good
    /\ object[p].public = object[p].original

\* The bytes kept as an original are never replaced by others.
OriginalsKept ==
  \A p \in Photos :
    object[p].original # None => object'[p].original \in {object[p].original, None}
OriginalIsImmutable == [][OriginalsKept]_vars

\* Once the journal has let go of a photo that was deleted with its staging key,
\* nothing of it is left in the storage and no upload brings anything back.
ForgottenIsGone ==
  \A p \in journalled :
    intent[p] = None => \A k \in Keys : object[p][k] = None

\* Outside the staging prefix, which a bucket rule empties, no object is ever
\* without a row or an intent that will delete it.
NothingUntracked ==
  \A p \in Photos, k \in Keys \ {"staging"} :
    object[p][k] # None /\ row[p] = None =>
      intent[p] # None /\ \E i \in 1 .. Len(intent[p].keys) : intent[p].keys[i] = k

\* What is under review or in the catalog has the photos it was submitted with,
\* and at least one.
ReviewedPhotosStand ==
  approval \in {"pending", "approved"} => Confirmed = submitted /\ Confirmed # {}

\* Every deletion in the journal is eventually carried out, also after failures.
DeletedEventuallyGone ==
  \A p \in Photos :
    intent[p] # None ~> intent[p] = None /\ \A k \in {"original", "public"} : object[p][k] = None

\* The rows, the journal and the storage agree whatever fails between them.
PhotosInvariant ==
  /\ PhotosTypeOK
  /\ ConfirmedIsStored
  /\ ForgottenIsGone
  /\ NothingUntracked
  /\ ReviewedPhotosStand
=============================================================================
