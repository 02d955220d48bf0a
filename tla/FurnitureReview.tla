--------------------------- MODULE FurnitureReview ---------------------------
(***************************************************************************)
(* One listing's 3D scene and the review of its furniture suggestions:     *)
(* the scene routes of backend/app/modules/catalog and all of              *)
(* backend/app/modules/detection/furniture_review.py.                      *)
(*                                                                         *)
(* Editors save the scene they have on their screen, under a precondition  *)
(* on its revision or under none; a review adds an extra to the offer and  *)
(* an object of the same identifier to the scene.  Saves, edits and        *)
(* reviews lock the listing's row and are one step each.  A scene is its   *)
(* set of objects, an offer its set of extras and its version.             *)
(***************************************************************************)
EXTENDS Integers, FiniteSets

CONSTANTS
  Editors,
  Requests,     \* request_id of the reviews
  Detections,   \* suggestions of completed detection jobs
  Volumes,      \* suggestions of completed captures, each a draft object
  Extras,       \* stable identifiers of extras, each inserted at most once
  MaxRevision,  \* bound of listing_scene.revision
  MaxVersion,   \* bound of listing.offer_version
  None

Suggestions == Detections \union Volumes
Objects == Extras \union Volumes

\* A header lists revisions, or is a star that stands for all of them.
Star == 1 .. MaxRevision

\* What the screens of an editor hold, and the rows of furniture_review.
SceneScreens == [objects : SUBSET Objects, revision : Nat]
OfferScreens == [extras : SUBSET Extras, version : Nat]
ReviewRows ==
  [action : {"manual", "rejected", "confirmed"}, source : Suggestions \union {None},
   extra : Extras \union {None}, added : BOOLEAN, seen : SUBSET Extras, had : SUBSET Extras]

\* Assumed of the constants by the theorems and by every instance.  A detection is
\* a place in a job's answer, a volume an object of a draft, an extra a row.
FurnitureAssumption ==
  /\ {MaxRevision, MaxVersion} \subseteq Nat \ {0}
  /\ Detections \intersect Volumes = {} /\ Extras \intersect Suggestions = {}
  /\ None \notin Extras \union Suggestions
  /\ \A objects \in (SUBSET Objects) \union {Star} : objects # None
  /\ None \notin SceneScreens /\ None \notin OfferScreens /\ None \notin ReviewRows

VARIABLES
  extras, inserted, version,   \* the offer
  scene, revision,             \* listing_scene, None and 0 before it exists
  current,                     \* the suggestions whose source is still there
  reviews,                     \* furniture_review, with what its author had seen
  sceneScreen,                 \* the scene and revision each editor has loaded
  offerScreen,                 \* the extras and version each editor has loaded
  lastSave                     \* history: the newest save of a whole scene

offerVars == <<extras, inserted, version>>
sceneVars == <<scene, revision>>
screens == <<sceneScreen, offerScreen>>
vars == <<offerVars, sceneVars, current, reviews, screens, lastSave>>

Decided == {r \in Requests : reviews[r] # None}

Commands ==
  [action : {"manual"}, source : {None}, item : {TRUE}, existing : {None}]
  \union [action : {"rejected"}, source : Suggestions, item : {FALSE}, existing : {None}]
  \union [action : {"confirmed"}, source : Suggestions, item : {TRUE}, existing : {None}]
  \union [action : {"confirmed"}, source : Suggestions, item : {FALSE}, existing : Extras]

-----------------------------------------------------------------------------
\* The scene.

\* GET of the scene, with its revision as the entity tag.
LoadScene(e) ==
  /\ scene # None
  /\ sceneScreen' = [sceneScreen EXCEPT ![e] = [objects |-> scene, revision |-> revision]]
  /\ UNCHANGED <<offerVars, sceneVars, current, reviews, offerScreen, lastSave>>

\* _scene_etag_matches: nothing matches a scene that does not exist.
TagMatches(revisions) == scene # None /\ revision \in revisions

Precondition(ifMatch, ifNoneMatch) ==
  /\ ifMatch # None => TagMatches(ifMatch)
  /\ ifNoneMatch # None => ~TagMatches(ifNoneMatch)

\* Faulty variant: the revision counts the scenes that differ in size.
UpsertSameSize(objects) ==
  /\ revision < MaxRevision
  /\ scene' = objects
  /\ revision' = IF scene # None /\ Cardinality(scene) = Cardinality(objects)
                 THEN revision ELSE revision + 1

\* upsert_listing_scene.
Upsert(objects) ==
  /\ revision < MaxRevision
  /\ scene' = objects
  /\ revision' = revision + 1

Shown(e) == IF sceneScreen[e] = None THEN {} ELSE sceneScreen[e].objects
Tag(e) == IF sceneScreen[e] = None THEN None ELSE {sceneScreen[e].revision}

\* PUT of the scene: the one on the screen with one object more or less, for a
\* scene that was loaded, a scene that must not exist, or unconditionally.
SaveScene(e) ==
  /\ \E ifMatch \in {None, Star, Tag(e)}, ifNoneMatch \in {None, Star}, o \in Objects :
       LET objects == IF o \in Shown(e) THEN Shown(e) \ {o} ELSE Shown(e) \union {o}
       IN /\ o \in Extras => o \in extras
          /\ Precondition(ifMatch, ifNoneMatch)
          /\ Upsert(objects)
          /\ lastSave' = [ifMatch |-> ifMatch, ifNoneMatch |-> ifNoneMatch,
                          basis |-> Shown(e), over |-> scene]
          /\ sceneScreen' = [sceneScreen EXCEPT ![e] =
                               [objects |-> objects, revision |-> revision']]
  /\ UNCHANGED <<offerVars, current, reviews, offerScreen>>

-----------------------------------------------------------------------------
\* The offer and the sources.

\* An editor withdraws an extra; the object stays in the scene.
RemoveExtra ==
  /\ version < MaxVersion
  /\ \E x \in extras : extras' = extras \ {x}
  /\ version' = version + 1
  /\ UNCHANGED <<inserted, sceneVars, current, reviews, screens, lastSave>>

\* The photo of a detection is deleted, or the capture of a volume is no longer
\* one with this object in its draft.
LoseSource(s) ==
  /\ s \in current
  /\ current' = current \ {s}
  /\ UNCHANGED <<offerVars, sceneVars, reviews, screens, lastSave>>

-----------------------------------------------------------------------------
\* The reviews.

Decision(s) == {r \in Decided : reviews[r].source = s}

\* What the review page says of a suggestion.
StatusOf(s) ==
  IF Decision(s) # {} THEN reviews[CHOOSE r \in Decision(s) : TRUE].action
  ELSE IF s \in current THEN "pending" ELSE "expired"

LoadReview(e) ==
  /\ offerScreen' = [offerScreen EXCEPT ![e] = [extras |-> extras, version |-> version]]
  /\ UNCHANGED <<offerVars, sceneVars, current, reviews, sceneScreen, lastSave>>

\* Faulty variant: only the request is looked up.
PreviousRequest(r, cmd) == {r} \intersect Decided

\* The row of this request, or else of this suggestion: its answer is repeated,
\* or refused when the content differs, and nothing is written.
Previous(r, cmd) ==
  ({r} \intersect Decided)
  \union (IF cmd.source = None THEN {} ELSE Decision(cmd.source))

\* Faulty variant: any earlier version of the offer.
OfferAsExpectedAny(expected) == expected <= version

OfferAsExpected(expected) == expected = version

\* Faulty variant: the reviewed volume stays beside the new furniture.
PlacedBeside(x, cmd) == scene \union {x}

\* The new object; the reviewed volume, if the scene has it, becomes it.
Placed(x, cmd) == (scene \ ({cmd.source} \intersect Volumes)) \union {x}

\* _add_item: a new extra by an edit of the listing, and its object.
AddItem(x, cmd) ==
  /\ scene # None
  /\ x \in Extras \ inserted
  /\ version < MaxVersion
  /\ extras' = extras \union {x}
  /\ inserted' = inserted \union {x}
  /\ version' = version + 1
  /\ Upsert(Placed(x, cmd))

\* review_furniture, for a request that is not answered from its history.
Review(e, r, cmd) ==
  /\ offerScreen[e] # None
  /\ Previous(r, cmd) = {}
  /\ OfferAsExpected(offerScreen[e].version)
  /\ cmd.source # None => cmd.source \in current
  /\ \E x \in Extras \union {None} :
       /\ IF cmd.item THEN AddItem(x, cmd)
          ELSE /\ x = cmd.existing
               /\ x # None => x \in extras /\ scene # None /\ x \in scene
               /\ UNCHANGED <<offerVars, sceneVars>>
       /\ reviews' = [reviews EXCEPT ![r] =
            [action |-> cmd.action, source |-> cmd.source, extra |-> x,
             added |-> cmd.item, seen |-> offerScreen[e].extras, had |-> extras]]
  /\ UNCHANGED <<current, screens, lastSave>>

-----------------------------------------------------------------------------
Init ==
  /\ extras = {} /\ inserted = {} /\ version = 1
  /\ scene = None /\ revision = 0
  /\ current = Suggestions
  /\ reviews = [r \in Requests |-> None]
  /\ sceneScreen = [e \in Editors |-> None]
  /\ offerScreen = [e \in Editors |-> None]
  /\ lastSave = None

Next ==
  \/ \E e \in Editors :
       \/ LoadScene(e)
       \/ SaveScene(e)
       \/ LoadReview(e)
       \/ \E r \in Requests, cmd \in Commands : Review(e, r, cmd)
  \/ RemoveExtra
  \/ \E s \in Suggestions : LoseSource(s)

Spec == Init /\ [][Next]_vars

-----------------------------------------------------------------------------
FurnitureTypeOK ==
  /\ extras \subseteq inserted /\ inserted \subseteq Extras
  /\ version \in 1 .. MaxVersion
  /\ revision \in 0 .. MaxRevision
  /\ scene = None \/ scene \subseteq Objects
  /\ (scene = None) = (revision = 0)
  /\ \A e \in Editors : sceneScreen[e] # None => sceneScreen[e].revision <= revision

\* An editor who saves over the revision that was loaded replaces the scene
\* that was loaded, and one who creates the scene replaces none.
NoLostSceneUpdate ==
  lastSave # None =>
    /\ lastSave.ifMatch \notin {None, Star} => lastSave.over = lastSave.basis
    /\ lastSave.ifNoneMatch = Star => lastSave.over = None

\* Retransmissions, and reviewers who decide the same suggestion, add one extra
\* to the offer and no more, even after that extra has been withdrawn.
AddedOnce ==
  /\ \A r \in Decided : reviews[r].added => reviews[r].extra \in inserted
  /\ \A r, q \in Decided : r # q =>
       /\ reviews[r].added /\ reviews[q].added => reviews[r].extra # reviews[q].extra
       /\ reviews[r].source # None => reviews[r].source # reviews[q].source

\* A reviewer decides over the inventory on the screen, and no other.
DecidedOverSeenOffer == \A r \in Decided : reviews[r].seen = reviews[r].had

\* Confirmed furniture is in the scene when its review is recorded, and a volume
\* that became furniture is not there twice.
PlacedWhenConfirmed ==
  \A r \in Requests : reviews'[r] # reviews[r] =>
    LET row == reviews'[r] IN
    row.extra # None => /\ row.extra \in scene'
                        /\ row.added => row.source \notin scene'
ConfirmedIsPlaced == [][PlacedWhenConfirmed]_vars

\* A decided suggestion never becomes pending or expired.
DecisionsKept ==
  \A s \in Suggestions :
    StatusOf(s) \in {"confirmed", "rejected"} => StatusOf(s)' = StatusOf(s)
DecisionStands == [][DecisionsKept]_vars

\* No save is lost, nothing is added twice, and reviewers decide over what they saw.
FurnitureInvariant ==
  /\ FurnitureTypeOK
  /\ NoLostSceneUpdate
  /\ AddedOnce
  /\ DecidedOverSeenOffer
=============================================================================
