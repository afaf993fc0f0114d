------------------------------ MODULE Listings ------------------------------
(***************************************************************************)
(* The adverts of real-estate portals: what a visit of the worker records  *)
(* of them, the batch it queues of each, the sweep of what a seller wrote, *)
(* the vectors of their texts, and the check of one advert against those   *)
(* of the other portals.                                                   *)
(* src/go/cmd/worker/main.go, src/go/internal/store/store.go,              *)
(* src/python/jester/agents/property_dedup.py, store.py                    *)
(***************************************************************************)
EXTENDS Naturals, Sequences, SequencesExt

CONSTANTS Adverts,      \* the adverts, in the order of portal and id
          PortalOf(_),
          Prices,       \* those of two adverts agree when they are within the tolerance
          Kinship,      \* external: how alike two adverts may be
          Visitors,     \* workers on the portals
          ListingBound, AdvertFaultBound

ASSUME ListingsAssumption == IsInjective(Adverts) /\ Prices \subseteq Nat

Advert == ToSet(Adverts)
Kin == [photo : BOOLEAN, place : BOOLEAN, texts : Nat]  \* percent of likeness of two full texts
ASSUME KinshipAssumption == Kinship \subseteq Kin

VARIABLES asking,    \* external: the price an advert asks
          alike,     \* external: how alike two adverts are
          observed,  \* listing_observation: prices in order, and whether the last text is whole
          queuedAds, \* ingest_batch: pending batches of an advert
          vectorOf,  \* the vector of an advert: of its whole text, of what a sweep left, or none
          visiting,     \* where a worker is with an advert
          verdict,   \* the last answer of property-dedup
          adEvents, adFaults

listingVars == <<asking, alike, observed, queuedAds, vectorOf, visiting, verdict, adEvents, adFaults>>

Unseen == [prices |-> <<>>, whole |-> FALSE]
NoAdvert == [step |-> "next", ad |-> {}]
NoVerdict == [of |-> {}, duplicate |-> FALSE, score |-> 0, with |-> {}]

ListingsInit ==
    /\ asking \in [Advert -> Prices]
    /\ \E f \in [Advert -> Kinship] : alike = f
    /\ observed = [a \in Advert |-> Unseen] /\ queuedAds = [a \in Advert |-> 0]
    /\ vectorOf = [a \in Advert |-> "none"]
    /\ visiting = [v \in Visitors |-> NoAdvert] /\ verdict = NoVerdict
    /\ adEvents = 0 /\ adFaults = 0

AdEvent == adEvents < ListingBound /\ adEvents' = adEvents + 1 /\ UNCHANGED adFaults
AdFault == adFaults < AdvertFaultBound /\ adFaults' = adFaults + 1 /\ UNCHANGED adEvents
adBounds == <<adEvents, adFaults>>
Observed(a) == observed[a].prices # <<>>
LastPrice(a) == Last(observed[a].prices)

Reprice(a, p) ==
    /\ AdEvent /\ asking[a] # p /\ asking' = [asking EXCEPT ![a] = p]
    /\ UNCHANGED <<alike, observed, queuedAds, vectorOf, visiting, verdict>>

-----------------------------------------------------------------------------
(* A visit: each advert is recorded, looked up and queued, one commit after
   another.  What fails is passed over.                                     *)

(* Appended whether it moved or not. *)
RecordObservation(v, a) ==
    /\ visiting[v].step = "next" /\ AdEvent
    /\ observed' = [observed EXCEPT ![a] = [prices |-> Append(@.prices, asking[a]), whole |-> TRUE]]
    /\ visiting' = [visiting EXCEPT ![v] = [step |-> "known", ad |-> {a}]]
    /\ UNCHANGED <<asking, alike, queuedAds, vectorOf, verdict>>

AlreadyIngestedListingMutant(v) ==
    /\ visiting[v].step = "known"
    /\ visiting' = [visiting EXCEPT ![v].step = "queue"]
    /\ UNCHANGED <<asking, alike, observed, queuedAds, vectorOf, verdict, adBounds>>
(* A batch of the advert that is pending, or claimed, is enough. *)
AlreadyIngestedListing(v) ==
    /\ visiting[v].step = "known"
    /\ visiting' = [visiting EXCEPT ![v] = IF \E a \in @.ad : queuedAds[a] > 0 THEN NoAdvert
                                     ELSE [@ EXCEPT !.step = "queue"]]
    /\ UNCHANGED <<asking, alike, observed, queuedAds, vectorOf, verdict, adBounds>>

EnqueueListing(v) ==
    /\ visiting[v].step = "queue"
    /\ queuedAds' = [a \in Advert |-> IF a \in visiting[v].ad THEN queuedAds[a] + 1 ELSE queuedAds[a]]
    /\ visiting' = [visiting EXCEPT ![v] = NoAdvert]
    /\ UNCHANGED <<asking, alike, observed, vectorOf, verdict, adBounds>>

(* A statement fails, or the worker dies; the next advert or worker goes on. *)
AdvertDropped(v) ==
    /\ visiting[v].step # "next" /\ AdFault /\ visiting' = [visiting EXCEPT ![v] = NoAdvert]
    /\ UNCHANGED <<asking, alike, observed, queuedAds, vectorOf, verdict>>

(* retention: description and seller go from the payload of old rows; the
   batch, whose listing says the same, is never done and stays.             *)
SweepPayload(a) ==
    /\ observed[a].whole /\ observed' = [observed EXCEPT ![a].whole = FALSE]
    /\ UNCHANGED <<asking, alike, queuedAds, vectorOf, visiting, verdict, adBounds>>

-----------------------------------------------------------------------------
(* property-dedup *)

(* The vector of the last text; a chunk that fails is tried row by row, and
   what fails again stays as it was.                                        *)
SyncVector(a) ==
    /\ Observed(a)
    /\ vectorOf' = [vectorOf EXCEPT ![a] = IF observed[a].whole THEN "whole" ELSE "swept"]
    /\ UNCHANGED <<asking, alike, observed, queuedAds, visiting, verdict, adBounds>>

(* Candidates: a shared photograph, or a price the other advert had at any
   time and a place in common.                                              *)
ByPhoto(a) == SelectSeq(Adverts, LAMBDA b : PortalOf(b) # PortalOf(a) /\ Observed(b) /\ alike[b].photo)
ByBlocking(a) == SelectSeq(Adverts, LAMBDA b :
    /\ PortalOf(b) # PortalOf(a) /\ Observed(b) /\ alike[b].place
    /\ LastPrice(a) \in ToSet(observed[b].prices))
Candidates(a) == ByPhoto(a) \o SelectSeq(ByBlocking(a), LAMBDA b : ~alike[b].photo)

(* Fields both adverts have: price, place, and a photograph when it is the
   same.  A text without its description is less like another.             *)
Points(yes) == IF yes THEN 1 ELSE 0
Structured(a, b) ==
    (100 * (Points(LastPrice(a) = LastPrice(b)) + Points(alike[b].place) + Points(alike[b].photo)))
        \div (2 + Points(alike[b].photo))
Known(b) == vectorOf[b] # "none"
Semantic(a, b) == IF observed[a].whole = (vectorOf[b] = "whole") THEN alike[b].texts ELSE alike[b].texts \div 2
Combined(a, b) == 60 * Structured(a, b) + (IF Known(b) THEN 40 * Semantic(a, b) ELSE 0)
IsDuplicate(a, b) ==
    IF ~Known(b) THEN Structured(a, b) >= 95
    ELSE Combined(a, b) >= 8500 /\ Structured(a, b) > 0 /\ Semantic(a, b) >= 92

(* The best candidate is kept, whether it is a duplicate or not. *)
CheckDuplicate(a) ==
    /\ Observed(a) /\ verdict = NoVerdict
    /\ verdict' = FoldLeft(LAMBDA best, b :
          IF Combined(a, b) > best.score
          THEN [of |-> {a}, duplicate |-> IsDuplicate(a, b), score |-> Combined(a, b), with |-> {b}]
          ELSE best, [NoVerdict EXCEPT !.of = {a}], Candidates(a))
    /\ UNCHANGED <<asking, alike, observed, queuedAds, vectorOf, visiting, adBounds>>
Printed ==
    /\ verdict # NoVerdict /\ verdict' = NoVerdict
    /\ UNCHANGED <<asking, alike, observed, queuedAds, vectorOf, visiting, adBounds>>

ListingsNext ==
    \/ \E a \in Advert, p \in Prices : Reprice(a, p)
    \/ \E v \in Visitors :
        \/ \E a \in Advert : RecordObservation(v, a)
        \/ AlreadyIngestedListing(v) \/ EnqueueListing(v) \/ AdvertDropped(v)
    \/ \E a \in Advert : SweepPayload(a) \/ SyncVector(a) \/ CheckDuplicate(a)
    \/ Printed

ListingsSpec == ListingsInit /\ [][ListingsNext]_listingVars

(* An advert is queued once, however often it is seen, repriced or dropped
   half way, by one worker (main.go:943-975, AlreadyIngestedListing).         *)
AdvertQueuedOnce == \A a \in Advert : queuedAds[a] <= 1

=============================================================================
