------------------------------ MODULE MCReaders ------------------------------
(***************************************************************************)
(* The programs that read what others publish, and the synthesis of what   *)
(* they brought, over one instance each.                                   *)
(* They share no state that a property here is about: a behaviour is of    *)
(* one of them, and the others stay as they were at the start.             *)
(***************************************************************************)
EXTENDS MCFetch, Rotation, Backfill, Signals, SignalChain, SignalExport, Listings, MCIdeaArchive,
            Cycle, SpecJourney, Leads, TLC

CONSTANTS i1, i2, x1, x2
QueryHits(q) == IF q = 1 THEN {i1, i2} ELSE {i2}
Aside == {"idle", "ask", "close", "clear"}
Feed3 == <<"a", "b", "c">>
SameTexts == Permutations({x1, x2})
(* One portal has the advert a, another one b.  They look alike, or are written alike, or both. *)
TwoAdverts == <<"a", "b">>
PortalNames(x) == IF x = "a" THEN "p" ELSE "q"
Kinds == {[photo |-> FALSE, place |-> TRUE, texts |-> 96], [photo |-> TRUE, place |-> TRUE, texts
            |-> 90]}

\* One company has the board's advert.
Hirer == [x \in BoardPosts |-> "co"]

VARIABLE part  \* the program this behaviour is of

\* What an initial state leaves open is open to the program that runs.
ReadersInit ==
    /\ part \in {"fetch", "rotation", "backfill", "signals", "chain", "export", "listings",
            "archive", "cycle", "spec", "leads"}
    /\ FetchInit
    /\ RotationInit
    /\ part # "rotation" => enabled = Names
    /\ BackfillInit
    /\ part # "backfill" => \A s \in Stories : created[s] = 0
    /\ SignalsInit
    /\ part # "signals" => \A i \in Items : site[i] = None
    /\ ChainInit
    /\ ExportInit
    /\ ListingsInit
    /\ part # "listings" => \A x \in Advert : asking[x] = 1 /\ alike[x].photo
    /\ Init
    /\ CycleInit
    /\ SpecInit
    /\ LeadsInit
    /\ part # "leads" => \A x \in BoardPosts : board[x] = NoLead

Others ==
    /\ IF part = "fetch" THEN TRUE ELSE UNCHANGED fetchVars
    /\ IF part = "rotation" THEN TRUE ELSE UNCHANGED rotationVars
    /\ IF part = "backfill" THEN TRUE ELSE UNCHANGED backfillVars
    /\ IF part = "signals" THEN TRUE ELSE UNCHANGED signalVars
    /\ IF part = "chain" THEN TRUE ELSE UNCHANGED chainVars
    /\ IF part = "export" THEN TRUE ELSE UNCHANGED exportVars
    /\ IF part = "listings" THEN TRUE ELSE UNCHANGED listingVars
    /\ IF part = "archive" THEN TRUE ELSE UNCHANGED vars
    /\ IF part = "cycle" THEN TRUE ELSE UNCHANGED cycleVars
    /\ IF part = "spec" THEN TRUE ELSE UNCHANGED specVars
    /\ IF part = "leads" THEN TRUE ELSE UNCHANGED leadVars
    /\ UNCHANGED part

ReadersNext ==
    /\ \/ part = "fetch" /\ FetchNext
       \/ part = "rotation" /\ RotationNext
       \/ part = "backfill" /\ BackfillNext
       \/ part = "signals" /\ SignalsNext
       \/ part = "chain" /\ ChainNext
       \/ part = "export" /\ ExportNext
       \/ part = "listings" /\ ListingsNext
       \/ part = "archive" /\ Next
       \/ part = "cycle" /\ CycleNext
       \/ part = "spec" /\ SpecNext
       \/ part = "leads" /\ LeadsNext
    /\ Others

allVars == <<part, fetchVars, rotationVars, backfillVars, signalVars, chainVars, exportVars,
            listingVars, vars, cycleVars, specVars, leadVars>>
ReadersSpec == ReadersInit /\ [][ReadersNext]_allVars
=============================================================================
