------------------------------ MODULE Journal ------------------------------
(***************************************************************************)
(* The life of one article: its stages and their gates, the versions of    *)
(* its file and the approvals they need, the export to the site, and the   *)
(* version posted on one channel.  A person works it from one terminal; an *)
(* editor writes the files, and the clock runs, while a command is busy.   *)
(***************************************************************************)
EXTENDS Naturals, Sequences, FiniteSets

CONSTANTS Text,             \* what the article's file may hold
          Body,             \* what the channel's version file may hold
          None,             \* no text
          NeedsExperiment,  \* the kinds article and benchmark
          Keyed,            \* does the channel take an idempotency key?
          EditDuring,       \* the steps of a command the editor may fall between
          EditBound,        \* bound: writes of an editor to each file
          EvidenceBound,    \* bound: changes of the saved copies and figures
          PubBound,         \* bound: versions made for the channel
          HaltBound        \* bound: commands that die half way

ASSUME JournalAssumption ==
    /\ None \notin Text \cup Body
    /\ {NeedsExperiment, Keyed} \subseteq BOOLEAN
    /\ {EditBound, EvidenceBound, PubBound, HaltBound} \subseteq Nat

VARIABLES state, parkedFrom, \* the journal row
          brief,      \* the groups of fields that are filled in
          given,      \* kinds of approval on file, and whether a run counts
          lab,        \* what holds of every experiment
          file,       \* the working file
          rev,        \* the text of the latest saved version
          vetted,     \* what was said of that version: "checks", "review"
          permit,     \* the last approval to publish it
          evidence,   \* figures and saved copies, as one version number
          healthy,    \* do the saved copies back the text?
          page,       \* the text committed to the site
          body,       \* the channel's version file
          pub,        \* the latest publication row
          postOK,     \* publications with a person's approval
          posted,     \* publications recorded as posted
          counted,    \* posted publications with numbers of day 7 and day 30
          posts,      \* external: what the platform shows for each publication
          step, held, \* where the command is, and the text it has read
          edits, halts

lifeVars == <<state, parkedFrom, brief, given, lab>>
textVars == <<rev, vetted, permit, evidence, healthy>>
postVars == <<pub, postOK, posted, counted, posts>>
jvars == <<lifeVars, file, textVars, page, body, postVars, step, held, edits, halts>>

----------------------------------------------------------------------------
(* Stages *)

Forward == <<"captured", "proposed", "chosen", "researching", "experimenting",
             "drafting", "in_review", "ready", "published", "shared", "measured">>
Rank == [captured |-> 1, proposed |-> 2, chosen |-> 3, researching |-> 4, experimenting |-> 5,
         drafting |-> 6, in_review |-> 7, ready |-> 8, published |-> 9, shared |-> 10,
         measured |-> 11]  \* FORWARD.index
Open == {"captured", "proposed", "chosen", "researching", "experimenting", "drafting",
         "in_review", "ready"}
PublishedStates == {"published", "shared", "measured"}
States == Open \cup PublishedStates \cup {"parked", "abandoned", "retracted"}

Back == {<<"experimenting", "researching">>, <<"drafting", "researching">>,
         <<"in_review", "drafting">>, <<"ready", "drafting">>}
        \cup (IF NeedsExperiment THEN {<<"drafting", "experimenting">>} ELSE {})

NextState(s) == IF s = "researching" /\ ~NeedsExperiment
                THEN "drafting" ELSE Forward[Rank[s] + 1]

NoPermit == [status |-> "none", evidence |-> 0]
Saved == file = rev
PermitHolds == permit.status = "valid" /\ permit.evidence = evidence
AllPosted(P) == posted # {} /\ posted \subseteq P

(* GATES: what each forward step asks for.  In `brief`, "question" stands for *)
(* the question and, of an experiment, its metric, baseline and coverage.     *)
Gate(to) ==
    /\ to = "proposed" => "question" \in brief
    /\ to = "chosen" => "choose" \in given /\ (NeedsExperiment => "question" \in brief)
    /\ to = "experimenting" => "plan" \in lab /\ "plan" \in given
    /\ to = "drafting" => (NeedsExperiment => "proof" \in lab)
    /\ to = "in_review" => Saved /\ "checks" \in vetted
    /\ to = "ready" => Saved /\ "review" \in vetted
    /\ to = "published" => "review" \in vetted /\ PermitHolds /\ {"url", "disclosure"} \subseteq brief
    /\ to = "shared" => AllPosted(postOK)
    /\ to = "measured" => AllPosted(counted)

JournalInit ==  \* journal new: the skeleton is saved as version 1
    /\ state = "captured" /\ parkedFrom = "" /\ brief = {} /\ given = {} /\ lab = {}
    /\ file \in Text /\ rev = file /\ vetted = {} /\ permit = NoPermit
    /\ evidence = 0 /\ healthy = TRUE /\ page = None
    /\ body = None /\ pub = [n |-> 0, status |-> "none", sha |-> None]
    /\ postOK = {} /\ posted = {} /\ counted = {}
    /\ posts = [n \in 1..PubBound |-> <<>>]
    /\ step = "idle" /\ held = None /\ edits = 0 /\ halts = 0

----------------------------------------------------------------------------
(* Moves.  A refused move changes nothing. *)

Move(to, from) ==
    /\ step = "idle"
    /\ state' = to /\ parkedFrom' = from
    /\ UNCHANGED <<brief, given, lab, file, textVars, page, body, postVars,
                   step, held, edits, halts>>

Advance ==
    /\ state \in Open \cup {"published", "shared"}
    /\ Gate(NextState(state))
    /\ Move(NextState(state), "")

StepBack == \E to \in Open : <<state, to>> \in Back /\ Move(to, "")
Park == state \in Open /\ Move("parked", state)
ResumeMutant == state = "parked" /\ \E to \in Open : Move(to, "")
Resume == state = "parked" /\ Move(parkedFrom, "")
Abandon == state \in Open \cup {"parked"} /\ Move("abandoned", "")
Retract == state \in PublishedStates /\ Move("retracted", "")

----------------------------------------------------------------------------
(* Brief, experiment, decisions *)

SetBrief ==
    /\ step = "idle"
    /\ \E f \in {"question", "disclosure", "url"}, filled \in BOOLEAN :
          brief' = IF filled THEN brief \cup {f} ELSE brief \ {f}
    /\ UNCHANGED <<state, parkedFrom, given, lab, file, textVars, page, body, postVars,
                   step, held, edits, halts>>

Lab(newLab, newGiven) ==
    /\ step = "idle"
    /\ lab' = newLab /\ given' = newGiven
    /\ UNCHANGED <<state, parkedFrom, brief, file, textVars, page, body, postVars,
                   step, held, edits, halts>>

(* plan: the first, an edit of one, or with --new a further one, which has *)
(* no run and no answers yet                                               *)
Plan == \E complete \in {{}, {"plan"}} :
    \/ Lab({"some"} \cup (lab \ {"plan"}) \cup complete, given)
    \/ lab # {} /\ Lab({"some"} \cup (lab \cap complete), given)

(* run, attach: of what is recorded only a run of clean code counts; with the *)
(* checklist answered it is the proof of its experiment                       *)
RunExperiment == lab # {} /\ \E all \in {{}, {"proof"}} : Lab(lab \cup all, given \cup {"run"})
Answer == "run" \in given /\ \E all \in {{}, {"proof"}} : Lab((lab \ {"proof"}) \cup all, given)

Decide == state # "retracted" /\ \E what \in {"choose", "plan"} : Lab(lab, given \cup {what})

----------------------------------------------------------------------------
(* Versions of the article *)

Revise == UNCHANGED <<state, parkedFrom, brief, lab, file, page, body, postVars,
                      step, held, edits, halts>>

(* save: verdicts and approvals belong to a version, so a new one has none *)
Save ==
    /\ step = "idle" /\ ~Saved
    /\ rev' = file /\ vetted' = {} /\ permit' = NoPermit
    /\ healthy' \in BOOLEAN  \* it may cite other pages
    /\ UNCHANGED <<given, evidence>> /\ Revise

(* check_saved: the latest verdicts count *)
RunChecks ==
    /\ step = "idle" /\ Saved
    /\ \E ok \in {{}, {"checks"}} : vetted' = (vetted \ {"checks"}) \cup ok
    /\ UNCHANGED <<given, rev, permit, evidence, healthy>> /\ Revise

(* approve review *)
ApproveReview ==
    /\ step = "idle" /\ Saved /\ state # "retracted"
    /\ vetted' = vetted \cup {"review"} /\ given' = given \cup {"review"}
    /\ UNCHANGED <<rev, permit, evidence, healthy>> /\ Revise

(* approve publish: names the version and everything it cites *)
ApprovePublish ==
    /\ step = "idle" /\ Saved /\ state # "retracted"
    /\ permit' = [status |-> "valid", evidence |-> evidence]
    /\ given' = given \cup {"publish"}
    /\ UNCHANGED <<rev, vetted, evidence, healthy>> /\ Revise

(* snapshot, figure: a new copy, which may turn out to be of a dead page *)
FreezeText ==
    /\ step = "idle" /\ evidence < EvidenceBound
    /\ evidence' = evidence + 1 /\ healthy' \in BOOLEAN
    /\ UNCHANGED <<given, rev, vetted, permit>> /\ Revise

(* snapshot --verify: a mark on the copy, which stays the same copy *)
Verify ==
    /\ step = "idle" /\ evidence > 0 /\ healthy' \in BOOLEAN
    /\ UNCHANGED <<given, rev, vetted, permit, evidence>> /\ Revise

(* the days an approval is good for *)
Expire ==
    /\ permit.status = "valid" /\ permit' = [permit EXCEPT !.status = "expired"]
    /\ UNCHANGED <<given, rev, vetted, evidence, healthy>> /\ Revise

----------------------------------------------------------------------------
(* The export reads the file three times; `held` is the text of the page.  *)

Command(at, text) == step' = at /\ held' = text
Shipping == UNCHANGED <<state, parkedFrom, given, lab, file, textVars, body, postVars, edits, halts>>

(* ready_to_export, and the address that is filled in on the way *)
ExportCheck ==
    /\ step = "idle" /\ state \in {"ready"} \cup PublishedStates
    /\ Saved /\ "checks" \in vetted /\ PermitHolds /\ healthy /\ "disclosure" \in brief
    /\ brief' = brief \cup {"url"}
    /\ Command("export-read", None)
    /\ UNCHANGED page /\ Shipping

ExportRead ==
    /\ step = "export-read"
    /\ Command("export-hash", file)
    /\ UNCHANGED <<brief, page>> /\ Shipping

ExportHash ==
    /\ step = "export-hash"
    /\ IF Saved THEN Command("export-write", held) ELSE Command("idle", None)
    /\ UNCHANGED <<brief, page>> /\ Shipping

ExportWriteMutant ==
    /\ step = "export-write"
    /\ page' = held
    /\ Command("idle", None)
    /\ UNCHANGED brief /\ Shipping
(* what is in the worktree is committed, or put back, by a third reading *)
ExportWrite ==
    /\ step = "export-write"
    /\ page' = IF file = held THEN held ELSE page
    /\ Command("idle", None)
    /\ UNCHANGED brief /\ Shipping

----------------------------------------------------------------------------
(* The channel *)

Channelling == UNCHANGED <<lifeVars, file, textVars, page, edits>>
PubIds == 1..PubBound
CanShare == state \in PublishedStates /\ "url" \in brief
Row(status, sha) == pub' = [pub EXCEPT !.status = status, !.sha = sha]

(* make_version: the file, the row, and then its path in the row *)
MakeVersion ==
    /\ step = "idle" /\ CanShare /\ pub.n < PubBound
    /\ body' \in Body
    /\ pub' = [n |-> pub.n + 1, status |-> "bare", sha |-> None]
    /\ Command("variant-path", None)
    /\ UNCHANGED <<postOK, posted, counted, posts, halts>> /\ Channelling

VersionPath ==
    /\ step = "variant-path" /\ Row("draft", None)
    /\ Command("idle", None)
    /\ UNCHANGED <<body, postOK, posted, counted, posts, halts>> /\ Channelling

(* approve_version: the fingerprint first, the approval after it *)
ApproveVersion ==
    /\ step = "idle" /\ state # "retracted" /\ pub.status \in {"draft", "approved"}
    /\ Row("approved", body)
    /\ Command("approve-record", None)
    /\ UNCHANGED <<body, postOK, posted, counted, posts, halts>> /\ Channelling

ApproveRecord ==
    /\ step = "approve-record" /\ postOK' = postOK \cup {pub.n}
    /\ Command("idle", None)
    /\ UNCHANGED <<body, pub, posted, counted, posts, halts>> /\ Channelling

PostCheck ==
    /\ step = "idle" /\ CanShare /\ pub.status = "approved" /\ pub.n \in postOK
    /\ body = pub.sha
    /\ Command("post-read", None)
    /\ UNCHANGED <<body, postVars, halts>> /\ Channelling

PostRead ==
    /\ step = "post-read" /\ Command("post-send", body)
    /\ UNCHANGED <<body, postVars, halts>> /\ Channelling

AcceptedMutant(n, text) == [posts EXCEPT ![n] = Append(@, text)]
(* external: a platform given the same key again answers with the first post *)
Accepted(n, text) == [posts EXCEPT ![n] = IF Keyed /\ @ # <<>> THEN @ ELSE Append(@, text)]

PostSend ==
    /\ step = "post-send" /\ posts' = Accepted(pub.n, held)
    /\ Command("post-record", None)
    /\ UNCHANGED <<body, pub, postOK, posted, counted, halts>> /\ Channelling

(* no answer: the platform may have taken it all the same *)
PostFailed ==
    /\ step = "post-send" /\ posts' \in {posts, Accepted(pub.n, held)}
    /\ Command("idle", None)
    /\ UNCHANGED <<body, pub, postOK, posted, counted, halts>> /\ Channelling

PostRecord ==
    /\ step = "post-record" /\ Row("posted", pub.sha) /\ posted' = posted \cup {pub.n}
    /\ Command("idle", None)
    /\ UNCHANGED <<body, postOK, counted, posts, halts>> /\ Channelling

(* posted: the time of posting is written again, the numbers may not be late *)
(* enough for it                                                             *)
RecordPosted ==
    /\ step = "idle" /\ CanShare /\ pub.status = "posted"
    /\ counted' \in {counted, counted \ {pub.n}}
    /\ UNCHANGED <<body, pub, postOK, posted, posts, step, held, halts>> /\ Channelling

(* measure: of the last post, and of no earlier one *)
Measure ==
    /\ step = "idle" /\ \E n \in posted :
          /\ \A m \in posted : m <= n
          /\ counted' = counted \cup {n}
    /\ UNCHANGED <<body, pub, postOK, posted, posts, step, held, halts>> /\ Channelling

----------------------------------------------------------------------------
(* An editor, and a command that dies *)

Edit ==
    /\ step \in EditDuring /\ edits < EditBound /\ edits' = edits + 1
    /\ \/ file' \in Text \ {file} /\ UNCHANGED body
       \/ body # None /\ body' \in Body \ {body} /\ UNCHANGED file
    /\ UNCHANGED <<lifeVars, textVars, page, postVars, step, held, halts>>

Halt ==
    /\ step # "idle" /\ halts < HaltBound /\ halts' = halts + 1
    /\ Command("idle", None)
    /\ UNCHANGED <<body, postVars>> /\ Channelling

Life == Advance \/ StepBack \/ Park \/ Resume \/ Abandon \/ Retract
        \/ SetBrief \/ Plan \/ RunExperiment \/ Answer \/ Decide
Versions == Save \/ RunChecks \/ ApproveReview \/ ApprovePublish \/ FreezeText \/ Verify \/ Expire
Export == ExportCheck \/ ExportRead \/ ExportHash \/ ExportWrite
Channel == MakeVersion \/ VersionPath \/ ApproveVersion \/ ApproveRecord \/ PostCheck \/ PostRead
           \/ PostSend \/ PostFailed \/ PostRecord \/ RecordPosted \/ Measure
JournalNext == Life \/ Versions \/ Export \/ Channel \/ Edit \/ Halt
JournalSpec == JournalInit /\ [][JournalNext]_jvars

----------------------------------------------------------------------------

LifeTypes ==
    /\ state \in States /\ parkedFrom \in Open \cup {""} /\ (state = "parked" <=> parkedFrom # "")
    /\ brief \subseteq {"question", "disclosure", "url"}
    /\ given \subseteq {"choose", "plan", "review", "publish", "run"}
    /\ lab \subseteq {"some", "plan", "proof"}
TextTypes ==
    /\ file \in Text /\ rev \in Text /\ vetted \subseteq {"checks", "review"}
    /\ permit \in [status : {"none", "valid", "expired"}, evidence : 0..EvidenceBound]
    /\ evidence \in 0..EvidenceBound /\ healthy \in BOOLEAN /\ page \in Text \cup {None}
PostTypes ==
    /\ body \in Body \cup {None}
    /\ pub \in [n : 0..PubBound, status : {"none", "bare", "draft", "approved", "posted"},
                 sha : Body \cup {None}]
    /\ postOK \subseteq PubIds /\ counted \subseteq posted /\ posted \subseteq PubIds
    /\ posts \in [PubIds -> Seq(Body)]
CommandTypes ==
    /\ step \in {"idle", "export-read", "export-hash", "export-write", "variant-path",
                "approve-record", "post-read", "post-send", "post-record"}
    /\ held \in Text \cup Body \cup {None} /\ edits \in 0..EditBound /\ halts \in 0..HaltBound

(* Every variable holds what the schema and the commands can put there; a    *)
(* parked article knows where it was parked.                                *)
JournalTypeOK == LifeTypes /\ TextTypes /\ PostTypes /\ CommandTypes

(* No sequence of legal commands, with parking, resuming and stepping back,  *)
(* brings an article past a stage that needs a person's decision, a run that *)
(* counts or a post, without it; a parked article is where it was parked.    *)
Stage == IF state = "parked" THEN parkedFrom ELSE state
Past(s) == \/ Stage = "retracted"
           \/ Stage # "abandoned" /\ Rank[Stage] >= Rank[s]
PastItsGates ==
    /\ Past("chosen") => "choose" \in given
    /\ Stage = "experimenting" => "plan" \in given
    /\ Past("drafting") /\ NeedsExperiment => {"plan", "run"} \subseteq given
    /\ Past("ready") => "review" \in given
    /\ Past("published") => "publish" \in given
    /\ Past("shared") /\ Stage # "retracted" => posted # {} /\ postOK # {}

(* A version is posted at most once, whatever commands die or go unanswered   *)
(* and however often the person posts it again.                              *)
OnePostPerVersion == \A n \in PubIds : Len(posts[n]) <= 1

(* What is committed to the site is the latest version as it was approved for *)
(* publication, checked, with the figures and copies the approval named,      *)
(* however the file changes between the three times the export reads it.      *)
ShippedIsApproved ==
    [][page' # page => /\ page' = rev /\ "checks" \in vetted
                       /\ permit.status # "none" /\ permit.evidence = evidence]_jvars

(* What a platform shows is the file a person approved, as it was then.       *)
PostIsApproved ==
    [][\A n \in PubIds : posts'[n] # posts[n] =>
          n \in postOK /\ posts'[n] = Append(posts[n], pub.sha)]_jvars

(* What the public reads, on the site or a platform, a person approved.       *)
PublicIsApproved == ShippedIsApproved /\ PostIsApproved

============================================================================
