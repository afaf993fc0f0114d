--------------------------- MODULE JournalProofs ---------------------------
(***************************************************************************)
(* No sequence of commands passes a gate a person never opened, for any    *)
(* texts and bounds, with and without an experiment, whatever the editor   *)
(* and the crashes do.                                                     *)
(***************************************************************************)
EXTENDS Journal, TLAPS

(* What is known of the article's row.                                      *)
RowOK == /\ state \in States
         /\ parkedFrom \in Open \cup {""}
         /\ state = "parked" <=> parkedFrom # ""

(* What a gate reads was put there by a decision that is on file.           *)
Backed == /\ "proof" \in lab => "run" \in given
          /\ "review" \in vetted => "review" \in given
          /\ permit.status = "valid" => "publish" \in given

JournalInv == RowOK /\ Backed /\ PastItsGates

(* The stages in order, as the prover needs them.                           *)
LEMMA Ranks ==
    /\ Rank["captured"] = 1 /\ Rank["proposed"] = 2 /\ Rank["chosen"] = 3
    /\ Rank["researching"] = 4 /\ Rank["experimenting"] = 5 /\ Rank["drafting"] = 6
    /\ Rank["in_review"] = 7 /\ Rank["ready"] = 8 /\ Rank["published"] = 9
    /\ Rank["shared"] = 10 /\ Rank["measured"] = 11
BY DEF Rank

LEMMA NextStates ==
    /\ NextState("captured") = "proposed" /\ NextState("proposed") = "chosen"
    /\ NextState("chosen") = "researching"
    /\ NeedsExperiment => NextState("researching") = "experimenting"
    /\ ~NeedsExperiment => NextState("researching") = "drafting"
    /\ NextState("experimenting") = "drafting" /\ NextState("drafting") = "in_review"
    /\ NextState("in_review") = "ready" /\ NextState("ready") = "published"
    /\ NextState("published") = "shared" /\ NextState("shared") = "measured"
BY Ranks DEF NextState, Forward

(* A step that leaves the article where it is and only adds decisions and    *)
(* posts cannot take it past a gate.                                         *)
LEMMA Standing ==
    ASSUME JournalInv, UNCHANGED <<state, parkedFrom>>,
           given \subseteq given', posted \subseteq posted', postOK \subseteq postOK'
    PROVE  RowOK' /\ PastItsGates'
BY DEF JournalInv, RowOK, PastItsGates, Past, Stage

LEMMA InitOK == JournalInit => JournalInv
<1> SUFFICES ASSUME JournalInit PROVE JournalInv
  OBVIOUS
<1>1. RowOK /\ Backed
  BY DEF JournalInit, RowOK, Backed, NoPermit, States, Open
<1>2. Stage = "captured"
  BY DEF JournalInit, Stage
<1>3. PastItsGates
  BY <1>2, Ranks DEF PastItsGates, Past
<1> QED
  BY <1>1, <1>3 DEF JournalInv

(* Steps of the article.  What was decided stays; where the article goes is  *)
(* for each move to say.                                                    *)
Decided == UNCHANGED <<given, lab, vetted, permit, posted, postOK>>

LEMMA MoveTypes ==
    ASSUME JournalInv, NEW to, NEW from, Move(to, from)
    PROVE  Decided /\ Backed' /\ state' = to /\ parkedFrom' = from
BY DEF Move, Decided, textVars, postVars, Backed, JournalInv

(* The gates of a stage are those of every earlier one.                     *)
LEMMA Lower ==
    ASSUME PastItsGates, Decided, Stage \in Open \cup PublishedStates,
           Stage' \in Open, Rank[Stage'] <= Rank[Stage],
           Stage' = "experimenting" => "plan" \in given
    PROVE  PastItsGates'
<1>1. Stage # "retracted" /\ Stage # "abandoned" /\ Stage' # "retracted" /\ Stage' # "abandoned"
  BY DEF Open, PublishedStates
<1>2. Rank[Stage] \in Nat /\ Rank[Stage'] \in Nat
  BY Ranks DEF Open, PublishedStates
<1>3. ASSUME NEW s \in Open \cup PublishedStates, Past(s)'
      PROVE  Past(s)
  BY <1>1, <1>2, <1>3, Ranks DEF Past, Open, PublishedStates
<1>4. {"chosen", "drafting", "ready", "published", "shared"} \subseteq Open \cup PublishedStates
  BY DEF Open, PublishedStates
<1> QED
  BY <1>1, <1>3, <1>4 DEF PastItsGates, Decided

LEMMA StepBackOK == ASSUME JournalInv, StepBack PROVE JournalInv'
<1>1. PICK to \in Open : <<state, to>> \in Back /\ Move(to, "")
  BY DEF StepBack
<1>2. Decided /\ Backed' /\ state' = to /\ parkedFrom' = ""
  BY <1>1, MoveTypes
<1>3. Stage = state /\ Stage' = to /\ state \in Open
  BY <1>1, <1>2 DEF Back, Stage, Open
<1>4. Rank[to] <= Rank[state]
  <2>1. \/ to = "researching" /\ state \in {"experimenting", "drafting"}
        \/ to = "drafting" /\ state \in {"in_review", "ready"}
        \/ to = "experimenting" /\ state = "drafting"
    BY <1>1 DEF Back
  <2> QED
    BY <2>1, Ranks
<1>5. to = "experimenting" => "plan" \in given
  <2> SUFFICES ASSUME to = "experimenting" PROVE "plan" \in given
    OBVIOUS
  <2>1. NeedsExperiment /\ state = "drafting"
    BY <1>1 DEF Back
  <2> QED
    BY <2>1, <1>3, Ranks DEF JournalInv, PastItsGates, Past
<1>6. PastItsGates'
  BY <1>1, <1>2, <1>3, <1>4, <1>5, Lower DEF JournalInv
<1>7. RowOK'
  BY <1>1, <1>2 DEF RowOK, States, Open
<1> QED
  BY <1>2, <1>6, <1>7 DEF JournalInv

(* Parking and resuming leave the stage alone.                              *)
LEMMA ParkOK == ASSUME JournalInv, Park PROVE JournalInv'
<1>1. state \in Open /\ Decided /\ Backed' /\ state' = "parked" /\ parkedFrom' = state
  BY MoveTypes DEF Park
<1>2. Stage' = Stage
  BY <1>1 DEF Stage, Open
<1>3. PastItsGates'
  BY <1>1, <1>2 DEF JournalInv, PastItsGates, Past, Decided
<1> QED
  BY <1>1, <1>3 DEF JournalInv, RowOK, States, Open

LEMMA ResumeOK == ASSUME JournalInv, Resume PROVE JournalInv'
<1>1. state = "parked" /\ Decided /\ Backed' /\ state' = parkedFrom /\ parkedFrom' = ""
  BY MoveTypes DEF Resume
<1>2. parkedFrom \in Open
  BY <1>1 DEF JournalInv, RowOK
<1>3. Stage' = Stage
  BY <1>1, <1>2 DEF Stage, Open
<1>4. PastItsGates'
  BY <1>1, <1>3 DEF JournalInv, PastItsGates, Past, Decided
<1> QED
  BY <1>1, <1>2, <1>4 DEF JournalInv, RowOK, States, Open

LEMMA AbandonOK == ASSUME JournalInv, Abandon PROVE JournalInv'
<1>1. Decided /\ Backed' /\ state' = "abandoned" /\ parkedFrom' = ""
  BY MoveTypes DEF Abandon
<1>2. Stage' = "abandoned"
  BY <1>1 DEF Stage
<1>3. PastItsGates'
  BY <1>2 DEF PastItsGates, Past
<1> QED
  BY <1>1, <1>3 DEF JournalInv, RowOK, States

LEMMA RetractOK == ASSUME JournalInv, Retract PROVE JournalInv'
<1>1. state \in PublishedStates /\ Decided /\ Backed' /\ state' = "retracted" /\ parkedFrom' = ""
  BY MoveTypes DEF Retract
<1>2. Stage = state /\ Stage' = "retracted"
  BY <1>1 DEF Stage, PublishedStates
<1>3. Past("chosen") /\ Past("drafting") /\ Past("ready") /\ Past("published")
  <2>1. Stage # "abandoned" /\ Stage \in {"published", "shared", "measured"}
    BY <1>1, <1>2 DEF PublishedStates
  <2> QED
    BY <2>1, Ranks DEF Past
<1>4. PastItsGates'
  BY <1>1, <1>2, <1>3 DEF JournalInv, PastItsGates, Decided
<1> QED
  BY <1>1, <1>4 DEF JournalInv, RowOK, States

(* A step forward: the gate it goes through is the only one it adds.        *)
LEMMA AdvanceOK == ASSUME JournalInv, Advance PROVE JournalInv'
<1> DEFINE to == NextState(state)
<1>1. state \in Open \cup {"published", "shared"} /\ Gate(to)
  BY DEF Advance
<1>2. Decided /\ Backed' /\ state' = to /\ parkedFrom' = ""
  BY MoveTypes DEF Advance
<1>3. to \in (Open \cup PublishedStates) \ {"captured"}
  BY <1>1, NextStates DEF Open, PublishedStates
<1>4. Stage = state /\ Stage' = to
  BY <1>1, <1>2, <1>3 DEF Stage, Open, PublishedStates
<1>5. RowOK'
  BY <1>2, <1>3 DEF RowOK, States, Open, PublishedStates
<1> HIDE DEF to
<1>6. PastItsGates'
  <2>1. /\ Past("chosen") => "choose" \in given
        /\ Stage = "experimenting" => "plan" \in given
        /\ Past("drafting") /\ NeedsExperiment => {"plan", "run"} \subseteq given
        /\ Past("ready") => "review" \in given
        /\ Past("published") => "publish" \in given
        /\ Past("shared") => posted # {} /\ postOK # {}
    BY <1>1, <1>4 DEF JournalInv, PastItsGates, Open
  <2>2. \A s \in {"chosen", "drafting", "ready", "published", "shared"} :
           Past(s)' => Past(s) \/ s = to
    BY <1>1, <1>3, <1>4, Ranks, NextStates DEF Past, Open, PublishedStates, to
  <2>3. to = "drafting" /\ NeedsExperiment => state = "experimenting"
    BY <1>1, NextStates DEF Open, to
  <2>4. /\ to = "chosen" => "choose" \in given
        /\ to = "experimenting" => "plan" \in given
        /\ to = "drafting" /\ NeedsExperiment => {"plan", "run"} \subseteq given
        /\ to = "ready" => "review" \in given
        /\ to = "published" => "publish" \in given
        /\ to = "shared" => posted # {} /\ postOK # {}
    BY <1>1, <1>4, <2>1, <2>3 DEF Gate, JournalInv, Backed, PermitHolds, AllPosted
  <2> QED
    BY <1>2, <1>4, <2>1, <2>2, <2>4 DEF PastItsGates, Decided
<1> QED
  BY <1>2, <1>5, <1>6 DEF JournalInv

(* Steps that leave the article where it is.                                *)
LEMMA LabOK ==
    ASSUME JournalInv, NEW l, NEW g, Lab(l, g), given \subseteq g, "proof" \in l => "run" \in g
    PROVE  JournalInv'
<1>1. UNCHANGED <<state, parkedFrom, vetted, permit, posted, postOK>> /\ lab' = l /\ given' = g
  BY DEF Lab, textVars, postVars
<1>2. RowOK' /\ PastItsGates'
  BY <1>1, Standing
<1> QED
  BY <1>1, <1>2 DEF JournalInv, Backed

LEMMA PlanningOK ==
    ASSUME JournalInv, Plan \/ RunExperiment \/ Answer \/ Decide PROVE JournalInv'
<1>1. CASE Plan
  <2>1. PICK complete \in {{}, {"plan"}} :
            \/ Lab({"some"} \cup (lab \ {"plan"}) \cup complete, given)
            \/ Lab({"some"} \cup (lab \cap complete), given)
    BY <1>1 DEF Plan
  <2>2. "proof" \in lab => "run" \in given
    BY DEF JournalInv, Backed
  <2> QED
    BY <2>1, <2>2, LabOK
<1>2. CASE RunExperiment
  <2>1. PICK all \in {{}, {"proof"}} : Lab(lab \cup all, given \cup {"run"})
    BY <1>2 DEF RunExperiment
  <2> QED
    BY <2>1, LabOK
<1>3. CASE Answer
  <2>1. PICK all \in {{}, {"proof"}} : Lab((lab \ {"proof"}) \cup all, given)
    BY <1>3 DEF Answer
  <2>2. "run" \in given
    BY <1>3 DEF Answer
  <2> QED
    BY <2>1, <2>2, LabOK
<1>4. CASE Decide
  <2>1. PICK what \in {"choose", "plan"} : Lab(lab, given \cup {what})
    BY <1>4 DEF Decide
  <2>2. "proof" \in lab => "run" \in given
    BY DEF JournalInv, Backed
  <2> QED
    BY <2>1, <2>2, LabOK
<1> QED
  BY <1>1, <1>2, <1>3, <1>4

LEMMA VersionsOK == ASSUME JournalInv, Versions PROVE JournalInv'
<1>1. UNCHANGED <<state, parkedFrom, lab, posted, postOK>>
  BY DEF Versions, Save, RunChecks, ApproveReview, ApprovePublish, FreezeText, Verify, Expire,
         Revise, postVars
<1>2. given \subseteq given'
  BY DEF Versions, Save, RunChecks, ApproveReview, ApprovePublish, FreezeText, Verify, Expire
<1>3. /\ "review" \in vetted' => "review" \in given'
      /\ permit'.status = "valid" => "publish" \in given'
  <2> USE DEF JournalInv, Backed
  <2>1. CASE Save
    BY <2>1 DEF Save, NoPermit
  <2>2. CASE RunChecks
    BY <2>2 DEF RunChecks
  <2>3. CASE ApproveReview
    BY <2>3 DEF ApproveReview
  <2>4. CASE ApprovePublish
    BY <2>4 DEF ApprovePublish
  <2>5. CASE FreezeText \/ Verify
    BY <2>5 DEF FreezeText, Verify
  <2>6. CASE Expire
    BY <2>6 DEF Expire
  <2> QED
    BY <2>1, <2>2, <2>3, <2>4, <2>5, <2>6 DEF Versions
<1>4. RowOK' /\ PastItsGates'
  BY <1>1, <1>2, Standing
<1> QED
  BY <1>1, <1>2, <1>3, <1>4 DEF JournalInv, Backed

LEMMA OthersOK == ASSUME JournalInv, SetBrief \/ Export \/ Channel \/ Edit \/ Halt PROVE JournalInv'
<1>1. UNCHANGED <<state, parkedFrom, given, lab, vetted, permit>>
  <2>1. CASE SetBrief \/ Edit \/ Halt
    BY <2>1 DEF SetBrief, Edit, Halt, Channelling, lifeVars, textVars
  <2>2. CASE Export
    BY <2>2 DEF Export, ExportCheck, ExportRead, ExportHash, ExportWrite, Shipping, textVars
  <2>3. CASE Channel
    BY <2>3 DEF Channel, MakeVersion, VersionPath, ApproveVersion, ApproveRecord, PostCheck,
         PostRead, PostSend, PostFailed, PostRecord, RecordPosted, Measure, Channelling,
         lifeVars, textVars
  <2> QED
    BY <2>1, <2>2, <2>3
<1>2. posted \subseteq posted' /\ postOK \subseteq postOK'
  <2>1. CASE SetBrief \/ Edit \/ Halt
    BY <2>1 DEF SetBrief, Edit, Halt, postVars
  <2>2. CASE Export
    BY <2>2 DEF Export, ExportCheck, ExportRead, ExportHash, ExportWrite, Shipping, postVars
  <2>3. CASE Channel
    BY <2>3 DEF Channel, MakeVersion, VersionPath, ApproveVersion, ApproveRecord, PostCheck,
         PostRead, PostSend, PostFailed, PostRecord, RecordPosted, Measure, postVars
  <2> QED
    BY <2>1, <2>2, <2>3
<1>3. RowOK' /\ PastItsGates'
  BY <1>1, <1>2, Standing
<1> QED
  BY <1>1, <1>3 DEF JournalInv, Backed

(* The invariant is inductive.                                              *)
LEMMA JournalStep == JournalInv /\ [JournalNext]_jvars => JournalInv'
<1> SUFFICES ASSUME JournalInv, [JournalNext]_jvars PROVE JournalInv'
  OBVIOUS
<1>1. CASE Life
  BY <1>1, StepBackOK, ParkOK, ResumeOK, AbandonOK, RetractOK, AdvanceOK, PlanningOK, OthersOK DEF Life
<1>2. CASE Versions
  BY <1>2, VersionsOK
<1>3. CASE Export \/ Channel \/ Edit \/ Halt
  BY <1>3, OthersOK
<1>4. CASE UNCHANGED jvars
  BY <1>4, Standing DEF jvars, lifeVars, textVars, postVars, JournalInv, Backed
<1> QED
  BY <1>1, <1>2, <1>3, <1>4 DEF JournalNext

(* The row, the decisions behind what the gates read, and the gates, of      *)
(* every reachable state.                                                   *)
THEOREM JournalInvariant == JournalSpec => []JournalInv
<1>1. JournalInit => JournalInv
  BY InitOK
<1>2. JournalInv /\ [JournalNext]_jvars => JournalInv'
  BY JournalStep
<1> QED
  BY <1>1, <1>2, PTL DEF JournalSpec

(* An article past a gate has the decisions that gate asks for, for every    *)
(* kind, text, bound and channel (states.py, move and blockers).            *)
THEOREM NoGateIsSkipped == JournalSpec => []PastItsGates
<1>1. JournalInv => PastItsGates
  BY DEF JournalInv
<1> QED
  BY <1>1, JournalInvariant, PTL

----------------------------------------------------------------------------
(* Types.  What a command holds while it is at a step, and that a channel    *)
(* with a row has its version file, are needed for them.                    *)

Posting == {"variant-path", "approve-record", "post-read", "post-send", "post-record"}
Held == /\ pub.n = 0 <=> pub.status = "none"
        /\ pub.n # 0 => body \in Body
        /\ step \in Posting => pub.n # 0
        /\ step = "post-send" => held \in Body
        /\ step \in {"export-hash", "export-write"} => held \in Text

TypeInv == JournalTypeOK /\ Held

LEMMA TypesInit == JournalInit => TypeInv
<1> SUFFICES ASSUME JournalInit PROVE TypeInv
  OBVIOUS
<1>1. posts \in [PubIds -> Seq(Body)]
  <2>1. <<>> \in Seq(Body)
    OBVIOUS
  <2>2. posts = [n \in PubIds |-> <<>>]
    BY DEF JournalInit, PubIds
  <2> QED
    BY <2>1, <2>2
<1>2. Held
  BY DEF JournalInit, Held, Posting
<1>3. 0 \in 0..EvidenceBound /\ 0 \in 0..PubBound /\ 0 \in 0..EditBound /\ 0 \in 0..HaltBound
  BY JournalAssumption
<1>4. LifeTypes
  BY DEF JournalInit, LifeTypes, States, Open
<1>5. TextTypes
  BY <1>3 DEF JournalInit, TextTypes, NoPermit
<1>6. PostTypes
  BY <1>1, <1>3 DEF JournalInit, PostTypes
<1>7. CommandTypes
  BY <1>3 DEF JournalInit, CommandTypes
<1> QED
  BY <1>2, <1>4, <1>5, <1>6, <1>7 DEF TypeInv, JournalTypeOK

(* Steps of the row, the brief and the experiment.                          *)
LEMMA TypesLife == ASSUME TypeInv, Life PROVE TypeInv'
<1>1. UNCHANGED <<file, textVars, page, body, postVars, step, held, edits, halts>>
  BY DEF Life, Advance, StepBack, Park, Resume, Abandon, Retract, Move, SetBrief, Plan,
         RunExperiment, Answer, Decide, Lab
<1>2. /\ state' \in States /\ parkedFrom' \in Open \cup {""}
      /\ state' = "parked" <=> parkedFrom' # ""
  <2> USE DEF TypeInv, JournalTypeOK, LifeTypes
  <2>1. CASE Advance
    <3>1. NextState(state) \in (Open \cup PublishedStates) \ {"captured"}
      BY <2>1, NextStates DEF Advance, Open, PublishedStates
    <3> QED
      BY <2>1, <3>1 DEF Advance, Move, States, Open, PublishedStates
  <2>2. CASE StepBack
    BY <2>2 DEF StepBack, Move, States, Open
  <2>3. CASE Park
    BY <2>3 DEF Park, Move, States, Open
  <2>4. CASE Resume
    BY <2>4 DEF Resume, Move, States, Open
  <2>5. CASE Abandon \/ Retract
    BY <2>5 DEF Abandon, Retract, Move, States
  <2>6. CASE SetBrief \/ Plan \/ RunExperiment \/ Answer \/ Decide
    BY <2>6 DEF SetBrief, Plan, RunExperiment, Answer, Decide, Lab
  <2> QED
    BY <2>1, <2>2, <2>3, <2>4, <2>5, <2>6 DEF Life
<1>3. /\ brief' \subseteq {"question", "disclosure", "url"}
      /\ given' \subseteq {"choose", "plan", "review", "publish", "run"}
      /\ lab' \subseteq {"some", "plan", "proof"}
  <2> USE DEF TypeInv, JournalTypeOK, LifeTypes
  <2>1. CASE Advance \/ StepBack \/ Park \/ Resume \/ Abandon \/ Retract
    BY <2>1 DEF Advance, StepBack, Park, Resume, Abandon, Retract, Move
  <2>2. CASE SetBrief
    BY <2>2 DEF SetBrief
  <2>3. CASE Plan \/ RunExperiment \/ Answer \/ Decide
    BY <2>3 DEF Plan, RunExperiment, Answer, Decide, Lab
  <2> QED
    BY <2>1, <2>2, <2>3 DEF Life
<1>4. Held'
  BY <1>1 DEF TypeInv, Held, Posting, postVars
<1>5. LifeTypes'
  BY <1>2, <1>3 DEF LifeTypes
<1>6. TextTypes' /\ PostTypes' /\ CommandTypes'
  BY <1>1 DEF TypeInv, JournalTypeOK, TextTypes, PostTypes, CommandTypes, textVars, postVars
<1> QED
  BY <1>4, <1>5, <1>6 DEF TypeInv, JournalTypeOK

(* Steps of the versions and their approvals.                               *)
LEMMA TypesVersions == ASSUME TypeInv, Versions PROVE TypeInv'
<1>1. UNCHANGED <<state, parkedFrom, brief, lab, file, page, body, postVars, step, held, edits, halts>>
  BY DEF Versions, Save, RunChecks, ApproveReview, ApprovePublish, FreezeText, Verify, Expire, Revise
<1>2. given' \subseteq {"choose", "plan", "review", "publish", "run"}
  BY DEF Versions, Save, RunChecks, ApproveReview, ApprovePublish, FreezeText, Verify, Expire,
         TypeInv, JournalTypeOK, LifeTypes
<1>3. TextTypes'
  <2> USE DEF TypeInv, JournalTypeOK, TextTypes
  <2>1. CASE Save
    BY <2>1, <1>1, JournalAssumption DEF Save, NoPermit
  <2>2. CASE RunChecks
    BY <2>2, <1>1 DEF RunChecks
  <2>3. CASE ApproveReview
    BY <2>3, <1>1 DEF ApproveReview
  <2>4. CASE ApprovePublish
    BY <2>4, <1>1 DEF ApprovePublish
  <2>5. CASE FreezeText
    BY <2>5, <1>1, JournalAssumption DEF FreezeText
  <2>6. CASE Verify
    BY <2>6, <1>1 DEF Verify
  <2>7. CASE Expire
    BY <2>7, <1>1 DEF Expire
  <2> QED
    BY <2>1, <2>2, <2>3, <2>4, <2>5, <2>6, <2>7 DEF Versions
<1>4. Held'
  BY <1>1 DEF TypeInv, Held, Posting, postVars
<1>5. LifeTypes' /\ PostTypes' /\ CommandTypes'
  BY <1>1, <1>2 DEF TypeInv, JournalTypeOK, LifeTypes, PostTypes, CommandTypes, postVars
<1> QED
  BY <1>3, <1>4, <1>5 DEF TypeInv, JournalTypeOK

(* Steps of an export.                                                      *)
LEMMA TypesExport == ASSUME TypeInv, Export PROVE TypeInv'
<1>1. UNCHANGED <<state, parkedFrom, given, lab, file, textVars, body, postVars, edits, halts>>
  BY DEF Export, ExportCheck, ExportRead, ExportHash, ExportWrite, Shipping
<1>2. /\ brief' \subseteq {"question", "disclosure", "url"}
      /\ page' \in Text \cup {None} /\ held' \in Text \cup {None}
      /\ step' \in {"idle", "export-read", "export-hash", "export-write"}
      /\ step' \in {"export-hash", "export-write"} => held' \in Text
  <2> USE DEF TypeInv, JournalTypeOK, LifeTypes, TextTypes, CommandTypes, Held, Command
  <2>1. CASE ExportCheck
    BY <2>1 DEF ExportCheck
  <2>2. CASE ExportRead
    BY <2>2 DEF ExportRead
  <2>3. CASE ExportHash
    BY <2>3 DEF ExportHash
  <2>4. CASE ExportWrite
    BY <2>4 DEF ExportWrite
  <2> QED
    BY <2>1, <2>2, <2>3, <2>4 DEF Export
<1>3. Held'
  BY <1>1, <1>2 DEF TypeInv, Held, Posting, postVars
<1>4. LifeTypes' /\ TextTypes'
  BY <1>1, <1>2 DEF TypeInv, JournalTypeOK, LifeTypes, TextTypes, textVars
<1>5. PostTypes' /\ CommandTypes'
  BY <1>1, <1>2 DEF TypeInv, JournalTypeOK, PostTypes, CommandTypes, postVars
<1> QED
  BY <1>3, <1>4, <1>5 DEF TypeInv, JournalTypeOK

LEMMA Acceptance ==
    ASSUME TypeInv, step = "post-send" PROVE Accepted(pub.n, held) \in [PubIds -> Seq(Body)]
<1>1. held \in Body /\ pub.n \in PubIds /\ posts \in [PubIds -> Seq(Body)]
  BY DEF TypeInv, JournalTypeOK, PostTypes, Held, Posting, PubIds
<1>2. Append(posts[pub.n], held) \in Seq(Body) /\ posts[pub.n] \in Seq(Body)
  BY <1>1
<1> QED
  BY <1>1, <1>2 DEF Accepted

(* Steps on the channel.                                                    *)
LEMMA TypesChannel == ASSUME TypeInv, Channel PROVE TypeInv'
<1>1. UNCHANGED <<lifeVars, file, textVars, page, edits>>
  BY DEF Channel, MakeVersion, VersionPath, ApproveVersion, ApproveRecord, PostCheck, PostRead,
         PostSend, PostFailed, PostRecord, RecordPosted, Measure, Channelling
<1>2. UNCHANGED halts
  BY DEF Channel, MakeVersion, VersionPath, ApproveVersion, ApproveRecord, PostCheck, PostRead,
         PostSend, PostFailed, PostRecord, RecordPosted, Measure
<1>3. Held' /\ PostTypes' /\ CommandTypes'
  <2> USE DEF TypeInv, JournalTypeOK, PostTypes, CommandTypes, Held, Posting, Command, postVars
  <2>1. CASE MakeVersion
    BY <2>1, <1>1, <1>2, JournalAssumption DEF MakeVersion, PubIds
  <2>2. CASE VersionPath
    BY <2>2, <1>1, <1>2 DEF VersionPath, Row
  <2>3. CASE ApproveVersion
    BY <2>3, <1>1, <1>2 DEF ApproveVersion, Row
  <2>4. CASE ApproveRecord
    <3>1. pub.n \in PubIds
      BY <2>4 DEF ApproveRecord, PubIds
    <3> QED
      BY <3>1, <2>4, <1>1, <1>2 DEF ApproveRecord
  <2>5. CASE PostCheck
    BY <2>5, <1>1, <1>2 DEF PostCheck
  <2>6. CASE PostRead
    BY <2>6, <1>1, <1>2 DEF PostRead
  <2>7. CASE PostSend
    BY <2>7, <1>1, <1>2, Acceptance DEF PostSend
  <2>8. CASE PostFailed
    BY <2>8, <1>1, <1>2, Acceptance DEF PostFailed
  <2>9. CASE PostRecord
    <3>1. pub.n \in PubIds /\ pub.status # "none"
      BY <2>9 DEF PostRecord, PubIds
    <3>2. /\ pub' = [pub EXCEPT !.status = "posted", !.sha = pub.sha]
          /\ posted' = posted \cup {pub.n}
          /\ UNCHANGED <<body, postOK, counted, posts>> /\ step' = "idle" /\ held' = None
      BY <2>9 DEF PostRecord, Row
    <3>3. pub'.n = pub.n /\ pub'.status = "posted" /\ pub'.sha = pub.sha
      BY <3>2
    <3>4. PostTypes'
      BY <3>1, <3>2, <3>3
    <3> QED
      BY <3>1, <3>2, <3>3, <3>4, <1>1, <1>2
  <2>10. CASE RecordPosted
    BY <2>10, <1>1, <1>2 DEF RecordPosted
  <2>11. CASE Measure
    BY <2>11, <1>1, <1>2 DEF Measure
  <2> QED
    BY <2>1, <2>2, <2>3, <2>4, <2>5, <2>6, <2>7, <2>8, <2>9, <2>10, <2>11 DEF Channel
<1>4. LifeTypes' /\ TextTypes'
  BY <1>1 DEF TypeInv, JournalTypeOK, LifeTypes, TextTypes, lifeVars, textVars
<1> QED
  BY <1>3, <1>4 DEF TypeInv, JournalTypeOK

LEMMA TypesOthers == ASSUME TypeInv, Edit \/ Halt PROVE TypeInv'
<1> USE DEF TypeInv, JournalTypeOK
<1>1. CASE Edit
  <2>1. UNCHANGED <<lifeVars, textVars, page, postVars, step, held, halts>>
    BY <1>1 DEF Edit
  <2>2. edits' \in 0..EditBound
    BY <1>1, JournalAssumption DEF Edit, CommandTypes
  <2>3. file' \in Text /\ body' \in Body \cup {None} /\ (pub.n # 0 => body' \in Body)
    BY <1>1 DEF Edit, TextTypes, PostTypes, Held
  <2>4. LifeTypes' /\ TextTypes'
    BY <2>1, <2>3 DEF LifeTypes, TextTypes, lifeVars, textVars
  <2>5. PostTypes' /\ CommandTypes' /\ Held'
    BY <2>1, <2>2, <2>3 DEF PostTypes, CommandTypes, Held, Posting, postVars
  <2> QED
    BY <2>4, <2>5
<1>2. CASE Halt
  <2>1. UNCHANGED <<lifeVars, file, textVars, page, body, postVars, edits>>
    BY <1>2 DEF Halt, Channelling
  <2>2. halts' \in 0..HaltBound /\ step' = "idle" /\ held' = None
    BY <1>2, JournalAssumption DEF Halt, Command, CommandTypes
  <2>3. LifeTypes' /\ TextTypes'
    BY <2>1 DEF LifeTypes, TextTypes, lifeVars, textVars
  <2>4. PostTypes' /\ CommandTypes' /\ Held'
    BY <2>1, <2>2 DEF PostTypes, CommandTypes, Held, Posting, postVars
  <2> QED
    BY <2>3, <2>4
<1> QED
  BY <1>1, <1>2

LEMMA TypesStep == TypeInv /\ [JournalNext]_jvars => TypeInv'
<1> SUFFICES ASSUME TypeInv, [JournalNext]_jvars PROVE TypeInv'
  OBVIOUS
<1>1. CASE JournalNext
  BY <1>1, TypesLife, TypesVersions, TypesExport, TypesChannel, TypesOthers DEF JournalNext
<1>2. CASE UNCHANGED jvars
  <2>1. UNCHANGED <<lifeVars, textVars, postVars>> /\ UNCHANGED <<file, page, body, step, held, edits, halts>>
    BY <1>2 DEF jvars
  <2>2. LifeTypes' /\ TextTypes'
    BY <2>1 DEF TypeInv, JournalTypeOK, LifeTypes, TextTypes, lifeVars, textVars
  <2>3. PostTypes' /\ CommandTypes' /\ Held'
    BY <2>1 DEF TypeInv, JournalTypeOK, PostTypes, CommandTypes, Held, Posting, postVars
  <2> QED
    BY <2>2, <2>3 DEF TypeInv, JournalTypeOK
<1> QED
  BY <1>1, <1>2

(* The types, with what a command may rely on at each of its steps.         *)
THEOREM JournalTypesInvariant == JournalSpec => []TypeInv
<1>1. JournalInit => TypeInv
  BY TypesInit
<1>2. TypeInv /\ [JournalNext]_jvars => TypeInv'
  BY TypesStep
<1> QED
  BY <1>1, <1>2, PTL DEF JournalSpec

(* Every variable keeps its type (the journal's schema and its commands).    *)
THEOREM JournalTypes == JournalSpec => []JournalTypeOK
<1>1. TypeInv => JournalTypeOK
  BY DEF TypeInv
<1> QED
  BY <1>1, JournalTypesInvariant, PTL

----------------------------------------------------------------------------

(* A platform that honours the key keeps one post, however often it is sent. *)
LEMMA Once ==
    ASSUME TypeInv, OnePostPerVersion, Keyed, step = "post-send"
    PROVE  \A n \in PubIds : Len(Accepted(pub.n, held)[n]) <= 1
<1>1. held \in Body /\ pub.n \in PubIds /\ posts \in [PubIds -> Seq(Body)]
  BY DEF TypeInv, JournalTypeOK, PostTypes, Held, Posting, PubIds
<1>2. Len(Append(<<>>, held)) = 1
  <2>1. <<>> \in Seq(Body)
    OBVIOUS
  <2> QED
    BY <1>1, <2>1
<1> SUFFICES ASSUME NEW n \in PubIds PROVE Len(Accepted(pub.n, held)[n]) <= 1
  OBVIOUS
<1>3. CASE n = pub.n /\ posts[n] = <<>>
  <2>1. Accepted(pub.n, held)[n] = Append(<<>>, held)
    BY <1>1, <1>3 DEF Accepted
  <2> QED
    BY <2>1, <1>2
<1>4. CASE ~(n = pub.n /\ posts[n] = <<>>)
  <2>1. Accepted(pub.n, held)[n] = posts[n]
    BY <1>1, <1>4 DEF Accepted
  <2> QED
    BY <2>1 DEF OnePostPerVersion
<1> QED
  BY <1>3, <1>4

(* On a channel that takes an idempotency key, no loss of an answer, no       *)
(* crash and no repetition posts a version twice (channels.py, post).        *)
THEOREM PostedOnce == ASSUME Keyed PROVE JournalSpec => []OnePostPerVersion
<1>1. JournalInit => OnePostPerVersion
  <2>1. Len(<<>>) = 0
    OBVIOUS
  <2>2. JournalInit => posts = [n \in PubIds |-> <<>>]
    BY DEF JournalInit, PubIds
  <2>3. ASSUME posts = [n \in PubIds |-> <<>>], NEW n \in PubIds PROVE Len(posts[n]) <= 1
    BY <2>1, <2>3
  <2> QED
    BY <2>2, <2>3 DEF OnePostPerVersion
<1>2. TypeInv /\ OnePostPerVersion /\ [JournalNext]_jvars => OnePostPerVersion'
  <2> SUFFICES ASSUME TypeInv, OnePostPerVersion, [JournalNext]_jvars PROVE OnePostPerVersion'
    OBVIOUS
  <2>1. CASE PostSend \/ PostFailed
    <3>1. step = "post-send" /\ posts' \in {posts, Accepted(pub.n, held)}
      BY <2>1 DEF PostSend, PostFailed
    <3> QED
      BY <3>1, Once DEF OnePostPerVersion
  <2>2. CASE Channel /\ ~(PostSend \/ PostFailed)
    <3>1. posts' = posts
      BY <2>2 DEF Channel, MakeVersion, VersionPath, ApproveVersion, ApproveRecord, PostCheck, PostRead,
         PostRecord, RecordPosted, Measure, postVars
    <3> QED
      BY <3>1 DEF OnePostPerVersion
  <2>3. CASE Life \/ Versions \/ Export \/ Edit \/ Halt \/ UNCHANGED jvars
    <3>1. posts' = posts
      <4>1. CASE Life
        BY <4>1 DEF Life, Advance, StepBack, Park, Resume, Abandon, Retract, Move, SetBrief, Plan,
           RunExperiment, Answer, Decide, Lab, postVars
      <4>2. CASE Versions
        BY <4>2 DEF Versions, Save, RunChecks, ApproveReview, ApprovePublish, FreezeText, Verify, Expire,
           Revise, postVars
      <4>3. CASE Export
        BY <4>3 DEF Export, ExportCheck, ExportRead, ExportHash, ExportWrite, Shipping, postVars
      <4>4. CASE Edit \/ Halt \/ UNCHANGED jvars
        BY <4>4 DEF Edit, Halt, jvars, postVars
      <4> QED
        BY <2>3, <4>1, <4>2, <4>3, <4>4
    <3> QED
      BY <3>1 DEF OnePostPerVersion
  <2> QED
    BY <2>1, <2>2, <2>3 DEF JournalNext
<1> QED
  BY <1>1, <1>2, JournalTypesInvariant, PTL DEF JournalSpec

----------------------------------------------------------------------------
(* What the public reads was approved, unless the editor writes in an instant *)
(* between two readings that the code takes for one.                         *)

(* The page is read once for its text and then hashed: a text that is not the *)
(* saved version takes the editor one write to be read, a second to be missed *)
(* by the hash, and a third to be missed by the last look at the file.       *)
PageHeld ==
    /\ step \in {"export-read", "export-hash", "export-write"} =>
          "checks" \in vetted /\ permit.status # "none" /\ permit.evidence = evidence
    /\ step = "export-read" /\ file # rev => edits >= 1
    /\ step = "export-hash" =>
          /\ "export-hash" \notin EditDuring => file = held
          /\ held # rev => edits >= 1
          /\ held # rev /\ file # held => edits >= 2
    /\ step = "export-write" =>
          /\ "export-hash" \notin EditDuring => held = rev
          /\ held # rev => edits >= 2
          /\ held # rev /\ file = held => edits >= 3
PostHeld ==
    /\ step \in {"post-read", "post-send", "post-record"} => pub.n \in postOK
    /\ step = "post-read" => body = pub.sha
    /\ step = "post-send" => held = pub.sha
PublicInv == PageHeld /\ PostHeld

LEMMA PublicLife ==
    ASSUME PublicInv, Life PROVE PublicInv' /\ page' = page /\ posts' = posts
<1>1. UNCHANGED <<file, textVars, page, body, postVars, step, held, edits>>
  BY DEF Life, Advance, StepBack, Park, Resume, Abandon, Retract, Move, SetBrief, Plan,
         RunExperiment, Answer, Decide, Lab
<1> QED
  BY <1>1 DEF PublicInv, PageHeld, PostHeld, textVars, postVars

LEMMA PublicVersions ==
    ASSUME TypeInv, PublicInv, Versions PROVE PublicInv' /\ page' = page /\ posts' = posts
<1>1. UNCHANGED <<file, page, body, postVars, step, held, edits>>
  BY DEF Versions, Save, RunChecks, ApproveReview, ApprovePublish, FreezeText, Verify, Expire, Revise
<1>2. CASE step = "idle"
  BY <1>1, <1>2 DEF PublicInv, PageHeld, PostHeld, postVars
<1>3. CASE Expire
  <2>1. /\ UNCHANGED <<rev, vetted, evidence>>
        /\ permit'.status # "none" /\ permit'.evidence = permit.evidence
    BY <1>3 DEF Expire, TypeInv, JournalTypeOK, TextTypes
  <2> QED
    BY <1>1, <2>1 DEF PublicInv, PageHeld, PostHeld, postVars
<1> QED
  BY <1>2, <1>3 DEF Versions, Save, RunChecks, ApproveReview, ApprovePublish, FreezeText, Verify
       , PublicInv, PageHeld, PostHeld, postVars, Revise

(* The export commits the saved version. *)
LEMMA PublicExport ==
    ASSUME EditBound <= 2 \/ "export-hash" \notin EditDuring, TypeInv, PublicInv, Export
    PROVE  /\ PublicInv' /\ posts' = posts
           /\ page' # page => /\ page' = rev /\ "checks" \in vetted
                              /\ permit.status # "none" /\ permit.evidence = evidence
<1>1. UNCHANGED <<file, textVars, body, postVars, edits>>
  BY DEF Export, ExportCheck, ExportRead, ExportHash, ExportWrite, Shipping
<1>2. edits \in Nat /\ edits <= EditBound /\ EditBound \in Nat
  BY JournalAssumption DEF TypeInv, JournalTypeOK, CommandTypes
<1> USE DEF PublicInv, PageHeld, PostHeld, textVars, postVars, Command
<1>3. CASE ExportCheck
  BY <1>1, <1>3 DEF ExportCheck, PermitHolds, Saved
<1>4. CASE ExportRead
  <2>1. step = "export-read" /\ step' = "export-hash" /\ held' = file /\ page' = page
    BY <1>4 DEF ExportRead
  <2> QED
    BY <1>1, <1>2, <2>1
<1>5. CASE ExportHash
  <2>1. /\ step = "export-hash" /\ page' = page
        /\ \/ step' = "export-write" /\ held' = held /\ file = rev
           \/ step' = "idle"
    BY <1>5 DEF ExportHash, Saved
  <2>2. CASE step' = "idle"
    BY <1>1, <2>1, <2>2
  <2>3. CASE step' = "export-write" /\ held' = held /\ file = rev
    BY <1>1, <1>2, <2>1, <2>3
  <2> QED
    BY <2>1, <2>2, <2>3
<1>6. CASE ExportWrite
  <2>1. step = "export-write" /\ step' = "idle" /\ (page' # page => page' = held /\ file = held)
    BY <1>6 DEF ExportWrite
  <2>2. page' # page => held = rev
    BY <1>2, <2>1
  <2> QED
    BY <1>1, <2>1, <2>2
<1> QED
  BY <1>3, <1>4, <1>5, <1>6 DEF Export

(* A channel is given the fingerprinted text. *)
LEMMA PublicChannel ==
    ASSUME TypeInv, PublicInv, Channel
    PROVE  /\ PublicInv' /\ page' = page
           /\ \A n \in PubIds : posts'[n] # posts[n] =>
                 n \in postOK /\ posts'[n] = Append(posts[n], pub.sha)
<1>1. UNCHANGED <<file, textVars, page, edits>>
  BY DEF Channel, MakeVersion, VersionPath, ApproveVersion, ApproveRecord, PostCheck, PostRead,
         PostSend, PostFailed, PostRecord, RecordPosted, Measure, Channelling
<1> USE DEF PublicInv, PageHeld, PostHeld, textVars, postVars, Command
<1>2. CASE MakeVersion \/ VersionPath \/ ApproveVersion \/ ApproveRecord
  <2>1. step' \in {"variant-path", "approve-record", "idle"} /\ posts' = posts
    BY <1>2 DEF MakeVersion, VersionPath, ApproveVersion, ApproveRecord
  <2> QED
    BY <1>1, <2>1
<1>3. CASE PostCheck \/ PostRead
  <2>1. UNCHANGED <<body, pub, postOK, posts>>
    BY <1>3 DEF PostCheck, PostRead
  <2>2. \/ step' = "post-read" /\ pub.n \in postOK /\ body = pub.sha
        \/ step = "post-read" /\ step' = "post-send" /\ held' = body
    BY <1>3 DEF PostCheck, PostRead
  <2> QED
    BY <1>1, <2>1, <2>2
<1>4. CASE PostSend \/ PostFailed
  <2>1. /\ UNCHANGED <<body, pub, postOK>> /\ step = "post-send"
        /\ step' \in {"post-record", "idle"}
        /\ posts' \in {posts, Accepted(pub.n, held)}
    BY <1>4 DEF PostSend, PostFailed
  <2>2. pub.n \in postOK /\ held = pub.sha
    BY <2>1
  <2>3. \A n \in PubIds : posts'[n] # posts[n] =>
            n = pub.n /\ posts'[n] = Append(posts[n], held)
    <3>1. posts \in [PubIds -> Seq(Body)]
      BY DEF TypeInv, JournalTypeOK, PostTypes
    <3> QED
      BY <2>1, <3>1 DEF Accepted
  <2> QED
    BY <1>1, <2>1, <2>2, <2>3
<1>5. CASE PostRecord
  BY <1>1, <1>5 DEF PostRecord
<1>6. CASE RecordPosted \/ Measure
  BY <1>1, <1>6 DEF RecordPosted, Measure
<1> QED
  BY <1>2, <1>3, <1>4, <1>5, <1>6 DEF Channel

LEMMA PublicOthers ==
    ASSUME "post-read" \notin EditDuring, TypeInv, PublicInv, Edit \/ Halt
    PROVE  PublicInv' /\ page' = page /\ posts' = posts
<1> USE DEF PublicInv, PageHeld, PostHeld, textVars, postVars, Command
<1>1. CASE Edit
  <2>1. /\ step \in EditDuring /\ edits' = edits + 1 /\ edits \in Nat
        /\ UNCHANGED <<textVars, page, postVars, step, held>>
    BY <1>1 DEF Edit, TypeInv, JournalTypeOK, CommandTypes
  <2> QED
    BY <2>1
<1>2. CASE Halt
  BY <1>2 DEF Halt, Channelling
<1> QED
  BY <1>1, <1>2

(* What is on the site is the saved version as it was approved for           *)
(* publication, and what is on a channel is the text a person approved, for   *)
(* any texts, commands, crashes and writes of an editor, but for the instant  *)
(* between `post`'s two readings of its file, and three writes within one     *)
(* export (publish.py, export; channels.py, post).                           *)
THEOREM PublicWasApproved ==
    "post-read" \notin EditDuring /\ (EditBound <= 2 \/ "export-hash" \notin EditDuring)
        => (JournalSpec => PublicIsApproved)
<1> SUFFICES ASSUME "post-read" \notin EditDuring,
                    EditBound <= 2 \/ "export-hash" \notin EditDuring
             PROVE  JournalSpec => PublicIsApproved
  OBVIOUS
<1> DEFINE Ship == page' # page => /\ page' = rev /\ "checks" \in vetted
                                   /\ permit.status # "none" /\ permit.evidence = evidence
           Send == \A n \in PubIds : posts'[n] # posts[n] =>
                      n \in postOK /\ posts'[n] = Append(posts[n], pub.sha)
<1>1. JournalInit => PublicInv
  BY DEF JournalInit, PublicInv, PageHeld, PostHeld
<1>2. TypeInv /\ PublicInv /\ [JournalNext]_jvars => PublicInv' /\ [Ship]_jvars /\ [Send]_jvars
  <2> SUFFICES ASSUME TypeInv, PublicInv, [JournalNext]_jvars
               PROVE  PublicInv' /\ [Ship]_jvars /\ [Send]_jvars
    OBVIOUS
  <2>1. CASE Life \/ Versions \/ Edit \/ Halt
    BY <2>1, PublicLife, PublicVersions, PublicOthers
  <2>2. CASE Export
    BY <2>2, PublicExport
  <2>3. CASE Channel
    BY <2>3, PublicChannel
  <2>4. CASE UNCHANGED jvars
    BY <2>4 DEF jvars, PublicInv, PageHeld, PostHeld, textVars, postVars
  <2> QED
    BY <2>1, <2>2, <2>3, <2>4 DEF JournalNext
<1>3. JournalSpec => [][Ship]_jvars /\ [][Send]_jvars
  <2> HIDE DEF Ship, Send
  <2> QED
    BY <1>1, <1>2, JournalTypesInvariant, PTL DEF JournalSpec
<1> QED
  BY <1>3 DEF PublicIsApproved, ShippedIsApproved, PostIsApproved
=============================================================================
