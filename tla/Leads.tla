------------------------------- MODULE Leads -------------------------------
(***************************************************************************)
(* The leads: posts of hiring rooms that the worker stored, scored without *)
(* a request to their site, and adverts of job boards, in one archive; the *)
(* people who write down what came of them; and the two files that hand    *)
(* them over, leads.csv and the buyer brief.                               *)
(* src/python/jester/signals/from_archive.py, leads.py, brief.py,          *)
(* src/python/jester/signals/__init__.py, console/api_signals.py, cli.py   *)
(***************************************************************************)
EXTENDS Naturals, FiniteSets, Sequences

CONSTANTS RoomPosts,   \* posts of the rooms with posts_only, by their own id
          BoardPosts,  \* adverts of the job boards
          CompanyOf,   \* the company a board's advert names
          Says,        \* what a post may say
          Misshapen,   \* what cannot be an advert: a seller, a question, a gig
          Buying,      \* what is classified as a buyer's
          Practising,  \* what is classified as a practitioner's
          Routed,      \* an excerpt with a route to the company in it
          Scorers,     \* "scheduled" and "console" run the job boards, then the rooms;
                       \* "shell" is signals from-archive: the rooms, then leads.csv
          Clerks,      \* each runs `signals leads`
          People,
          Written,     \* the outcomes they write
          NoLead, Unread,
          LeadEvents, ScoreBound, SheetBound, MarkBound

LeadPosts == RoomPosts \cup BoardPosts
Companies == {CompanyOf[x] : x \in BoardPosts}

ASSUME LeadsAssumption ==
    /\ RoomPosts \cap BoardPosts = {} /\ CompanyOf \in [BoardPosts -> Companies]
    /\ Misshapen \cup Buying \cup Practising \cup Routed \subseteq Says
    /\ Buying \cap Practising = {}
    /\ NoLead \notin [says : Says, outcome : 0..3, gone : BOOLEAN, unseen : BOOLEAN]
    /\ NoLead \notin Says \cup LeadPosts

\* OUTCOMES in their order, as far as they matter: nothing, picked, and what
\* came of a lead somebody wrote to, the furthest last.
Untouched == 0
Picked == 1
Stages == 0..3
ASSUME WrittenAssumption == Written \subseteq Stages

VARIABLES stored,   \* ingest_batch, newest last: a post and what that copy says
          board,    \* external: what an advert says on its board, NoLead when it is closed
          past,     \* posts older than MAX_AGE_DAYS
          lead,     \* problem_signal: a row for each post, NoLead without one
          scorer,   \* where a scorer is, the rows it has to write, the row it read first
          marking,     \* what a person is about to write, and on which post
          sheet,    \* the rows a writer of leads.csv gathered, Unread before it did
          opened,   \* the writers that have the file open
          leadsCsv, \* the rows in leads.csv
          listed,   \* the rows a brief read, Unread when none is being made
          brief,    \* the companies of the brief, each with its outcome
          said,     \* a ghost: what a person last wrote of a post, while its row lives
          happenings, scores, sheets, marks

leadBounds == <<happenings, scores, sheets, marks>>
leadFiles == <<sheet, opened, leadsCsv, listed, brief>>
leadVars == <<stored, board, past, lead, scorer, marking, leadFiles, said, leadBounds>>

Nobody == [post |-> NoLead, outcome |-> Untouched]
AtRest == [at |-> "idle", batch |-> [x \in LeadPosts |-> NoLead], first |-> NoLead, was |-> FALSE]
Writers == Clerks \cup (Scorers \cap {"shell"})

LeadsInit ==
    /\ stored = <<>> /\ board \in [BoardPosts -> Says \cup {NoLead}] /\ past = {}
    /\ lead = [x \in LeadPosts |-> NoLead] /\ scorer = [s \in Scorers |-> AtRest]
    /\ marking = [h \in People |-> Nobody]
    /\ sheet = [w \in Writers |-> Unread] /\ opened = {} /\ leadsCsv = {} /\ listed = Unread
    /\ brief = {} /\ said = [x \in LeadPosts |-> Untouched]
    /\ happenings = 0 /\ scores = 0 /\ sheets = 0 /\ marks = 0

Happens == happenings < LeadEvents /\ happenings' = happenings + 1 /\ UNCHANGED <<scores, sheets, marks>>

-----------------------------------------------------------------------------
(* The rooms, the boards and the clock                                     *)

\* The worker reads a room every hour: one post is in many batches.
StorePost(x, t) ==
    /\ Happens
    /\ stored' = Append(stored, [post |-> x, says |-> t])
    /\ UNCHANGED <<board, past, lead, scorer, marking, leadFiles, said>>

PostAdvert(x, t) ==
    /\ Happens /\ board[x] # t /\ board' = [board EXCEPT ![x] = t]
    /\ UNCHANGED <<stored, past, lead, scorer, marking, leadFiles, said>>

GrowsOld(x) ==
    /\ Happens /\ x \notin past /\ past' = past \cup {x}
    /\ UNCHANGED <<stored, board, lead, scorer, marking, leadFiles, said>>

\* The retention window passes for the rows there are.
GoUnseen ==
    /\ Happens
    /\ lead' = [x \in LeadPosts |-> IF lead[x] = NoLead THEN NoLead ELSE [lead[x] EXCEPT !.unseen = TRUE]]
    /\ UNCHANGED <<stored, board, past, scorer, marking, leadFiles, said>>

-----------------------------------------------------------------------------
(* The scorers                                                             *)

Goes(s, v) == scorer' = [scorer EXCEPT ![s] = v]

\* A press in the console is refused while the scheduled task runs; nothing
\* refuses the task, or a command of the shell.
StartScorer(s) ==
    /\ scores < ScoreBound /\ scores' = scores + 1 /\ scorer[s].at = "idle"
    /\ s = "console" /\ "scheduled" \in Scorers => scorer["scheduled"].at = "idle"
    /\ Goes(s, [AtRest EXCEPT !.at = IF s = "shell" THEN "rooms" ELSE "boards"])
    /\ UNCHANGED <<stored, board, past, lead, marking, leadFiles, said, happenings, sheets, marks>>

\* The title tag and the headline of a room's post, before its prose.
NotAnAdvert(t) == t \in Misshapen

\* The rules, over the title and the text.
Audience(t) == IF t \in Buying THEN "buyer" ELSE IF t \in Practising THEN "practitioner" ELSE "none"

\* What is kept of a room's post: the shape decides, then the rules.
KeptOf(t) == IF NotAnAdvert(t) \/ Audience(t) = "none" THEN NoLead ELSE t

\* The newest copy of each stored post, and no other: its id is the post's
\* own, whatever batch it came in.
Copies(x) == {i \in DOMAIN stored : stored[i].post = x}
Newest(x) ==
    IF Copies(x) = {} THEN NoLead
    ELSE KeptOf(stored[CHOOSE i \in Copies(x) : \A j \in Copies(x) : j <= i].says)

\* The collector keeps what it sees, whoever it is for.
CollectBoards(s, X) ==
    /\ scorer[s].at = "boards" /\ X \subseteq {x \in BoardPosts : board[x] # NoLead}
    /\ Goes(s, [scorer[s] EXCEPT !.at = "peek-boards",
                   !.batch = [x \in LeadPosts |-> IF x \in X THEN board[x] ELSE NoLead]])
    /\ UNCHANGED <<stored, board, past, lead, marking, leadFiles, said, leadBounds>>

ScoreRooms(s) ==
    /\ scorer[s].at = "rooms"
    /\ Goes(s, [scorer[s] EXCEPT !.at = "peek-rooms",
                   !.batch = [x \in LeadPosts |-> IF x \in RoomPosts THEN Newest(x) ELSE NoLead]])
    /\ UNCHANGED <<stored, board, past, lead, marking, leadFiles, said, leadBounds>>

ToWrite(s) == {x \in LeadPosts : scorer[s].batch[x] # NoLead}
AfterWrite(at) == IF at = "peek-boards" THEN "write-boards" ELSE "write-rooms"

\* upsert reads its first row before its transaction opens.
PeekLead(s) ==
    /\ scorer[s].at \in {"peek-boards", "peek-rooms"}
    /\ \/ \E x \in ToWrite(s) : Goes(s, [scorer[s] EXCEPT !.at = AfterWrite(@), !.first = x, !.was = lead[x] # NoLead])
       \/ ToWrite(s) = {} /\ Goes(s, [scorer[s] EXCEPT !.at = AfterWrite(@)])
    /\ UNCHANGED <<stored, board, past, lead, marking, leadFiles, said, leadBounds>>

FreshLead(t) == [says |-> t, outcome |-> Untouched, gone |-> FALSE, unseen |-> FALSE]
RowExists(s, x) == IF x = scorer[s].first THEN scorer[s].was ELSE lead[x] # NoLead

\* An insert meets the row that came since, and the transaction goes with it.
InsertClashesMutant(s) == FALSE
InsertClashes(s) == scorer[s].first # NoLead /\ ~scorer[s].was /\ lead[scorer[s].first] # NoLead

\* The rows that are inserted, and those that are refreshed: all but what a
\* person wrote. One that vanished since it was read stays away.
WriteLeads(s) ==
    LET inserted == {x \in ToWrite(s) : ~RowExists(s, x)}
        refreshed == {x \in ToWrite(s) : RowExists(s, x) /\ lead[x] # NoLead} IN
    /\ scorer[s].at \in {"write-boards", "write-rooms"} /\ ~InsertClashes(s)
    /\ lead' = [x \in LeadPosts |->
                  IF x \in inserted THEN FreshLead(scorer[s].batch[x])
                  ELSE IF x \in refreshed
                    THEN [lead[x] EXCEPT !.says = scorer[s].batch[x], !.gone = FALSE, !.unseen = FALSE]
                  ELSE lead[x]]
    /\ said' = [x \in LeadPosts |-> IF x \in inserted /\ lead[x] = NoLead THEN Untouched ELSE said[x]]
    /\ Goes(s, IF scorer[s].at = "write-boards" THEN [scorer[s] EXCEPT !.at = "closing"]
               ELSE [AtRest EXCEPT !.at = IF s = "shell" THEN "hand" ELSE "idle"])
    /\ UNCHANGED <<stored, board, past, marking, leadFiles, leadBounds>>

\* mark_closed, after the boards: rows of adverts it did not see.
CloseAdverts(s, X) ==
    /\ scorer[s].at = "closing" /\ X \subseteq {x \in BoardPosts : lead[x] # NoLead} \ ToWrite(s)
    /\ lead' = [x \in LeadPosts |-> IF x \in X THEN [lead[x] EXCEPT !.gone = TRUE] ELSE lead[x]]
    /\ Goes(s, [AtRest EXCEPT !.at = "rooms"])
    /\ UNCHANGED <<stored, board, past, marking, leadFiles, said, leadBounds>>

\* A scorer ends between two commits: a kill, a locked database, a clash.
ScorerDies(s) ==
    /\ scorer[s].at # "idle" /\ s \in Writers => sheet[s] = Unread
    /\ Goes(s, AtRest)
    /\ UNCHANGED <<stored, board, past, lead, marking, leadFiles, said, leadBounds>>

-----------------------------------------------------------------------------
(* A person, and retention                                                 *)

\* set_outcome looks the record up, then writes: a record that is not there
\* is an error, one that goes in between is written nowhere.
FindLead(h, x, o) ==
    /\ marks < MarkBound /\ marks' = marks + 1 /\ marking[h] = Nobody /\ lead[x] # NoLead
    /\ marking' = [marking EXCEPT ![h] = [post |-> x, outcome |-> o]]
    /\ UNCHANGED <<stored, board, past, lead, scorer, leadFiles, said, happenings, scores, sheets>>

SaveOutcome(h) ==
    LET x == marking[h].post IN
    /\ marking[h] # Nobody /\ marking' = [marking EXCEPT ![h] = Nobody]
    /\ IF lead[x] = NoLead THEN UNCHANGED <<lead, said>>
       ELSE /\ lead' = [lead EXCEPT ![x].outcome = marking[h].outcome]
            /\ said' = [said EXCEPT ![x] = marking[h].outcome]
    /\ UNCHANGED <<stored, board, past, scorer, leadFiles, leadBounds>>

\* What is known of a record goes with it, what came of it too.
RetainLeads ==
    LET swept == {x \in LeadPosts : lead[x] # NoLead /\ lead[x].unseen} IN
    /\ swept # {}
    /\ lead' = [x \in LeadPosts |-> IF x \in swept THEN NoLead ELSE lead[x]]
    /\ UNCHANGED <<stored, board, past, scorer, marking, leadFiles, said, leadBounds>>

-----------------------------------------------------------------------------
(* The two files                                                           *)

IsBuyer(x) == lead[x] # NoLead /\ Audience(lead[x].says) = "buyer" /\ ~lead[x].gone
Workable(o) == o \in {Untouched, Picked}
\* In a room the reply is the route; a board's advert has to name one.
HasRoute(x) == x \in RoomPosts \/ lead[x].says \in Routed
Wanted(x, worked) == IsBuyer(x) /\ (worked \/ Workable(lead[x].outcome))
Gathered(worked) ==
    {[post |-> x, outcome |-> lead[x].outcome, said |-> said[x], asked |-> worked] :
        x \in {y \in LeadPosts \ past : Wanted(y, worked) /\ HasRoute(y)}}

\* `signals from-archive` writes the file after it scored the rooms.
AfterScoring(w, worked) == w = "shell" /\ scorer[w].at = "hand" /\ ~worked /\ UNCHANGED sheets

\* A writer reads all rows, then opens the file, which empties it, and
\* writes them.
GatherLeads(w, worked) ==
    /\ sheet[w] = Unread
    /\ \/ AfterScoring(w, worked)
       \/ w # "shell" /\ sheets < SheetBound /\ sheets' = sheets + 1
    /\ sheet' = [sheet EXCEPT ![w] = Gathered(worked)]
    /\ UNCHANGED <<stored, board, past, lead, scorer, marking, opened, leadsCsv, listed, brief,
                   said, happenings, scores, marks>>

OpenSheet(w) ==
    /\ sheet[w] # Unread /\ w \notin opened /\ opened' = opened \cup {w} /\ leadsCsv' = {}
    /\ UNCHANGED <<stored, board, past, lead, scorer, marking, sheet, listed, brief, said, leadBounds>>

\* The rows go over those of a writer that overlaps, whose last ones may
\* stay; a writer that is killed leaves a part.
WriteSheet(w, rows) ==
    /\ w \in opened /\ opened' = opened \ {w} /\ sheet' = [sheet EXCEPT ![w] = Unread]
    /\ rows \subseteq sheet[w] \cup leadsCsv /\ leadsCsv' = rows
    /\ IF w = "shell" THEN Goes(w, AtRest) ELSE UNCHANGED scorer
    /\ UNCHANGED <<stored, board, past, lead, marking, listed, brief, said, leadBounds>>

\* One row for a company: how far any of its recent adverts got. The rooms
\* are listed apart, and show no outcome.
Furthest(S) == CHOOSE o \in S : \A p \in S : p <= o
CompanyRow(c, rows) ==
    LET of == {r \in rows : CompanyOf[r.post] = c} IN
    [company |-> c, outcome |-> Furthest({r.outcome : r \in of}), said |-> Furthest({r.said : r \in of})]

ReadBrief ==
    /\ listed = Unread /\ sheets < SheetBound /\ sheets' = sheets + 1
    /\ LET rows == {[post |-> x, outcome |-> lead[x].outcome, said |-> said[x]] :
                       x \in {y \in BoardPosts \ past : IsBuyer(y)}}
       IN listed' = {CompanyRow(c, rows) : c \in {CompanyOf[r.post] : r \in rows}}
    /\ UNCHANGED <<stored, board, past, lead, scorer, marking, sheet, opened, leadsCsv, brief, said,
                   happenings, scores, marks>>

\* The page and the data beside it are written one after the other, and are
\* taken for one file here.
WriteBrief ==
    /\ listed # Unread /\ listed' = Unread /\ brief' = listed
    /\ UNCHANGED <<stored, board, past, lead, scorer, marking, sheet, opened, leadsCsv, said, leadBounds>>

LeadsNext ==
    \/ \E x \in RoomPosts, t \in Says : StorePost(x, t)
    \/ \E x \in BoardPosts, t \in Says \cup {NoLead} : PostAdvert(x, t)
    \/ \E x \in LeadPosts : GrowsOld(x)
    \/ GoUnseen
    \/ \E s \in Scorers : StartScorer(s)
    \/ \E s \in Scorers : \E X \in SUBSET BoardPosts : CollectBoards(s, X)
    \/ \E s \in Scorers : ScoreRooms(s)
    \/ \E s \in Scorers : PeekLead(s)
    \/ \E s \in Scorers : WriteLeads(s)
    \/ \E s \in Scorers : \E X \in SUBSET BoardPosts : CloseAdverts(s, X)
    \/ \E s \in Scorers : ScorerDies(s)
    \/ \E h \in People, x \in LeadPosts, o \in Written : FindLead(h, x, o)
    \/ \E h \in People : SaveOutcome(h)
    \/ RetainLeads
    \/ \E w \in Writers, worked \in BOOLEAN : GatherLeads(w, worked)
    \/ \E w \in Writers : OpenSheet(w)
    \/ \E w \in opened : \E rows \in SUBSET (sheet[w] \cup leadsCsv) : WriteSheet(w, rows)
    \/ ReadBrief
    \/ WriteBrief

LeadsSpec == LeadsInit /\ [][LeadsNext]_leadVars

-----------------------------------------------------------------------------
(* What must hold                                                          *)

LeadType ==
    /\ stored \in Seq([post : RoomPosts, says : Says])
    /\ board \in [BoardPosts -> Says \cup {NoLead}] /\ past \subseteq LeadPosts
    /\ lead \in [LeadPosts -> [says : Says, outcome : Stages, gone : BOOLEAN, unseen : BOOLEAN] \cup {NoLead}]
    /\ marking \in [People -> [post : LeadPosts, outcome : Stages] \cup {Nobody}]
    /\ said \in [LeadPosts -> Stages]
    /\ DOMAIN scorer = Scorers /\ DOMAIN sheet = Writers

\* A row handed over is as its person left it when it was read, and is not
\* one somebody has, unless those were asked for (gather).
HandedTrue(rows) == \A r \in rows : r.outcome = r.said /\ (r.asked \/ Workable(r.said))
PageTrue(rows) == \A r \in rows : r.outcome = r.said

\* Nobody is handed a lead that somebody has: while its record lives, no
\* refresh, whichever scorer it came from and whenever it read the row, takes
\* away what a person wrote; so no row of leads.csv was worked when the file's
\* rows were read, and the brief shows for a company how far it was then
\* (upsert leaves the outcome alone; gather: "Handing it over again is how two
\* people email the same company in the same week").
HandedOnce == HandedTrue(leadsCsv) /\ PageTrue(brief)

=============================================================================
