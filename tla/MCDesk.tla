------------------------------- MODULE MCDesk -------------------------------
(***************************************************************************)
(* The programs of the desk, over one instance each: a behaviour is of one *)
(* of them, and the others stay as they were at the start.                 *)
(***************************************************************************)
EXTENDS RunProcess, Edits, Llm, Corpus, Backup, Schedule, Budget, GroqChat, Themes, CsvExport,
            Settings, MCSchema, ChatTurn, Packs, TLC

CONSTANTS v0, m1, a, b, c, t1
(* Comments a and b say the same thing; a is in two batches, as overlapping  *)
(* workers may leave it.                                                     *)
OneThread == [x \in Comment |-> t1]
TextsOf == [x \in Comment |-> IF x = c THEN "other" ELSE "same"]
TwoBatches == <<{a, b}, {a, c}>>
DeclaredTasks == <<"cycle", "treat">>
OwnCommand == [t \in {"cycle", "treat"} |-> t]
AnySpec == CHOOSE s \in Specs : TRUE
SameActors == Permutations(Actor)
FirstLists == [f \in Profiles |-> {[name |-> <<"a", 1>>, url |-> "u1"]}]
FirstBounds == [f \in Profiles |-> [min |-> 1, max |-> 1, model |-> "m"]]
JobOrder == <<"extractor", "synthesizer", "critic">>
RolesOf(p) == IF p = "treat" THEN {"extractor", "synthesizer", "critic"} ELSE {"critic"}
ModelOf(r) == IF r = "extractor" THEN "small" ELSE "large"
(* Four chunks of three nuggets: the nugget q has two of them. *)
Owner == <<"p", "q", "r", "q">>
Edges == {{1, 2}, {3, 4}, {2, 3}}
ReadingOf(E) == [ch \in Chunks |-> {d \in Chunks \ {ch} : {ch, d} \in E}]
Found1 == ReadingOf({{1, 2}, {3, 4}})
Found == {Found1, ReadingOf(Edges)}
Confused == {ReadingOf({{1, 3}})}
TighterOnes == [tops \in Found \cup Confused |-> [ch \in Chunks |-> tops[ch] \cap Found1[ch]]]

VARIABLE part  \* the program this behaviour is of

\* What an initial state leaves open is open to the program that runs.
DeskInit ==
    /\ part \in {"run", "edits", "llm", "corpus", "backup", "schedule", "budget", "chat", "themes",
            "csv", "settings", "schema", "turn", "packs"}
    /\ RunInit
    /\ EditInit
    /\ part # "edits" => \A x \in DOMAIN current : current[x] = v0
    /\ LlmInit
    /\ CorpusInit
    /\ part # "corpus" => model = m1
    /\ BackupInit
    /\ ScheduleInit
    /\ part # "schedule" => desired \in [TaskNames -> {AnySpec}]
    /\ BudgetInit
    /\ ChatInit
    /\ ThemesInit
    /\ CsvInit
    /\ part # "csv" => target = Bare
    /\ SettingsInit
    /\ part # "settings" => listed = FirstLists /\ thresholds = FirstBounds
    /\ SchemaInit
    /\ TurnInit
    /\ part # "turn" => chatEnabled
    /\ PacksInit
    /\ part # "packs" => nuggetRows = {}

Others ==
    /\ IF part = "run" THEN TRUE ELSE UNCHANGED runVars
    /\ IF part = "edits" THEN TRUE ELSE UNCHANGED editVars
    /\ IF part = "llm" THEN TRUE ELSE UNCHANGED llmVars
    /\ IF part = "corpus" THEN TRUE ELSE UNCHANGED corpusVars
    /\ IF part = "backup" THEN TRUE ELSE UNCHANGED backupVars
    /\ IF part = "schedule" THEN TRUE ELSE UNCHANGED scheduleVars
    /\ IF part = "budget" THEN TRUE ELSE UNCHANGED budgetVars
    /\ IF part = "chat" THEN TRUE ELSE UNCHANGED chatVars
    /\ IF part = "themes" THEN TRUE ELSE UNCHANGED themeVars
    /\ IF part = "csv" THEN TRUE ELSE UNCHANGED csvVars
    /\ IF part = "settings" THEN TRUE ELSE UNCHANGED settingsVars
    /\ IF part = "schema" THEN TRUE ELSE UNCHANGED schemaVars
    /\ IF part = "turn" THEN TRUE ELSE UNCHANGED turnVars
    /\ IF part = "packs" THEN TRUE ELSE UNCHANGED packVars
    /\ UNCHANGED part

DeskNext ==
    /\ \/ part = "run" /\ RunNext
       \/ part = "edits" /\ EditNext
       \/ part = "llm" /\ LlmNext
       \/ part = "corpus" /\ CorpusNext
       \/ part = "backup" /\ BackupNext
       \/ part = "schedule" /\ ScheduleNext
       \/ part = "budget" /\ BudgetNext
       \/ part = "chat" /\ ChatNext
       \/ part = "themes" /\ ThemesNext
       \/ part = "csv" /\ CsvNext
       \/ part = "settings" /\ SettingsNext
       \/ part = "schema" /\ SchemaNext
       \/ part = "turn" /\ TurnNext
       \/ part = "packs" /\ PacksNext
    /\ Others

allVars == <<part, runVars, editVars, llmVars, corpusVars, backupVars, scheduleVars, budgetVars,
            chatVars, themeVars, csvVars, settingsVars, schemaVars, turnVars, packVars>>
DeskSpec == DeskInit /\ [][DeskNext]_allVars
=============================================================================
