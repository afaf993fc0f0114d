------------------------------ MODULE Settings ------------------------------
(***************************************************************************)
(* The console's edits of the source list and of the thresholds: each      *)
(* reads a file, changes it and replaces it whole, in the profile that is  *)
(* served and, but for a model, in its live mirror; two requests may do so *)
(* at once, and the console may be killed between two files.               *)
(* src/python/jester/console/api.py, config.py, sources.py                 *)
(***************************************************************************)
EXTENDS Naturals, FiniteSets

CONSTANTS Profiles,      \* config directories; the first of Mirrored is the one served
          Primary,
          Editors,       \* request threads of the console
          Urls, Stems,   \* addresses, and what a name is made from
          SuffixBound,   \* numbers a taken name is given
          Chars,         \* values of prefilter_min_chars and prefilter_max_chars
          ModelNames,
          SettingBound, SettingKills

ASSUME SettingsAssumption ==
    /\ Primary \in Profiles /\ Chars \subseteq Nat /\ ModelNames # {}
    /\ {SuffixBound, SettingBound, SettingKills} \subseteq Nat /\ SuffixBound > 0

VARIABLES listed,      \* per profile, the entries of sources.yaml
          thresholds,  \* per profile, thresholds.yaml: two bounds and the model block
          edit,        \* per thread: its request, the files still to write, what it read
          chosen,      \* ghost: the models named for a profile
          editsLeft

settingsVars == <<listed, thresholds, edit, chosen, editsLeft>>

NoEdit == [kind |-> "none", step |-> "idle", change |-> 0, paths |-> {}, read |-> 0]

SettingsInit ==
    /\ \E u \in Urls, n \in Stems : listed = [f \in Profiles |-> {[name |-> <<n, 1>>, url |-> u]}]
    /\ \E m \in [Profiles -> ModelNames], c, d \in Chars :
          /\ c <= d /\ thresholds = [f \in Profiles |-> [min |-> c, max |-> d, model |-> m[f]]]
          /\ chosen = [f \in Profiles |-> {m[f]}]
    /\ edit = [r \in Editors |-> NoEdit] /\ editsLeft = [edits |-> SettingBound, kills |-> SettingKills]

(* _mirror_paths: the served profile first, then the live one. *)
MirrorPaths == Profiles
NextPath(paths) == IF Primary \in paths THEN Primary ELSE CHOOSE f \in paths : TRUE

Settled(r) == edit' = [edit EXCEPT ![r] = NoEdit]
Goes(r, record) ==
    /\ edit[r].step = "idle" /\ editsLeft.edits > 0 /\ edit' = [edit EXCEPT ![r] = record]
    /\ editsLeft' = [editsLeft EXCEPT !.edits = @ - 1]

-----------------------------------------------------------------------------
(* The source list                                                         *)

UniqueNameMutant(entries, stem, skip) == {<<stem, 1>>}

(* unique_name: the name that is asked for, or the first number that is free;
   none when the last one is taken, and the edit is refused.                   *)
UniqueName(entries, stem, skip) ==
    LET taken == {e.name : e \in entries} \ {skip}
        free == {i \in 1..SuffixBound : <<stem, i>> \notin taken}
    IN  {<<stem, i>> : i \in {j \in free : \A k \in free : j <= k}}

Named(entries, name) == CHOOSE e \in entries : e.name = name

(* add_source: refused when the address is listed. *)
Added(entries, u, stem) ==
    IF \E e \in entries : e.url = u THEN {}
    ELSE {entries \cup {[name |-> new, url |-> u]} : new \in UniqueName(entries, stem, <<>>)}

(* update_source: another address, another name, or both; the address is not
   compared with those of the others.                                         *)
Updated(entries, name, u, stem) ==
    IF \A e \in entries : e.name # name THEN {}
    ELSE {(entries \ {Named(entries, name)}) \cup {[name |-> new, url |-> u]} :
             new \in {name} \cup UniqueName(entries, stem, name)}

Deleted(entries, name) ==
    IF \A e \in entries : e.name # name THEN {} ELSE {{e \in entries : e.name # name}}

(* The list is read and changed; what is refused writes nothing. *)
SourceEdit(r, result) ==
    /\ \E after \in result :
          Goes(r, [NoEdit EXCEPT !.kind = "sources", !.step = "write", !.paths = MirrorPaths,
                                 !.read = after])
    /\ UNCHANGED <<listed, thresholds, chosen>>
AddSource(r, u, stem) == SourceEdit(r, Added(listed[Primary], u, stem))
UpdateSource(r, name, u, stem) == SourceEdit(r, Updated(listed[Primary], name, u, stem))
DeleteSource(r, name) == SourceEdit(r, Deleted(listed[Primary], name))

(* _write_sources: the whole list, one file after the other. *)
SaveSources(r) ==
    /\ edit[r].kind = "sources" /\ edit[r].paths # {}
    /\ LET f == NextPath(edit[r].paths)
       IN  /\ listed' = [listed EXCEPT ![f] = edit[r].read]
           /\ IF edit[r].paths = {f} THEN Settled(r)
              ELSE edit' = [edit EXCEPT ![r].paths = @ \ {f}]
    /\ UNCHANGED <<thresholds, chosen, editsLeft>>

-----------------------------------------------------------------------------
(* The thresholds and the models                                           *)

Loads(t) == t.min <= t.max

(* A knob goes to every mirror, or to the one profile the request names; the
   models and the roles are never mirrored.                                   *)
UpdateThresholds(r, knob, value, paths) ==
    /\ paths = MirrorPaths \/ \E f \in Profiles : paths = {f}
    /\ Goes(r, [NoEdit EXCEPT !.kind = knob, !.step = "check", !.change = value, !.paths = paths])
    /\ UNCHANGED <<listed, thresholds, chosen>>
UpdateModels(r, m, f) ==
    /\ Goes(r, [NoEdit EXCEPT !.kind = "model", !.step = "edit", !.change = m, !.paths = {f}])
    /\ chosen' = [chosen EXCEPT ![f] = @ \cup {m}] /\ UNCHANGED <<listed, thresholds>>

(* save_thresholds: the file is loaded and the change checked against it; a
   refusal of one file ends the request, whatever it has written before.       *)
CheckPatch(r) ==
    /\ edit[r].step = "check"
    /\ LET now == thresholds[NextPath(edit[r].paths)]
       IN  IF Loads(now) /\ Loads([now EXCEPT ![edit[r].kind] = edit[r].change])
           THEN edit' = [edit EXCEPT ![r].step = "edit"] ELSE Settled(r)
    /\ UNCHANGED <<listed, thresholds, chosen, editsLeft>>

(* Its lines are read again, and the ones of the change rewritten in place. *)
Edited(lines, key, value) == [lines EXCEPT ![key] = value]
EditLines(r) ==
    /\ edit[r].step = "edit"
    /\ edit' = [edit EXCEPT ![r].step = "replace",
           ![r].read = Edited(thresholds[NextPath(edit[r].paths)], edit[r].kind, edit[r].change)]
    /\ UNCHANGED <<listed, thresholds, chosen, editsLeft>>

(* save_roles: the merged block must resolve before anything is written. *)
RolesRefused(r) ==
    /\ edit[r].kind = "model" /\ edit[r].step = "replace"
    /\ Settled(r) /\ UNCHANGED <<listed, thresholds, chosen, editsLeft>>

(* _atomic_write, and the file is loaded: what does not load is reported, and
   stays.                                                                      *)
AtomicWrite(r) ==
    /\ edit[r].step = "replace"
    /\ LET f == NextPath(edit[r].paths)
       IN  /\ thresholds' = [thresholds EXCEPT ![f] = edit[r].read]
           /\ IF edit[r].paths = {f} \/ ~Loads(edit[r].read) THEN Settled(r)
              ELSE edit' = [edit EXCEPT ![r].paths = @ \ {f}, ![r].step = "check"]
    /\ UNCHANGED <<listed, chosen, editsLeft>>

(* The console is killed with what its threads were at. *)
ConsoleKilled ==
    /\ editsLeft.kills > 0 /\ \E r \in Editors : edit[r] # NoEdit
    /\ editsLeft' = [editsLeft EXCEPT !.kills = @ - 1]
    /\ edit' = [r \in Editors |-> NoEdit] /\ UNCHANGED <<listed, thresholds, chosen>>

Names == Stems \X (1..SuffixBound)
SettingsNext ==
    \/ \E r \in Editors :
          \/ \E u \in Urls, stem \in Stems :
                AddSource(r, u, stem) \/ \E name \in Names : UpdateSource(r, name, u, stem)
          \/ \E name \in Names : DeleteSource(r, name)
          \/ SaveSources(r) \/ CheckPatch(r) \/ EditLines(r) \/ RolesRefused(r) \/ AtomicWrite(r)
          \/ \E knob \in {"min", "max"}, value \in Chars, paths \in SUBSET Profiles :
                UpdateThresholds(r, knob, value, paths)
          \/ \E m \in ModelNames, f \in Profiles : UpdateModels(r, m, f)
    \/ ConsoleKilled

SettingsSpec == SettingsInit /\ [][SettingsNext]_settingsVars

-----------------------------------------------------------------------------
(* What must hold                                                          *)

(* Whatever two requests interleave and wherever the console dies, no two
   entries of a source list share a name (the rotation of src/go keys what it
   knows of a source by it: two would be one stop), and the model block of a
   profile is one that was chosen for it: an edit that is mirrored does not
   carry the served profile's models into the live one.                       *)
ProfilesKeepTheirOwn ==
    \A f \in Profiles :
        /\ \A d, e \in listed[f] : d.name = e.name => d = e
        /\ thresholds[f].model \in chosen[f]
=============================================================================
