------------------------------ MODULE Settings ------------------------------
(***************************************************************************)
(* Settings that are kept in an ini file (fileConfig.cpp, state.cpp): a    *)
(* setter of the UI thread rewrites the file line by line into a second    *)
(* one and copies that back in place, then changes the cached value; a     *)
(* getter of either thread reads the file while the cache is empty.  The   *)
(* power may fail at any step.  A start empties the caches and fills the   *)
(* page of the settings, whose text fields call the setters at once.       *)
(*                                                                         *)
(* A line is a group header or a key with its value.  A power failure      *)
(* during the copy leaves a beginning of the file, whose last line may be  *)
(* cut: such a line is not read, and what is written next is glued to it.  *)
(***************************************************************************)
EXTENDS Integers, Sequences, SequencesExt, FiniteSetsExt

CONSTANTS
  Groups, Keys,  \* names; a key may stand in several groups
  Entries,       \* the settings of the program: pairs of a group and a key
  Values,        \* values the operator chooses, not 0
  MaxLines,      \* bound: lines of the file as it is delivered
  MaxSets        \* bound: settings changed

\* No two settings of the program have their key in common (state.cpp 165-287).
ASSUME SettingsAssumption ==
  /\ "" \notin Groups \cup Keys /\ 0 \notin Values
  /\ Entries \subseteq Groups \X Keys
  /\ \A d, e \in Entries : d[2] = e[2] => d = e
  /\ MaxLines \in Nat /\ MaxSets \in Nat

VARIABLES
  file, fileTmp,     \* the file and "file~"
  saved,         \* what each setting was set to last, 0 when it never was
  cache,         \* g_iPollingTime and its like, 0 when not yet known
  ui,            \* what the UI thread does: [pc, entry, value]
  fileMonitor,       \* the getter of monitorThread: [entry, value] when it has read
  unopened,      \* settings the page has still to be filled with
  sets,          \* settings changed so far
  fileDamaged,       \* a copy was cut short
  overtaken      \* settings changed since the getter that runs or ran last read

damage == <<fileDamaged, overtaken>>
settingsVars == <<file, fileTmp, saved, cache, ui, fileMonitor, unopened, sets, damage>>

Header(g) == [group |-> g, key |-> "", value |-> 0]
Line(k, v) == [group |-> "", key |-> k, value |-> v]
CutLine == [group |-> "", key |-> "", value |-> 0]
Lines == {Header(g) : g \in Groups} \cup {Line(k, v) : k \in Keys, v \in Values}
           \cup {CutLine}

UiIdle == [pc |-> "idle", entry |-> <<"", "">>, value |-> 0]
NoRead == [entry |-> <<"", "">>, value |-> 0]

SettingsTypeOK ==
  /\ file \in Seq(Lines) /\ fileTmp \in Seq(Lines)
  /\ saved \in [Entries -> Values \cup {0}] /\ cache \in [Entries -> Values \cup {0}]
  /\ ui \in {UiIdle} \cup [pc : {"rewrite", "truncate", "copy", "cache"},
                         entry : Entries, value : Values]
  /\ fileMonitor \in {NoRead} \cup [entry : Entries, value : Values]
  /\ unopened \subseteq Entries /\ sets \in 0..MaxSets /\ fileDamaged \in BOOLEAN
  /\ overtaken \subseteq Entries

\* A file as the train builder delivers it: groups with some of their keys,
\* no group twice.
Delivered ==
  {f \in SeqOf(Lines \ {CutLine}, MaxLines) :
     /\ f # <<>> => f[1].group # ""
     /\ \A i, j \in DOMAIN f : f[i] = f[j] /\ f[i].group # "" => i = j}

-----------------------------------------------------------------------------
(* ReadParam: the key is looked for from the header of its group on, to    *)
(* the end of the file.                                                    *)

FirstAfter(f, from, P(_)) ==
  LET hits == {i \in from..Len(f) : P(f[i])}
  IN IF hits = {} THEN 0 ELSE Min(hits)
HeaderOf(f, g) == FirstAfter(f, 1, LAMBDA l : l.group = g)

LineOf(f, e) ==
  IF HeaderOf(f, e[1]) = 0 THEN 0
  ELSE FirstAfter(f, HeaderOf(f, e[1]) + 1, LAMBDA l : l.key = e[2])
ReadParam(f, e) == IF LineOf(f, e) = 0 THEN 0 ELSE f[LineOf(f, e)].value

-----------------------------------------------------------------------------
(* ModifyParam.                                                            *)

\* A last line without its end takes in what is written next.
Glue(f, new) ==
  IF f # <<>> /\ new # <<>> /\ Last(f) = CutLine THEN f \o Tail(new) ELSE f \o new

Change(f, e, v) == [f EXCEPT ![LineOf(f, e)] = Line(e[2], v)]
\* Mutant: the header of the group is not added with its first key.
AddBare(f, e, v) == Glue(f, <<Line(e[2], v)>>)
\* The key goes to the end of the file, behind whatever group is last.
Add(f, e, v) ==
  Glue(f, IF HeaderOf(f, e[1]) = 0 THEN <<Header(e[1]), Line(e[2], v)>> ELSE <<Line(e[2], v)>>)
Modified(f, e, v) == IF LineOf(f, e) # 0 THEN Change(f, e, v) ELSE Add(f, e, v)

CutOff(f) == Prefixes(f) \cup {Append(p, CutLine) : p \in Prefixes(f) \ {f}}

SettingsInit ==
  /\ file \in Delivered /\ fileTmp = <<>>
  /\ saved = [e \in Entries |-> ReadParam(file, e)]
  /\ cache = [e \in Entries |-> 0]
  /\ unopened = Entries
  /\ ui = UiIdle /\ fileMonitor = NoRead /\ sets = 0 /\ fileDamaged = FALSE
  /\ overtaken = {}

Goto(l) == ui' = [ui EXCEPT !.pc = l]

\* A value that is not above 0 is refused before.
Set(e, v) ==
  /\ ui = UiIdle /\ unopened = {} /\ sets < MaxSets
  /\ ui' = [pc |-> "rewrite", entry |-> e, value |-> v] /\ sets' = sets + 1
  /\ UNCHANGED <<file, fileTmp, saved, cache, fileMonitor, unopened, damage>>

\* The constructor of the page: the getter, then the text it shows is set.
Open(e) ==
  /\ ui = UiIdle /\ e \in unopened /\ unopened' = unopened \ {e}
  /\ cache' = [cache EXCEPT ![e] = ReadParam(file, e)]
  /\ ui' = IF cache'[e] = 0 THEN UiIdle ELSE [pc |-> "rewrite", entry |-> e, value |-> cache'[e]]
  /\ UNCHANGED <<file, fileTmp, saved, fileMonitor, sets, damage>>

\* Mutant: the setter that fails changes the cache.
OpenFailsCached ==
  /\ ui.pc = "rewrite" /\ Goto("cache")
  /\ UNCHANGED <<file, fileTmp, saved, cache, fileMonitor, unopened, sets, damage>>

\* One of the two files cannot be opened: the setter returns -1.
OpenFails ==
  /\ ui.pc = "rewrite" /\ ui' = UiIdle
  /\ UNCHANGED <<file, fileTmp, saved, cache, fileMonitor, unopened, sets, damage>>

Rewrite ==
  /\ ui.pc = "rewrite" /\ Goto("truncate")
  /\ fileTmp' = Modified(file, ui.entry, ui.value)
  /\ UNCHANGED <<file, saved, cache, fileMonitor, unopened, sets, damage>>

CopyOpen ==
  /\ ui.pc = "truncate" /\ Goto("copy")
  /\ file' = <<>>
  /\ UNCHANGED <<fileTmp, saved, cache, fileMonitor, unopened, sets, damage>>

CopyFile ==
  /\ ui.pc = "copy" /\ Goto("cache")
  /\ file' = fileTmp /\ saved' = [saved EXCEPT ![ui.entry] = ui.value]
  /\ UNCHANGED <<fileTmp, cache, fileMonitor, unopened, sets, damage>>

\* The result of CopyFile is not looked at.
CopyFails ==
  /\ \/ ui.pc = "truncate" /\ UNCHANGED file
     \/ ui.pc = "copy" /\ file' \in CutOff(fileTmp)
  /\ Goto("cache") /\ fileDamaged' = TRUE
  /\ UNCHANGED <<fileTmp, saved, cache, fileMonitor, unopened, sets, overtaken>>

SetCache ==
  /\ ui.pc = "cache" /\ ui' = UiIdle
  /\ cache' = [cache EXCEPT ![ui.entry] = ui.value]
  /\ overtaken' = IF fileMonitor.entry = ui.entry /\ fileMonitor.value # ui.value
                  THEN overtaken \cup {ui.entry} ELSE overtaken \ {ui.entry}
  /\ UNCHANGED <<file, fileTmp, saved, fileMonitor, unopened, sets, fileDamaged>>

-----------------------------------------------------------------------------
(* The getter of monitorThread, and the power.                             *)

\* monitorThread starts with the login; it may read while a setter copies.
MonitorRead(e) ==
  /\ unopened = {} /\ fileMonitor = NoRead /\ cache[e] = 0 /\ ReadParam(file, e) # 0
  /\ fileMonitor' = [entry |-> e, value |-> ReadParam(file, e)]
  /\ UNCHANGED <<file, fileTmp, saved, cache, ui, unopened, sets, damage>>

MonitorKeep ==
  /\ fileMonitor # NoRead /\ fileMonitor' = NoRead
  /\ cache' = [cache EXCEPT ![fileMonitor.entry] = fileMonitor.value]
  /\ UNCHANGED <<file, fileTmp, saved, ui, unopened, sets, damage>>

PowerOn ==
  /\ cache' = [e \in Entries |-> 0] /\ ui' = UiIdle /\ fileMonitor' = NoRead
  /\ IF ui.pc = "copy"
     THEN file' \in CutOff(fileTmp) /\ fileDamaged' = TRUE
     ELSE UNCHANGED <<file, fileDamaged>>
  /\ unopened' = Entries /\ overtaken' = {}
  /\ UNCHANGED <<fileTmp, saved, sets>>

ModifyParam == OpenFails \/ Rewrite \/ CopyOpen \/ CopyFile \/ CopyFails
Setter == (\E e \in Entries, v \in Values : Set(e, v)) \/ ModifyParam \/ SetCache
Getter == (\E e \in Entries : Open(e) \/ MonitorRead(e)) \/ MonitorKeep
SettingsNext == Setter \/ Getter \/ PowerOn
SettingsSpec == SettingsInit /\ [][SettingsNext]_settingsVars
-----------------------------------------------------------------------------
(* Properties.                                                             *)

\* Unless a copy was interrupted, each setting reads as it was set last or
\* as it was delivered, whatever else was set and wherever a power failure
\* hit; a setting that was not there is found again in its group
\* (fileConfig.cpp 65-188).
ReadsBack ==
  ui.pc # "copy" /\ ~fileDamaged => \A e \in Entries : ReadParam(file, e) = saved[e]

\* What the program uses is what the file holds, so a restart changes
\* nothing: a setter that fails leaves both, one that succeeds changes both,
\* and a getter that meets a file half copied keeps nothing of it
\* (state.cpp 195-262).  The exception is a setting that was changed while
\* monitorThread had read it and not yet kept it: the older value comes back.
CacheIsSaved ==
  ui = UiIdle /\ ~fileDamaged
    => \A e \in Entries : cache[e] \in {0, saved[e]} \/ e \in overtaken
=============================================================================
