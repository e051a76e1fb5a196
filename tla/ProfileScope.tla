---------------------------- MODULE ProfileScope ----------------------------
(***************************************************************************)
(* Permission profiles (internal/permission) and the runs they narrow:     *)
(* files of rules, the marker of the active one, `cloudy profile`, and the *)
(* three callers of permission.Apply: the terminal UI (cmd/main.go,        *)
(* ui/tui/run.go), `cloudy ask` and the jobs of ChatOps (core/runner).     *)
(*                                                                         *)
(* What a file holds is a member of Rules, NoRules is the nil profile.  A  *)
(* rule names tools; the namespaces of a profile take the same way: Apply  *)
(* installs them in the hub of the registry that it filters.  A profile    *)
(* has no patterns of its own to mask by, or patterns that compile, or     *)
(* "bad" ones.  LoadActive reads two files; it is one step here, since     *)
(* what it finds is what it would have found before the marker was moved.  *)
(***************************************************************************)
EXTENDS Naturals

CONSTANTS
  ProfileNames,
  Rules,        \* what the file of a profile may say
  Starter,      \* the rules that `profile new` writes
  NoRules,      \* no profile
  NoName,       \* no profile is named
  Unreadable,   \* what is in a file that does not parse
  Missing,      \* there is no such file
  ScopeTools,   \* the tools of a registry before it is narrowed
  AllowOf, DenyOf, LinesOf, PatternsOf, \* the rules, NoRules has none
  SkillTools,   \* what the skills of a request allow
  SafetyLines,  \* cfg.Safety.MaxLogLines, 0 when there is no limit
  Runs,         \* one-shot runs: `cloudy ask`, jobs of ChatOps
  MaxEdits, MaxCommandsRun, MaxTurnsRun \* bounds

AllRules == Rules \cup {NoRules}

ASSUME ProfileScopeAssumption ==
  /\ Starter \in Rules
  /\ {NoRules, Unreadable, Missing} \cap Rules = {}
  /\ Unreadable # Missing
  /\ NoName \notin ProfileNames
  /\ AllowOf \in [AllRules -> SUBSET ScopeTools] /\ AllowOf[NoRules] = {}
  /\ DenyOf \in [AllRules -> SUBSET ScopeTools] /\ DenyOf[NoRules] = {}
  /\ LinesOf \in [AllRules -> Nat] /\ LinesOf[NoRules] = 0
  /\ PatternsOf \in [AllRules -> {"none", "own", "bad"}]
  /\ PatternsOf[NoRules] = "none"
  /\ SkillTools \subseteq SUBSET ScopeTools
  /\ SafetyLines \in Nat
  /\ MaxEdits \in Nat /\ MaxCommandsRun \in Nat /\ MaxTurnsRun \in Nat

VARIABLES
  rulesIn,   \* name -> what is in its file
  marker,    \* active_profile: a name, or NoName when there is none
  pinned,    \* $CLOUDY_PROFILE of the terminal
  command,   \* the `cloudy profile` under way: its next step and its name
  edits, commandsRun, turnsRun,
  ui,        \* the terminal UI: [phase, tools, lines, turn, reg, disk]
  run,       \* one-shot run -> [phase, name, rules, reg, lines, called, model, disk]
  installed  \* wiring.active of the ChatOps process

profileVars == <<rulesIn, marker, pinned, command, edits, commandsRun, turnsRun,
                 ui, run, installed>>
fileVars == <<rulesIn, marker, pinned>>

---------------------------------------------------------------------------
\* FilterRegistry: a denied tool goes, and so does one that a list of allowed
\* tools leaves out.
FilterRegistry(p) ==
  {t \in ScopeTools \ DenyOf[p] : AllowOf[p] = {} \/ t \in AllowOf[p]}

\* EffectiveLogLines: the stricter one of two limits, of which 0 is none.
EffectiveLines(p) ==
  LET own == LinesOf[p]
  IN  IF own > 0 /\ (SafetyLines = 0 \/ own <= SafetyLines) THEN own ELSE SafetyLines

\* What is masked: the patterns of rules p, or the built-in baseline.
Baseline == {"baseline"}
MaskedBy(p) == IF PatternsOf[p] = "own" THEN {p} ELSE {}
MaskerOrDefault(p) == IF PatternsOf[p] = "own" THEN {p} ELSE Baseline
Masks == SUBSET (AllRules \cup Baseline)

\* Load, which finds no rules in a file that is missing or does not parse.
Load(n) == IF n \in ProfileNames /\ rulesIn[n] \in Rules THEN rulesIn[n] ELSE NoRules

\* Active and LoadActive: the environment goes before the marker, and every
\* error leaves the caller without a profile.
LoadActive == Load(IF pinned # NoName THEN pinned ELSE marker)

NoUi == [phase |-> "off", tools |-> {}, lines |-> 0, turn |-> NoRules,
         reg |-> {}, disk |-> Baseline]
NoRun == [phase |-> "new", name |-> NoName, rules |-> NoRules, reg |-> {},
          lines |-> 0, called |-> {}, model |-> {}, disk |-> Baseline]
NoCommand == [step |-> "none", name |-> NoName]

ProfileTypeOK ==
  /\ rulesIn \in [ProfileNames -> Rules \cup {Unreadable, Missing}]
  /\ marker \in ProfileNames \cup {NoName}
  /\ pinned \in ProfileNames \cup {NoName}
  /\ command \in [step : {"none", "save", "open", "write"},
                  name : ProfileNames \cup {NoName}]
  /\ edits \in 0..MaxEdits
  /\ commandsRun \in 0..MaxCommandsRun
  /\ turnsRun \in 0..MaxTurnsRun
  /\ ui \in [phase : {"off", "boot", "idle", "loaded", "running"},
             tools : SUBSET ScopeTools, lines : Nat, turn : AllRules,
             reg : SUBSET ScopeTools, disk : Masks]
  /\ run \in [Runs -> [phase : {"new", "ask", "chat", "askReg", "chatReg", "running",
                                "done", "failed"},
                       name : ProfileNames \cup {NoName}, rules : AllRules,
                       reg : SUBSET ScopeTools, lines : Nat,
                       called : SUBSET ScopeTools, model : Masks, disk : Masks]]
  /\ installed \in SUBSET ScopeTools

ProfileInit ==
  /\ rulesIn \in [ProfileNames -> Rules \cup {Missing}]
  /\ marker \in {NoName} \cup {n \in ProfileNames : rulesIn[n] # Missing}
  /\ pinned \in ProfileNames \cup {NoName}
  /\ command = NoCommand
  /\ edits = 0 /\ commandsRun = 0 /\ turnsRun = 0
  /\ ui = NoUi
  /\ run = [r \in Runs |-> NoRun]
  /\ installed = {}

---------------------------------------------------------------------------
(* `cloudy profile` and the editor of the operator (external).             *)

\* profileNew: there must be none of that name ...
NewLooks(n) ==
  /\ command = NoCommand /\ commandsRun < MaxCommandsRun
  /\ rulesIn[n] = Missing
  /\ command' = [step |-> "save", name |-> n]
  /\ commandsRun' = commandsRun + 1
  /\ UNCHANGED <<fileVars, edits, turnsRun, ui, run, installed>>

\* ... then Save renames a whole file into its place.
NewSaves ==
  /\ command.step = "save"
  /\ rulesIn' = [rulesIn EXCEPT ![command.name] = Starter]
  /\ command' = NoCommand
  /\ UNCHANGED <<marker, pinned, edits, commandsRun, turnsRun, ui, run, installed>>

\* SetActive: a profile that does not load is not activated ...
UseLoads(n) ==
  /\ command = NoCommand /\ commandsRun < MaxCommandsRun
  /\ Load(n) # NoRules
  /\ command' = [step |-> "open", name |-> n]
  /\ commandsRun' = commandsRun + 1
  /\ UNCHANGED <<fileVars, edits, turnsRun, ui, run, installed>>

\* ... and os.WriteFile empties the marker before it writes: Active takes an
\* empty marker for none.
UseTruncates ==
  /\ command.step = "open"
  /\ marker' = NoName
  /\ command' = [command EXCEPT !.step = "write"]
  /\ UNCHANGED <<rulesIn, pinned, edits, commandsRun, turnsRun, ui, run, installed>>

UseWrites ==
  /\ command.step = "write"
  /\ marker' = command.name
  /\ command' = NoCommand
  /\ UNCHANGED <<rulesIn, pinned, edits, commandsRun, turnsRun, ui, run, installed>>

\* ClearActive
NoneClears ==
  /\ command = NoCommand /\ commandsRun < MaxCommandsRun
  /\ marker' = NoName
  /\ commandsRun' = commandsRun + 1
  /\ UNCHANGED <<rulesIn, pinned, command, edits, turnsRun, ui, run, installed>>

\* The command is killed, or a write fails.
CommandDies ==
  /\ command # NoCommand
  /\ command' = NoCommand
  /\ UNCHANGED <<fileVars, edits, commandsRun, turnsRun, ui, run, installed>>

\* A profile is narrowed by hand; the file may be one that does not parse.
Edit(n, c) ==
  /\ edits < MaxEdits /\ c # rulesIn[n]
  /\ rulesIn' = [rulesIn EXCEPT ![n] = c]
  /\ edits' = edits + 1
  /\ UNCHANGED <<marker, pinned, command, commandsRun, turnsRun, ui, run, installed>>

---------------------------------------------------------------------------
(* The terminal UI.                                                        *)

\* main: wiring.Rebuild loads the active profile for the registry, ...
BootTools ==
  /\ ui.phase = "off" /\ turnsRun < MaxTurnsRun
  /\ ui' = [NoUi EXCEPT !.phase = "boot", !.tools = FilterRegistry(LoadActive)]
  /\ UNCHANGED <<fileVars, command, edits, commandsRun, turnsRun, run, installed>>

\* ... and main loads it once more, for the limits.
BootLimits ==
  /\ ui.phase = "boot"
  /\ ui' = [ui EXCEPT !.phase = "idle", !.lines = EffectiveLines(LoadActive)]
  /\ UNCHANGED <<fileVars, command, edits, commandsRun, turnsRun, run, installed>>

\* A turn loads the active profile for what it masks.  agent.New refuses
\* patterns that do not compile.
TurnLoads ==
  /\ ui.phase = "idle" /\ turnsRun < MaxTurnsRun
  /\ ui' = [ui EXCEPT !.turn = LoadActive,
                      !.phase = IF PatternsOf[LoadActive] = "bad" THEN "idle" ELSE "loaded"]
  /\ turnsRun' = turnsRun + 1
  /\ UNCHANGED <<fileVars, command, edits, commandsRun, run, installed>>

\* Agent.Run takes the registry that is installed now, until it returns.
TurnRuns ==
  /\ ui.phase = "loaded"
  /\ ui' = [ui EXCEPT !.phase = "running", !.reg = ui.tools]
  /\ UNCHANGED <<fileVars, command, edits, commandsRun, turnsRun, run, installed>>

\* What the snapshot of a turn is masked by; the log of the session is too.
SnapshotMasks == MaskerOrDefault(ui.turn)

\* The turn ends: its history, if Run returned one, is saved masked.
TurnEnds ==
  /\ ui.phase = "running"
  /\ \E disk \in {ui.disk, SnapshotMasks} : ui' = [ui EXCEPT !.phase = "idle", !.disk = disk]
  /\ UNCHANGED <<fileVars, command, edits, commandsRun, turnsRun, run, installed>>

\* makeCompact saves what it kept with the profile that is active by then.
CompactSaves ==
  /\ ui.phase = "idle"
  /\ ui' = [ui EXCEPT !.disk = MaskerOrDefault(LoadActive)]
  /\ UNCHANGED <<fileVars, command, edits, commandsRun, turnsRun, run, installed>>

\* persistAndSwap, in a goroutine of /setup, also while a turn is running.
SetupRebuilds ==
  /\ ui.phase \in {"idle", "loaded", "running"}
  /\ ui' = [ui EXCEPT !.tools = FilterRegistry(LoadActive)]
  /\ UNCHANGED <<fileVars, command, edits, commandsRun, turnsRun, run, installed>>

UiQuits ==
  /\ ui.phase # "off"
  /\ ui' = NoUi
  /\ UNCHANGED <<fileVars, command, edits, commandsRun, turnsRun, run, installed>>

---------------------------------------------------------------------------
(* runner.Run.                                                             *)

\* loadProfile of a job: the profile it names must load.
ChatLoads(r, n) ==
  /\ run[r].phase = "new"
  /\ run' = [run EXCEPT ![r].name = n, ![r].rules = Load(n),
               ![r].phase = IF n # NoName /\ Load(n) = NoRules THEN "failed" ELSE "chat"]
  /\ UNCHANGED <<fileVars, command, edits, commandsRun, turnsRun, ui, installed>>

\* loadProfile of `cloudy ask`: the active one, if there is one.
AskLoads(r) ==
  /\ run[r].phase = "new"
  /\ run' = [run EXCEPT ![r].rules = LoadActive, ![r].phase = "ask"]
  /\ UNCHANGED <<fileVars, command, edits, commandsRun, turnsRun, ui, installed>>

\* wiring.Rebuild: with UseActiveProfile and no profile it looks once more.
RebuildRules(r) ==
  IF run[r].phase = "ask" /\ run[r].rules = NoRules THEN LoadActive ELSE run[r].rules

\* Rebuild installs a registry for the process and returns it; the tools of the
\* run are those of them that its skill allows.
RunBuilds(r, allowed) ==
  /\ run[r].phase \in {"ask", "chat"}
  /\ LET reg == FilterRegistry(RebuildRules(r))
     IN  /\ run' = [run EXCEPT ![r].reg = reg \cap allowed,
                      ![r].phase = IF @ = "ask" THEN "askReg" ELSE "chatReg"]
         /\ installed' = IF run[r].phase = "chat" THEN reg ELSE installed
  /\ UNCHANGED <<fileVars, command, edits, commandsRun, turnsRun, ui>>

\* agent.New: a job without patterns of its own masks by the baseline; one
\* whose patterns do not compile fails.
RunStarts(r) ==
  /\ run[r].phase \in {"askReg", "chatReg"}
  /\ LET p == run[r].rules
     IN  run' = [run EXCEPT
           ![r].lines = EffectiveLines(p),
           ![r].phase = IF PatternsOf[p] = "bad" THEN "failed" ELSE "running",
           ![r].model = IF run[r].phase = "chatReg" /\ PatternsOf[p] = "none"
                          THEN Baseline ELSE MaskedBy(p)]
  /\ UNCHANGED <<fileVars, command, edits, commandsRun, turnsRun, ui, installed>>

\* Variant: the registry of the process, as in the terminal UI.
RegistryOfProcess(r) == installed

\* agent.Options.Registry is the registry that was built for this run.
RegistryOf(r) == run[r].reg

RunCalls(r, t) ==
  /\ run[r].phase = "running" /\ t \in RegistryOf(r)
  /\ run' = [run EXCEPT ![r].called = @ \cup {t}]
  /\ UNCHANGED <<fileVars, command, edits, commandsRun, turnsRun, ui, installed>>

\* The run is over: MaskHistory, SaveHistory.
RunSaves(r) ==
  /\ run[r].phase = "running"
  /\ run' = [run EXCEPT ![r].phase = "done", ![r].disk = MaskerOrDefault(run[r].rules)]
  /\ UNCHANGED <<fileVars, command, edits, commandsRun, turnsRun, ui, installed>>

\* Run returns an error: nothing is saved, and its variables are gone.
RunFails(r) ==
  /\ run[r].phase = "running"
  /\ run' = [run EXCEPT ![r] = [NoRun EXCEPT !.phase = "failed"]]
  /\ UNCHANGED <<fileVars, command, edits, commandsRun, turnsRun, ui, installed>>

---------------------------------------------------------------------------
CommandNext ==
  \/ \E n \in ProfileNames : NewLooks(n) \/ UseLoads(n)
  \/ NewSaves \/ UseTruncates \/ UseWrites \/ NoneClears \/ CommandDies
  \/ \E n \in ProfileNames, c \in Rules \cup {Unreadable, Missing} : Edit(n, c)

UiNext ==
  \/ BootTools \/ BootLimits \/ TurnLoads \/ TurnRuns \/ TurnEnds
  \/ CompactSaves \/ SetupRebuilds \/ UiQuits

RunNext ==
  \E r \in Runs :
    \/ \E n \in ProfileNames \cup {NoName} : ChatLoads(r, n)
    \/ AskLoads(r) \/ RunStarts(r) \/ RunSaves(r) \/ RunFails(r)
    \/ \E allowed \in SkillTools : RunBuilds(r, allowed)
    \/ \E t \in ScopeTools : RunCalls(r, t)

ProfileNext == CommandNext \/ UiNext \/ RunNext

ProfileSpec == ProfileInit /\ [][ProfileNext]_profileVars

---------------------------------------------------------------------------
\* A run that was given rules calls nothing that they deny and has their limit,
\* whichever profile is active meanwhile and whatever the jobs beside it have
\* installed; a job whose profile is missing calls nothing at all.
RunsKeepTheirScope ==
  \A r \in Runs :
    /\ run[r].called \subseteq FilterRegistry(run[r].rules)
    /\ run[r].phase \in {"running", "done"} =>
         /\ run[r].lines = EffectiveLines(run[r].rules)
         /\ run[r].name # NoName => run[r].rules # NoRules

\* The disk is never less redacted than what the model was given in the run ...
RunsSavedMasked ==
  \A r \in Runs : run[r].phase = "done" => run[r].model \subseteq run[r].disk

\* ... or in the turn, also when the active profile changes during it.
TurnsSavedMasked ==
  [][ui.phase = "running" /\ ui'.phase = "idle" /\ ui'.disk # ui.disk
       => MaskedBy(ui.turn) \subseteq ui'.disk]_profileVars

\* One-shot runs have the scope of the rules they were given, and whatever is
\* saved is masked at least by what masked it for the model.
ProfilesHonoured ==
  [](ProfileTypeOK /\ RunsKeepTheirScope /\ RunsSavedMasked) /\ TurnsSavedMasked
=============================================================================
