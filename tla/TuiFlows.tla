------------------------------ MODULE TuiFlows ------------------------------
(***************************************************************************)
(* The conversations inside the terminal UI: /login (ui/tui/loginchat.go), *)
(* /setup (setupchat.go), the pickers of /model, /skill and /scope, and    *)
(* config.yaml, which /login, /model and /setup write (ui/tui/run.go).     *)
(*                                                                         *)
(* Update (app.go) handles one message at a time.  A key is one message;   *)
(* Enter or Esc in a picker makes a command whose result, the answer, is   *)
(* another one, and other keys may come before it.  The scan of a /setup,  *)
(* its save and the list of namespaces run beside Update and report with   *)
(* messages that do not say for whom they are.                             *)
(*                                                                         *)
(* Contexts and backends are named by the /setup chat, or by the chat of   *)
(* the scan, that they come from.  A patient operator presses Enter once,  *)
(* leaves pickers with Esc, gives a command when nothing is open or under  *)
(* way, and no turn of hers needs an approval; others do as they like.     *)
(***************************************************************************)
EXTENDS Integers, Sequences, SequencesExt

CONSTANTS
  MaxChats,     \* bound: /setup chats
  MaxCommands,  \* bound: slash commands of an operator, hasty or patient
  MaxAnswers,   \* bound: answers under way
  MaxSaves      \* bound: saves of /setup

ASSUME FlowsAssumption ==
  /\ MaxChats \in Nat \ {0} /\ MaxCommands \in [BOOLEAN -> Nat]
  /\ MaxAnswers \in Nat \ {0} /\ MaxSaves \in Nat \ {0}

Chats == 1..MaxChats
Single == {"model", "skill", "provider", "loginModel"}
Multi == {"scope", "contexts", "kinds"}
Pickers == Single \cup Multi
Modes == {"model", "skill", "scope"}
Picks == {"some", "none", "cancel"}

\* Contexts of config.yaml: those it had, those of a chat, or an empty list.
Before == 0
Nothing == MaxChats + 1

VARIABLES
  patient,   \* what the operator is like
  commands,  \* slash commands given so far
  picker,    \* Model.arrowPicker: which one, or "none"
  answers,   \* arrowPickerResolveMsg and arrowPickerMultiResolveMsg under way
  modes,     \* those of modelPickerActive, skillPickerActive, scopePickerActive
  login,     \* loginChat.step, or "none"
  setup,     \* Model.setupChat, or 0
  step,      \* chat -> setupChat.step
  selected,  \* chat -> contexts were selected
  findings,  \* chat -> the scan whose findings it has, or 0
  kinds,     \* chat -> selectedKinds is not empty
  scans,     \* chats whose scan runs
  fetches,   \* lists of namespaces under way
  saves,     \* number -> a save of /setup
  swap,      \* the SwapModel in progress, which Update waits for
  config,    \* config.yaml
  wired,     \* contexts and backends of the active registry
  key,       \* what was saved as the API key
  scope      \* whose keys are the namespaces of Model.scope

uiVars == <<picker, answers, modes, login, setup>>
chatVars == <<step, selected, findings, kinds>>
jobVars == <<scans, fetches, saves>>
outVars == <<config, wired, key, scope>>
flowVars == <<patient, commands, uiVars, chatVars, jobVars, swap, outVars>>

Answers == [picker : Pickers, keys : Picks]
Configs == [model : {"old", "new"}, contexts : 0..Nothing, backends : 0..Nothing,
            rest : BOOLEAN]
NoConfig == [model |-> "old", contexts |-> Before, backends |-> Before, rest |-> TRUE]
Stages == {"off", "load", "write", "wire", "tell"}
Saves == [stage : Stages, chat : 0..MaxChats, cfg : Configs, late : BOOLEAN]
NoSave == [stage |-> "off", chat |-> 0, cfg |-> NoConfig, late |-> FALSE]
Swaps == [on : BOOLEAN, cfg : Configs, late : BOOLEAN]
NoSwap == [on |-> FALSE, cfg |-> NoConfig, late |-> FALSE]

FlowsTypeOK ==
  /\ patient \in BOOLEAN
  /\ commands \in 0..MaxCommands[patient]
  /\ picker \in Pickers \cup {"none"}
  /\ answers \in Seq(Answers) /\ Len(answers) <= MaxAnswers
  /\ modes \subseteq Modes
  /\ login \in {"none", "provider", "key", "model"}
  /\ setup \in 0..MaxChats
  /\ setup # 0 => step[setup] # "new"
  /\ step \in [Chats -> {"new", "contexts", "scanning", "findings", "done"}]
  /\ selected \in [Chats -> BOOLEAN]
  /\ findings \in [Chats -> 0..MaxChats]
  /\ kinds \in [Chats -> BOOLEAN]
  /\ scans \subseteq Chats
  /\ fetches \in 0..MaxCommands[patient]
  /\ saves \in [1..MaxSaves -> Saves]
  /\ swap \in Swaps
  /\ config \in Configs
  /\ wired \in [contexts : 0..Nothing, backends : 0..Nothing]
  /\ key \in {"none", "pasted", "answer"}
  /\ scope \in {"none", "scope", "contexts", "kinds"}

FlowsInit ==
  /\ patient \in BOOLEAN
  /\ commands = 0
  /\ picker = "none" /\ answers = <<>> /\ modes = {}
  /\ login = "none" /\ setup = 0
  /\ step = [c \in Chats |-> "new"]
  /\ selected = [c \in Chats |-> FALSE]
  /\ findings = [c \in Chats |-> 0]
  /\ kinds = [c \in Chats |-> FALSE]
  /\ scans = {} /\ fetches = 0
  /\ saves = [n \in 1..MaxSaves |-> NoSave]
  /\ swap = NoSwap
  /\ config = NoConfig
  /\ wired = [contexts |-> Before, backends |-> Before]
  /\ key = "none"
  /\ scope = "none"

Busy == scans # {} \/ fetches > 0 \/ \E n \in 1..MaxSaves : saves[n].stage # "off"
Open == picker # "none" \/ login # "none" \/ setup # 0

\* Update looks at a message when it is not inside SwapModel.
Updating == ~swap.on

---------------------------------------------------------------------------
(* Slash commands.  The palette takes them while a chat is open, too.      *)

Command ==
  /\ Updating /\ picker = "none"
  /\ commands < MaxCommands[patient]
  /\ patient => ~Open /\ ~Busy /\ answers = <<>>
  /\ commands' = commands + 1

\* /model and /skill without an argument
PickMode(mode) ==
  /\ Command
  /\ modes' = modes \cup {mode}
  /\ picker' = mode
  /\ UNCHANGED <<patient, answers, login, setup, chatVars, jobVars, swap, outVars>>

\* /scope without an argument lists the namespaces first.
PickScope ==
  /\ Command
  /\ modes' = modes \cup {"scope"}
  /\ fetches' = fetches + 1
  /\ UNCHANGED <<patient, picker, answers, login, setup, chatVars, scans, saves, swap,
                 outVars>>

Login ==
  /\ Command
  /\ login' = "provider"
  /\ picker' = "provider"
  /\ UNCHANGED <<patient, answers, modes, setup, chatVars, jobVars, swap, outVars>>

FirstStep == "contexts"

\* enterSetup, with contexts in the kubeconfig: a new chat takes the place of
\* the one that is open.
Setup(c) ==
  /\ Command
  /\ step[c] = "new" /\ \A d \in Chats : d < c => step[d] # "new"
  /\ setup' = c
  /\ step' = [step EXCEPT ![c] = FirstStep]
  /\ picker' = "contexts"
  /\ UNCHANGED <<patient, answers, modes, login, selected, findings, kinds, jobVars, swap,
                 outVars>>

---------------------------------------------------------------------------
(* Keys in a picker.  It stays until its answer is there.                  *)

Press(keys) ==
  /\ Updating /\ picker # "none"
  /\ Len(answers) < MaxAnswers
  /\ patient => answers = <<>>
  /\ picker \in Single => keys # "none"
  /\ answers' = Append(answers, [picker |-> picker, keys |-> keys])
  /\ UNCHANGED <<patient, commands, picker, modes, login, setup, chatVars, jobVars, swap,
                 outVars>>

\* Ctrl+C takes the picker away, and so does a tool that needs an approval
\* (dismissOpenOverlays).
Dismiss ==
  /\ Updating /\ picker # "none" /\ ~patient
  /\ picker' = "none"
  /\ UNCHANGED <<patient, commands, answers, modes, login, setup, chatVars, jobVars, swap,
                 outVars>>

---------------------------------------------------------------------------
(* SwapModel: BuildProvider, then Load and Save of config.yaml.            *)

BeginSwap == swap' = [on |-> TRUE, cfg |-> [config EXCEPT !.model = "new"], late |-> FALSE]

EndSwap ==
  /\ swap.on
  /\ config' = swap.cfg
  /\ swap' = NoSwap
  /\ saves' = [n \in 1..MaxSaves |->
                 [saves[n] EXCEPT !.late = saves[n].stage = "write"]]
  /\ UNCHANGED <<patient, commands, uiVars, chatVars, scans, fetches, wired, key, scope>>

---------------------------------------------------------------------------
(* loginChat.Step, with what applyLoginResult does.  No picker is open, or  *)
(* its answer has just taken it away.                                      *)

LoginStays == UNCHANGED <<login, swap, key>>

LoginCancels == login' = "none" /\ picker' = "none" /\ UNCHANGED <<swap, key>>

\* input: the answer of a picker, by its name; a typed name that the step asks
\* for; or any other typed text
ProviderStep(input) ==
  /\ login = "provider"
  /\ IF input \in {"provider", "named"}
     THEN login' = "key" /\ UNCHANGED <<swap, key>>
     ELSE LoginStays
  /\ picker' = "none"

\* secrets.Add, which may fail
KeyStep(input) ==
  /\ login = "key"
  /\ \/ /\ key' = IF input \in {"named", "pasted"} THEN "pasted" ELSE "answer"
        /\ login' = "model" /\ picker' = "loginModel"
     \/ login' = "none" /\ picker' = "none" /\ UNCHANGED key
  /\ UNCHANGED swap

ModelStep(input) ==
  /\ login = "model"
  /\ \/ /\ input \in {"loginModel", "named"}
        /\ login' = "none" /\ picker' = "none"
        /\ BeginSwap \/ UNCHANGED swap
        /\ UNCHANGED key
     \/ input \notin {"loginModel", "named"} /\ picker' = "loginModel" /\ LoginStays

LoginStep(input) == ProviderStep(input) \/ KeyStep(input) \/ ModelStep(input)

\* A plain line in the prompt: /login takes it first.  /setup ends at "cancel",
\* or at any line once it saves; else it would give its picker back, but the
\* caller does not install it.
Type(line) ==
  /\ Updating /\ picker = "none"
  /\ patient => answers = <<>>
  /\ \/ /\ login # "none"
        /\ IF line = "cancel" THEN LoginCancels ELSE LoginStep(line)
        /\ UNCHANGED setup
     \/ /\ login = "none" /\ setup # 0
        /\ line = "cancel" \/ step[setup] = "done"
        /\ setup' = 0
        /\ UNCHANGED <<login, swap, key, picker>>
  /\ UNCHANGED <<patient, commands, answers, modes, chatVars, jobVars, config, wired, scope>>

\* handleEscape
Escape ==
  /\ Updating /\ picker = "none"
  /\ \/ login # "none" /\ login' = "none" /\ UNCHANGED setup
     \/ login = "none" /\ setup # 0 /\ setup' = 0 /\ UNCHANGED login
  /\ UNCHANGED <<patient, commands, picker, answers, modes, chatVars, jobVars, swap, outVars>>

---------------------------------------------------------------------------
(* setupChat                                                               *)

\* runSave starts the goroutine.
StartSave(c) ==
  \E n \in 1..MaxSaves :
    /\ saves[n].stage = "off" /\ \A m \in 1..n - 1 : saves[m].stage # "off"
    /\ saves' = [saves EXCEPT ![n] = [NoSave EXCEPT !.stage = "load", !.chat = c]]

(* ApplyMulti, with what applySetupResult does; the answer has taken the   *)
(* picker away.                                                            *)

\* Cancelled, or "setup state confused"
SetupGivesUp(keys) ==
  /\ keys = "cancel" \/ step[setup] \notin {"contexts", "findings"}
  /\ setup' = 0
  /\ picker' = "none"
  /\ UNCHANGED <<chatVars, scans, saves>>

\* "tick at least one"
SetupAsksAgain(keys) ==
  /\ keys = "none" /\ step[setup] = "contexts"
  /\ picker' = "contexts"
  /\ UNCHANGED <<setup, chatVars, scans, saves>>

Scanning ==
  /\ step' = [step EXCEPT ![setup] = "scanning"]
  /\ scans' = scans \cup {setup}
  /\ picker' = "none"
  /\ UNCHANGED <<setup, findings, kinds, saves>>

SetupScans(keys) ==
  /\ keys = "some" /\ step[setup] = "contexts"
  /\ selected' = [selected EXCEPT ![setup] = TRUE]
  /\ Scanning

SetupSaves(keys) ==
  /\ keys # "cancel" /\ step[setup] = "findings"
  /\ kinds' = [kinds EXCEPT ![setup] = (keys = "some")]
  /\ step' = [step EXCEPT ![setup] = "done"]
  /\ StartSave(setup)
  /\ picker' = "none"
  /\ UNCHANGED <<setup, selected, findings, scans>>

\* setupScanDoneMsg: Apply does not ask whose scan it is, nor for the step.
ScanDone(c, found) ==
  /\ Updating /\ c \in scans
  /\ scans' = scans \ {c}
  /\ IF setup = 0 THEN UNCHANGED <<chatVars, saves, picker>>
     ELSE /\ findings' = [findings EXCEPT ![setup] = IF found THEN c ELSE 0]
          /\ kinds' = [kinds EXCEPT ![setup] = @ \/ found]
          /\ IF found
             THEN /\ step' = [step EXCEPT ![setup] = "findings"]
                  /\ picker' = "kinds"
                  /\ UNCHANGED saves
             ELSE /\ step' = [step EXCEPT ![setup] = "done"]
                  /\ StartSave(setup)
                  /\ UNCHANGED picker
          /\ UNCHANGED selected
  /\ UNCHANGED <<patient, commands, answers, modes, login, setup, fetches, swap, outVars>>

---------------------------------------------------------------------------
(* persistAndSwap, beside Update.  It reads the chat, which Update may     *)
(* change meanwhile.                                                       *)

At(n, stage) == saves[n].stage = stage

\* Variant: the default model.
NoModel == "old"

PrevModel == config.model

\* SaveProfile, then Load: the new configuration starts from the default one
\* and keeps the model.
SaveLoads(n) ==
  /\ At(n, "load")
  /\ LET c == saves[n].chat
         cfg == [model |-> PrevModel,
                 contexts |-> IF selected[c] THEN c ELSE Nothing,
                 backends |-> IF kinds[c] /\ findings[c] # 0 THEN findings[c] ELSE Nothing,
                 rest |-> FALSE]
     IN  saves' = [saves EXCEPT ![n] = [@ EXCEPT !.stage = "write", !.cfg = cfg]]
  /\ UNCHANGED <<patient, commands, uiVars, chatVars, scans, fetches, swap, outVars>>

\* Save: a rename
SaveWrites(n) ==
  /\ At(n, "write")
  /\ config' = saves[n].cfg
  /\ saves' = [m \in 1..MaxSaves |->
                 IF m = n THEN [saves[n] EXCEPT !.stage = "wire", !.late = FALSE]
                 ELSE [saves[m] EXCEPT !.late = saves[m].stage = "write"]]
  /\ swap' = [swap EXCEPT !.late = swap.on]
  /\ UNCHANGED <<patient, commands, uiVars, chatVars, scans, fetches, wired, key, scope>>

\* Rebuild
SaveWires(n) ==
  /\ At(n, "wire")
  /\ wired' = [contexts |-> saves[n].cfg.contexts, backends |-> saves[n].cfg.backends]
  /\ saves' = [saves EXCEPT ![n].stage = "tell"]
  /\ UNCHANGED <<patient, commands, uiVars, chatVars, scans, fetches, swap, config, key, scope>>

\* SaveProfile or Save fails.
SaveFails(n) ==
  /\ At(n, "load") \/ At(n, "write")
  /\ saves' = [saves EXCEPT ![n].stage = "tell"]
  /\ UNCHANGED <<patient, commands, uiVars, chatVars, scans, fetches, swap, outVars>>

\* setupSaveDoneMsg ends the chat that is open, whichever it is.
SaveDone(n) ==
  /\ Updating /\ At(n, "tell")
  /\ saves' = [saves EXCEPT ![n] = NoSave]
  /\ setup' = 0
  /\ UNCHANGED <<patient, commands, picker, answers, modes, login, chatVars, scans, fetches,
                 swap, outVars>>

---------------------------------------------------------------------------
\* scopeNamespacesMsg; names: there is no error and there is a namespace.
Namespaces(names) ==
  /\ Updating /\ fetches > 0
  /\ fetches' = fetches - 1
  /\ IF "scope" \notin modes THEN UNCHANGED <<modes, picker>>
     ELSE IF names THEN picker' = "scope" /\ UNCHANGED modes
     ELSE modes' = modes \ {"scope"} /\ UNCHANGED picker
  /\ UNCHANGED <<patient, commands, answers, login, setup, chatVars, scans, saves, swap,
                 outVars>>

---------------------------------------------------------------------------
(* The two resolve messages: who gets the answer.                          *)

Route(a) ==
  IF a.picker \in Single
  THEN IF login # "none" THEN "login"
       ELSE IF "model" \in modes THEN "model"
       ELSE IF "skill" \in modes THEN "skill" ELSE "nobody"
  ELSE IF "scope" \in modes THEN "scope"
       ELSE IF setup # 0 THEN "setup" ELSE "nobody"

ToLogin(a) ==
  /\ IF a.keys = "cancel" THEN LoginCancels ELSE LoginStep(a.picker)
  /\ UNCHANGED <<modes, setup, chatVars, jobVars, scope>>

\* Variant: the mode stays on.
ToModelStaysActive(a) ==
  /\ picker' = "none"
  /\ IF a.keys # "cancel" /\ a.picker \in {"model", "loginModel"}
     THEN BeginSwap \/ UNCHANGED swap ELSE UNCHANGED swap
  /\ UNCHANGED <<modes, login, setup, chatVars, jobVars, key, scope>>

\* applyModelSwap knows the models only.
ToModel(a) ==
  /\ modes' = modes \ {"model"}
  /\ picker' = "none"
  /\ IF a.keys # "cancel" /\ a.picker \in {"model", "loginModel"}
     THEN BeginSwap \/ UNCHANGED swap ELSE UNCHANGED swap
  /\ UNCHANGED <<login, setup, chatVars, jobVars, key, scope>>

ToSkill(a) ==
  /\ modes' = modes \ {"skill"}
  /\ picker' = "none"
  /\ UNCHANGED <<login, setup, chatVars, jobVars, swap, key, scope>>

\* The keys become namespaces, whatever they were.
ToScope(a) ==
  /\ modes' = modes \ {"scope"}
  /\ picker' = "none"
  /\ scope' = CASE a.keys = "cancel" -> scope
                [] a.keys = "none"   -> "none"
                [] a.keys = "some"   -> a.picker
  /\ UNCHANGED <<login, setup, chatVars, jobVars, swap, key>>

ToSetup(a) ==
  /\ SetupGivesUp(a.keys) \/ SetupAsksAgain(a.keys) \/ SetupScans(a.keys) \/ SetupSaves(a.keys)
  /\ UNCHANGED <<modes, login, fetches, swap, key, scope>>

ToNobody(a) ==
  /\ picker' = "none"
  /\ UNCHANGED <<modes, login, setup, chatVars, jobVars, swap, key, scope>>

Answer(i) ==
  /\ Updating
  /\ answers' = RemoveAt(answers, i)
  /\ LET a == answers[i]
     IN  CASE Route(a) = "login"  -> ToLogin(a)
           [] Route(a) = "model"  -> ToModel(a)
           [] Route(a) = "skill"  -> ToSkill(a)
           [] Route(a) = "scope"  -> ToScope(a)
           [] Route(a) = "setup"  -> ToSetup(a)
           [] Route(a) = "nobody" -> ToNobody(a)
  /\ UNCHANGED <<patient, commands, config, wired>>

FlowsNext ==
  \/ PickMode("model") \/ PickMode("skill") \/ PickScope \/ Login
  \/ \E c \in Chats : Setup(c)
  \/ \E keys \in Picks : Press(keys)
  \/ Dismiss \/ Escape
  \/ \E line \in {"named", "pasted", "cancel"} : Type(line)
  \/ \E i \in DOMAIN answers : Answer(i)
  \/ EndSwap
  \/ \E c \in Chats, found \in BOOLEAN : ScanDone(c, found)
  \/ \E n \in 1..MaxSaves :
       SaveLoads(n) \/ SaveWrites(n) \/ SaveWires(n) \/ SaveFails(n) \/ SaveDone(n)
  \/ \E names \in BOOLEAN : Namespaces(names)

FlowsSpec == FlowsInit /\ [][FlowsNext]_flowVars

---------------------------------------------------------------------------
Home == [p \in Pickers |->
           CASE p \in {"provider", "loginModel"} -> "login"
             [] p \in {"contexts", "kinds"}      -> "setup"
             [] OTHER                            -> p]

\* Two flows share one screen, one picker and one message type: for a patient
\* operator, the answer of a picker goes to the flow that opened it.
AnswersHome ==
  patient => \A i \in DOMAIN answers : Route(answers[i]) = Home[answers[i].picker]

\* A /setup that waits for a pick has its picker on the screen, whatever was
\* cancelled before and whichever scan reports.
PickerOnScreen ==
  patient /\ setup # 0 =>
    /\ step[setup] = "contexts" => picker = "contexts"
    /\ step[setup] = "findings" => picker = "kinds"

\* What /setup saves belongs together: contexts that the operator picked, and
\* backends found by a scan of these.
SavedFits ==
  patient => /\ config.contexts # Nothing
             /\ config.backends \in {Before, Nothing, config.contexts}

\* Between two saves, turns work with the registry of what is on disk, also
\* when a save fails half way.
WiredIsSaved ==
  patient /\ (\A n \in 1..MaxSaves : saves[n].stage # "wire") =>
    wired = [contexts |-> config.contexts, backends |-> config.backends]

\* The two writers of config.yaml keep what is the other's: a choice of a
\* model changes nothing else, and a /setup keeps the model - unless the other
\* one has written since this one read.
ConfigShared ==
  [][config' # config =>
       \/ /\ swap.on /\ ~swap'.on
          /\ swap.late \/ config' = [config EXCEPT !.model = "new"]
       \/ \E n \in 1..MaxSaves :
            /\ saves[n].stage = "write" /\ saves'[n].stage = "wire"
            /\ saves[n].late \/ config'.model = config.model]_flowVars

\* "paste the API key (text input, saved to ~/.cloudy/secrets)": nothing but a
\* pasted text is saved as a key.
KeyIsPasted == key # "answer"

\* So it is for a patient operator.
PatientKeyIsPasted == patient => KeyIsPasted

\* The dialogues share a prompt, a picker, a screen and a configuration, and
\* none of them gets what is another's.
DialoguesKept ==
  /\ FlowsTypeOK
  /\ AnswersHome /\ PickerOnScreen /\ PatientKeyIsPasted
  /\ SavedFits /\ WiredIsSaved
===========================================================================
