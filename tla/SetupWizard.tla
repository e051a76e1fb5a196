---------------------------- MODULE SetupWizard ----------------------------
(***************************************************************************)
(* The full-screen wizard of `cloudy setup` (internal/setup/wizard.go)     *)
(* from the choice of contexts to the saved files, and the discovery it    *)
(* starts (internal/wiring/discovery.go, internal/discovery).              *)
(*                                                                         *)
(* What discovery may find is Services, in the order in which              *)
(* discovery.Run sorts it; a finding is an index of it.  Contexts are      *)
(* 1..LastContext.  The cursors are left out, since they reach every row.  *)
(* The password box holds pieces: what the operator typed for a finding    *)
(* stands in it until the box is emptied.                                  *)
(***************************************************************************)
EXTENDS Naturals, SequencesExt, Ordering

CONSTANTS
  LastContext,  \* number of contexts in the kubeconfig
  Services,     \* sequence of [kind, auth, ctx, name]
  KindOrder,    \* the kinds of Services, in alphabetical order
  HintLines,    \* kinds of the lines typed in the hint loop
  MaxHints      \* bound: lines typed in the hint loop

Contexts == 1..LastContext
Findings == DOMAIN Services
Kinds == {KindOrder[i] : i \in DOMAIN KindOrder}
DbKinds == {"postgres", "mysql", "redis"}
HttpKinds == {"prometheus", "loki", "elasticsearch", "tempo", "jaeger", "pprof", "v8"}
HintKinds == DbKinds \cup HttpKinds \cup {"prom"}
Auths == {"none", "basic", "bearer", "password"}
Forms == {"literal", "reference", "dollar"}

\* Only a detector of databases asks for a password.
ASSUME WizardAssumption ==
  /\ LastContext \in Nat \ {0} /\ MaxHints \in Nat
  /\ KindOrder \in Seq(DbKinds \cup HttpKinds)
  /\ Services \in Seq([kind : Kinds, auth : Auths, ctx : Contexts, name : STRING])
  /\ \A s \in Findings : Services[s].auth = "password" => Services[s].kind \in DbKinds

VARIABLES
  wizardStep,       \* the step of the wizard
  dryRun,           \* --dry-run
  auto,             \* --auto
  tidy,             \* the operator empties the box before skipping a credential
  aborted,
  saveErr,
  picked,           \* selectedContexts, in the order of their choice
  found,            \* findings, in the order of discovery.Run
  ticked,           \* kinds whose group is selected
  selectedFindings, \* the findings that are kept
  queue,            \* credQueue: indices of selectedFindings
  credAnswered,     \* sequence of [finding, env]
  authEnv,          \* authEnvByFindingIdx: index of selectedFindings -> name of a variable
  box,              \* credInput
  asked,            \* credIndex
  hints,            \* httpHints and dbHints: sequence of [kind, name]
  lines,            \* lines typed in the hint loop so far
  focused,          \* focusedInput of the fill-in step
  allow,            \* what the fourth input says of allow_secrets
  vault,            \* the file of secrets: name of a variable -> pieces
  profile,          \* profile.yaml: "old" or "new"
  configFile        \* config.yaml: its endpoints, or Untouched

chosen == <<picked, found, ticked, selectedFindings>>
credentials == <<queue, credAnswered, authEnv, box, asked>>
form == <<hints, lines, focused, allow>>
files == <<vault, profile, configFile>>
wizardVars == <<wizardStep, dryRun, auto, tidy, aborted, saveErr, chosen, credentials, form, files>>

Untouched == [endpoints |-> <<>>, allow |-> FALSE, fresh |-> FALSE]
\* CLOUDY_<KIND>_<NAME>_PWD, a variable the operator names, and none.
Generated(s) == <<Services[s].kind, Services[s].name>>
Given == <<"given", "given">>
NoEnv == <<"none", "none">>
Names == {Generated(s) : s \in Findings}
Pieces == [of : Findings, form : Forms]
WizardSteps == {"kubeconfig", "scan", "discovered", "credentials", "hints", "fillin", "skills",
          "save", "done"}

WizardTypeOK ==
  /\ wizardStep \in WizardSteps
  /\ {dryRun, auto, tidy, aborted, saveErr, allow} \subseteq BOOLEAN
  /\ picked \in Seq(Contexts) /\ found \in Seq(Findings) /\ selectedFindings \in Seq(Findings)
  /\ ticked \subseteq Kinds
  /\ queue \in Seq(1..Len(selectedFindings)) /\ asked \in 0..Len(queue)
  /\ credAnswered \in Seq([finding : Findings, env : Names \cup {Given}])
  /\ DOMAIN authEnv = 1..Len(selectedFindings)
  /\ \A i \in DOMAIN authEnv : authEnv[i] \in Names \cup {Given, NoEnv}
  /\ box \in Seq(Pieces)
  /\ hints \in Seq([kind : HintLines \cap HintKinds, name : (Nat \ {0}) \X HintKinds])
  /\ lines \in 0..MaxHints /\ focused \in 1..4
  /\ vault \in [Names -> Seq(Pieces)]
  /\ profile \in {"old", "new"}

WizardInit ==
  /\ dryRun \in BOOLEAN /\ auto \in BOOLEAN /\ tidy \in BOOLEAN
  /\ wizardStep = IF auto THEN "scan" ELSE "kubeconfig"
  /\ picked = IF auto THEN [c \in Contexts |-> c] ELSE <<>>
  /\ aborted = FALSE /\ saveErr = FALSE
  /\ found = <<>> /\ ticked = {} /\ selectedFindings = <<>>
  /\ queue = <<>> /\ credAnswered = <<>> /\ authEnv = <<>> /\ box = <<>> /\ asked = 0
  /\ hints = <<>> /\ lines = 0 /\ focused = 1 /\ allow = FALSE
  /\ vault = [n \in Names |-> <<>>] /\ profile = "old" /\ configFile = Untouched

---------------------------------------------------------------------------
(* Contexts and the scan.                                                  *)

Quit ==
  /\ wizardStep \in {"kubeconfig", "discovered", "credentials", "hints", "fillin", "skills"}
  /\ ~aborted
  /\ aborted' = TRUE
  /\ UNCHANGED <<wizardStep, dryRun, auto, tidy, saveErr, chosen, credentials, form, files>>

PickContext(c) ==
  /\ wizardStep = "kubeconfig"
  /\ IF \E i \in DOMAIN picked : picked[i] = c
     THEN \E i \in DOMAIN picked : picked[i] = c /\ picked' = RemoveAt(picked, i)
     ELSE picked' = Append(picked, c)
  /\ UNCHANGED <<wizardStep, found, ticked, selectedFindings, credentials, form, files>>

PickAll ==
  /\ wizardStep = "kubeconfig"
  /\ IF Len(picked) = LastContext
     THEN picked' = <<>>
     ELSE picked' \in {p \in [Contexts -> Contexts] : IsInjective(p)}
  /\ UNCHANGED <<wizardStep, found, ticked, selectedFindings, credentials, form, files>>

StartScan ==
  /\ wizardStep = "kubeconfig" /\ picked # <<>>
  /\ wizardStep' = "scan"
  /\ UNCHANGED <<chosen, credentials, form, files>>

\* A database is addressed by its context; every other service by the
\* proxy, which RunDiscovery builds for the first context only.
Via(s) == IF Services[s].kind \in DbKinds THEN Services[s].ctx ELSE Head(picked)

\* A detector passes over a context whose services it cannot list, and the
\* ones that need the proxy find nothing when there is none.
Reached(heard, proxied) ==
  {s \in Findings : /\ Services[s].ctx \in ToSet(picked)
                    /\ <<Services[s].kind, Services[s].ctx>> \in heard
                    /\ Services[s].kind \in DbKinds \/ proxied}

\* The numbers of S, the smallest first.
Rising(S) == Arranged(S, {p \in S \X S : p[1] < p[2]})

\* All groups with members are selected at first.
ScanFinished(heard, proxied) ==
  /\ wizardStep = "scan" /\ ~auto
  /\ found' = Rising(Reached(heard, proxied))
  /\ ticked' = {Services[s].kind : s \in Reached(heard, proxied)}
  /\ wizardStep' = "discovered"
  /\ UNCHANGED <<picked, selectedFindings, credentials, form, files>>

\* runAutomatic: no findings, no credentials, no hints.
AutoScanDone ==
  /\ wizardStep = "scan" /\ auto
  /\ wizardStep' = "save"
  /\ UNCHANGED <<chosen, credentials, form, files>>

---------------------------------------------------------------------------
(* Findings and their credentials.                                         *)

TickKind(k) ==
  /\ wizardStep = "discovered" /\ \E s \in ToSet(found) : Services[s].kind = k
  /\ ticked' = SymDiff(ticked, {k})
  /\ UNCHANGED <<wizardStep, picked, found, selectedFindings, credentials, form, files>>

\* commitSelectedFindings: the groups by kind, the members as found.
KindPlace(k) == CHOOSE i \in DOMAIN KindOrder : KindOrder[i] = k
Grouped(S) ==
  {p \in S \X S :
     LET a == Services[p[1]].kind
         b == Services[p[2]].kind
     IN  KindPlace(a) < KindPlace(b) \/ (a = b /\ p[1] < p[2])}

Kept(kinds) == {s \in ToSet(found) : Services[s].kind \in kinds}
Flattened(kinds) == Arranged(Kept(kinds), Grouped(Kept(kinds)))

NeedsAnswer(s) == Services[s].auth # "none"

CommitFindings ==
  /\ wizardStep = "discovered"
  /\ selectedFindings' = Flattened(ticked)
  /\ queue' = Rising({i \in DOMAIN selectedFindings' : NeedsAnswer(selectedFindings'[i])})
  /\ authEnv' = [i \in 1..Len(selectedFindings') |-> NoEnv]
  /\ wizardStep' = IF queue' = <<>> THEN "hints" ELSE "credentials"
  /\ UNCHANGED <<picked, found, ticked, credAnswered, box, asked, form, files>>

Current == selectedFindings[queue[asked + 1]]

TypeAnswer(f) ==
  /\ wizardStep = "credentials"
  /\ \A i \in DOMAIN box : box[i].of # Current
  /\ box' = Append(box, [of |-> Current, form |-> f])
  /\ UNCHANGED <<wizardStep, chosen, queue, credAnswered, authEnv, asked, form, files>>

EmptyBox ==
  /\ wizardStep = "credentials" /\ box # <<>>
  /\ box' = <<>>
  /\ UNCHANGED <<wizardStep, chosen, queue, credAnswered, authEnv, asked, form, files>>

AdvanceCredOrHints ==
  /\ asked' = asked + 1
  /\ wizardStep' = IF asked' = Len(queue) THEN "hints" ELSE wizardStep

\* Esc, or Enter in an empty box.  Esc leaves what stands in the box.
SkipCredential ==
  /\ wizardStep = "credentials"
  /\ tidy => box = <<>>
  /\ AdvanceCredOrHints
  /\ UNCHANGED <<chosen, queue, credAnswered, authEnv, box, form, files>>

\* Variant: what was typed stays.
BoxStays == box

\* The box after an answer was taken.
BoxAfter == <<>>

Accept(env) ==
  /\ authEnv' = [authEnv EXCEPT ![queue[asked + 1]] = env]
  /\ credAnswered' = Append(credAnswered, [finding |-> Current, env |-> env])
  /\ box' = BoxAfter
  /\ AdvanceCredOrHints
  /\ UNCHANGED <<chosen, queue, form, profile, configFile>>

\* What stands first in the box decides; a lone "$" names no variable.
IsReference == Head(box).form = "reference" \/ (Head(box).form = "dollar" /\ Len(box) > 1)

AnswerReference ==
  /\ wizardStep = "credentials" /\ box # <<>> /\ IsReference
  /\ Accept(Given)
  /\ UNCHANGED vault

\* What secrets.Add leaves, and what a dry run does.
VaultWith(name) == IF dryRun THEN vault ELSE [vault EXCEPT ![name] = box]

AnswerLiteral ==
  /\ wizardStep = "credentials" /\ box # <<>> /\ Head(box).form = "literal"
  /\ vault' = VaultWith(Generated(Current))
  /\ Accept(Generated(Current))

\* An error of secrets.Add, or of "$" alone, asks again.
AnswerRefused ==
  /\ wizardStep = "credentials" /\ box # <<>>
  /\ (Head(box).form = "literal" /\ ~dryRun) \/ (Head(box).form = "dollar" /\ Len(box) = 1)
  /\ UNCHANGED <<wizardStep, chosen, credentials, form, files>>

---------------------------------------------------------------------------
(* Hints, limits and skills.                                               *)

Count(seq, k) == Cardinality({i \in DOMAIN seq : seq[i].kind = k})

\* The name of the next hint of kind k is k-n.
HintName(k) == <<Count(hints, k) + 1, k>>

\* A line of another kind is an error, and asked again.
Understood(k) == k \in HintKinds

AddHint(k) ==
  /\ wizardStep = "hints" /\ lines < MaxHints
  /\ lines' = lines + 1
  /\ hints' = IF Understood(k) THEN Append(hints, [kind |-> k, name |-> HintName(k)]) ELSE hints
  /\ UNCHANGED <<wizardStep, chosen, credentials, focused, allow, files>>

HintsDone ==
  /\ wizardStep = "hints"
  /\ wizardStep' = "fillin"
  /\ focused' = 1 /\ allow' = FALSE
  /\ UNCHANGED <<chosen, credentials, hints, lines, files>>

\* Tab and Shift+Tab go round the four inputs.
MoveFocus ==
  /\ wizardStep = "fillin"
  /\ focused' \in {(focused % 4) + 1, ((focused + 2) % 4) + 1}
  /\ UNCHANGED <<wizardStep, chosen, credentials, hints, lines, allow, files>>

\* Only the fourth input bears on a property.
TypeAllow ==
  /\ wizardStep = "fillin" /\ focused = 4
  /\ allow' = ~allow
  /\ UNCHANGED <<wizardStep, chosen, credentials, hints, lines, focused, files>>

EnterInput ==
  /\ wizardStep = "fillin"
  /\ IF focused < 4 THEN focused' = focused + 1 /\ UNCHANGED wizardStep
                    ELSE wizardStep' = "skills" /\ UNCHANGED focused
  /\ UNCHANGED <<chosen, credentials, hints, lines, allow, files>>

SkillsDone ==
  /\ wizardStep = "skills"
  /\ wizardStep' = "save"
  /\ UNCHANGED <<chosen, credentials, form, files>>

---------------------------------------------------------------------------
(* The files.                                                              *)

\* The prefix of a name is the kind, but "prom" for Prometheus.
Prefix(k) == IF k = "prometheus" THEN "prom" ELSE k

\* Applied: applyAuthToProm and applyAuthToHTTP take a bearer or basic
\* credential, a database any.
Applied(s, env) ==
  IF Services[s].kind \in DbKinds \/ Services[s].auth \in {"basic", "bearer"} THEN env ELSE NoEnv

\* Variant: the map is read by the place in the queue of questions.
EnvByPlace(i) == IF i \in DOMAIN queue THEN authEnv[queue[i]] ELSE NoEnv

\* The variable of the finding at index i of selectedFindings.
EnvOf(i) == authEnv[i]

ConvertFindings ==
  [i \in DOMAIN selectedFindings |->
    LET s == selectedFindings[i]
        n == Cardinality({j \in 1..i : Services[selectedFindings[j]].kind = Services[s].kind})
    IN  [origin |-> "found", of |-> s, name |-> <<n, Prefix(Services[s].kind)>>,
         via |-> Via(s), env |-> Applied(s, EnvOf(i))]]

ConvertHints ==
  [i \in DOMAIN hints |->
    [origin |-> "hinted", of |-> i, name |-> hints[i].name, via |-> 0, env |-> NoEnv]]

Written ==
  [endpoints |-> ConvertFindings \o ConvertHints, allow |-> allow, fresh |-> TRUE]

\* persistConfig: the profile first, then the config.
PersistFails(half) ==
  /\ wizardStep = "save" /\ ~dryRun
  /\ profile' = IF half THEN "new" ELSE profile
  /\ saveErr' = TRUE
  /\ wizardStep' = "done"
  /\ UNCHANGED <<chosen, credentials, form, vault, configFile>>

Persist ==
  /\ wizardStep = "save"
  /\ profile' = IF dryRun THEN profile ELSE "new"
  /\ configFile' = IF dryRun THEN configFile ELSE Written
  /\ wizardStep' = "done"
  /\ UNCHANGED <<saveErr, chosen, credentials, form, vault>>

Key ==
  /\ ~aborted
  /\ UNCHANGED <<dryRun, auto, tidy, aborted, saveErr>>
  /\ \/ \E c \in Contexts : PickContext(c)
     \/ PickAll
     \/ StartScan
     \/ \E k \in Kinds : TickKind(k)
     \/ CommitFindings
     \/ \E f \in Forms : TypeAnswer(f)
     \/ EmptyBox
     \/ SkipCredential
     \/ AnswerReference
     \/ AnswerLiteral
     \/ AnswerRefused
     \/ \E k \in HintLines : AddHint(k)
     \/ HintsDone
     \/ MoveFocus
     \/ TypeAllow
     \/ EnterInput
     \/ SkillsDone

Message ==
  /\ UNCHANGED <<dryRun, auto, tidy, aborted>>
  /\ \/ /\ UNCHANGED saveErr
        /\ \/ \E heard \in SUBSET (Kinds \X Contexts), proxied \in BOOLEAN : ScanFinished(heard, proxied)
           \/ AutoScanDone
     \/ \E half \in BOOLEAN : PersistFails(half)
     \/ Persist

WizardNext == Quit \/ Key \/ Message

WizardSpec == WizardInit /\ [][WizardNext]_wizardVars

---------------------------------------------------------------------------
FoundEndpoints == {e \in ToSet(configFile.endpoints) : e.origin = "found"}
AnswerOf(s) ==
  IF \E a \in ToSet(credAnswered) : a.finding = s
  THEN (CHOOSE a \in ToSet(credAnswered) : a.finding = s).env
  ELSE NoEnv

\* An endpoint is saved for each finding of a selected group, once, and for
\* no other: what the operator unticks is not wired.
ChoiceSaved ==
  configFile.fresh /\ ~auto =>
    /\ {e.of : e \in FoundEndpoints} = {s \in ToSet(found) : Services[s].kind \in ticked}
    /\ Cardinality(FoundEndpoints) = Len(selectedFindings)

\* The map of credentials is keyed by the place of a finding in one list and
\* filled from a queue with other places; still each saved endpoint names
\* the variable that the transcript shows for it, and none if none was given.
AuthFollowsAnswers ==
  configFile.fresh => \A e \in FoundEndpoints : e.env = AnswerOf(e.of)

\* A variable that an endpoint will read holds what the operator typed for a
\* finding of that name, and nothing typed for another.  This needs an
\* operator who does not skip a question with text in the box: Esc leaves
\* the text there, before the answer to the next question.
SecretIsItsOwn ==
  tidy /\ ~dryRun =>
    \A env \in ToSet(authEnv) \cap Names :
      Len(vault[env]) = 1 /\ Generated(vault[env][1].of) = env

\* A dry run leaves no file, whatever was answered on the way.
DryRunWritesNothing ==
  dryRun => profile = "old" /\ configFile = Untouched /\ \A n \in Names : vault[n] = <<>>

\* The two files are written one after the other; a wizard that reports
\* success has written both, and a new config never stands by an old profile.
SavedTogether ==
  /\ wizardStep = "done" /\ ~saveErr /\ ~dryRun => profile = "new" /\ configFile.fresh
  /\ configFile.fresh => profile = "new"

\* A name is the key under which the tools find an endpoint.  Findings get
\* names apart, and so do hints; only a hint may take the name of a finding,
\* since the two count on their own.
NamesApart ==
  \A i, j \in DOMAIN configFile.endpoints :
    LET e == configFile.endpoints[i]
        f == configFile.endpoints[j]
    IN  i # j /\ e.name = f.name => e.origin # f.origin

\* What the comment in RunDiscovery says of several contexts: the detectors
\* route each finding to its own, so that an endpoint leads to the cluster
\* in which its service was found.
EndpointLeadsHome ==
  \A e \in FoundEndpoints : e.via = Services[e.of].ctx

\* The endpoints of the configuration are those chosen, each under a name of
\* its own and with the credential that was given for it.
EndpointsAsChosen == WizardTypeOK /\ ChoiceSaved /\ AuthFollowsAnswers /\ NamesApart

\* The files hold what was answered, together, or nothing.
FilesAsAnswered == SecretIsItsOwn /\ DryRunWritesNothing /\ SavedTogether

\* What the wizard leaves behind is what it was told.
WizardAsTold == EndpointsAsChosen /\ FilesAsAnswered
=============================================================================
