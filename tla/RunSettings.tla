----------------------------- MODULE RunSettings -----------------------------
(***************************************************************************)
(* The settings of a run on their way: from the form of the terminal       *)
(* interface (tui/run_form.py, tui/app.py) to a RunConfig (experiment.py), *)
(* to a command line, through the parser (run_args.py) and the second      *)
(* validation of cli/run.py, to the options frozen in run_state.json       *)
(* (host/run_state.py); and from there, by the catalogue of experiments    *)
(* (tui/experiment_catalog.py) and the review of a destination             *)
(* (tui/recovery.py), back to the form or to a command that resumes.       *)
(* Settings are also kept as defaults (tui/settings.py), typed on a        *)
(* command line, and frozen by acprof auto (host/automation.py).           *)
(*                                                                         *)
(* One option stands for each way an option is treated: required and       *)
(* optional texts, numbers, choices, files, flags with and without an      *)
(* opposite, and those the form does not show.  An output root is          *)
(* <<base, k>>, base/experiment-<k> for k > 0.  Background threads and     *)
(* environment checks around a review are ScreenTasks.                     *)
(***************************************************************************)
EXTENDS Integers, Sequences

CONSTANTS
    Inputs,         \* <<field, value>> a user may enter in the form
    Typed,          \* command lines of acprof run and acprof auto
    Presets,        \* of those the interface offers
    MaxEdits,       \* bound: changes of the form, the defaults and the declaration
    MaxStarts       \* bound: reviews and commands

VARIABLES
    runForm,        \* the widgets: fields as they read, and _extra_run_options
    source,         \* history: the experiment the form was reused from
    settings,       \* tui.json: run_defaults and last_model
    declaration,    \* what the file of --model-spec says
    experiments,    \* result directories with their frozen options
    dialog,         \* the open review
    child,          \* the child of the interface or a command of a shell
    allowance       \* what is left of the bounds

settingVars == <<runForm, source, settings, declaration, experiments, dialog, child, allowance>>
-----------------------------------------------------------------------------
(* Options                                                                 *)

Absent == "absent"
NoText == ""
Required == {"model", "cpus", "gpus", "hz", "compute"}
Optional == {"revision", "scales", "policy", "spec"}
Shown == Required \cup Optional \cup {"output", "notify", "prune", "resume"}
Hidden == {"seed", "slo", "keep", "device"}
Declared == Shown \cup Hidden
Texts == Required \cup Optional \cup {"device", "notify"}
Derived == {"spec_sha256"}
Ignored == {"resume", "output", "notify"}
Bare == << >>
Part(f, names) == [n \in DOMAIN f \cap names |-> f[n]]
\* f, and g where f says nothing.
Over(f, g) == [n \in DOMAIN f \cup DOMAIN g |-> IF n \in DOMAIN f THEN f[n] ELSE g[n]]

\* What the widgets and the parsers let through: no text is Absent, flags are
\* flags, a policy is one of several, a list of numbers names no model.  Nobody
\* types the fresh root of an attempt before a form has been given it.
Enterable(n, v) ==
    /\ n \in Texts => v # Absent
    /\ n \in {"prune", "resume"} => v \in BOOLEAN
    /\ n = "policy" => v # NoText
    /\ n = "output" => v = <<v[1], 0>>
    /\ n = "model" => v \notin {"1, 2", "20"}

ASSUME SettingsAssumption ==
    /\ \A i \in Inputs : i = <<i[1], i[2]>> /\ Enterable(i[1], i[2])
    /\ \A t \in Typed : \A n \in DOMAIN t : Enterable(n, t[n])
    /\ MaxEdits \in Nat /\ MaxStarts \in Nat

PresetFields == {"cpus", "gpus", "scales", "policy", "hz", "compute", "prune"}

ParserDefaults ==
    Over([n \in Optional \cup {"model", "device"} |-> IF n = "policy" THEN "auto" ELSE Absent],
         [cpus |-> "1,2", gpus |-> "off,on", hz |-> "20.0", compute |-> "none", output |-> <<"results", 0>>,
          notify |-> "auto", prune |-> TRUE, resume |-> FALSE, seed |-> 0, slo |-> << >>, keep |-> TRUE])

ConfigDefaults == [n \in Shown |-> IF n \in Texts /\ ParserDefaults[n] = Absent THEN NoText ELSE ParserDefaults[n]]
SmokeTemplate == [ConfigDefaults EXCEPT !.cpus = "1", !.gpus = "off", !.policy = "minimal",
                                !.output = <<"smoke", 0>>, !.notify = "none"]
PresetValue(p) == IF p = "smoke" THEN SmokeTemplate ELSE ConfigDefaults

\* Commas and spaces, floats, and paths: how a text reads once it is normalised.
Tidy(v) == CASE v = "1, 2" -> "1,2" [] v = "20" -> "20.0" [] OTHER -> v
AbsolutePath(path) == IF path = "spec" THEN "/spec" ELSE path
\* The form shows 20.0 as 20.
Displayed(n, v) == IF n = "hz" /\ v = "20.0" THEN "20" ELSE v

Config(fields_, extra_) == [fields |-> fields_, extra |-> extra_]

\* from_namespace
FromNamespace(given) ==
    [n \in Shown |-> IF n \notin DOMAIN given \/ (n \in Texts /\ given[n] = Absent)
                     THEN ConfigDefaults[n] ELSE given[n]]
-----------------------------------------------------------------------------
(* Validation and command lines                                            *)

\* arguments_from_options refuses what no parser declares.
Serializable(options) == DOMAIN options \subseteq Declared

\* Mutant: what is false or empty is not worth an argument.
Arguments_Truthy(options) ==
    [n \in {m \in DOMAIN options : CASE m = "slo" -> options[m] # << >> [] m = "seed" -> options[m] # 0
                                     [] m \in Texts -> options[m] \notin {Absent, NoText}
                                     [] m = "output" -> TRUE [] OTHER -> options[m]} |-> options[n]]

\* A flag whose value no option can set is left out if it is the default.
Arguments(options) ==
    [n \in {m \in DOMAIN options : CASE m = "slo" -> options[m] # << >>
                                     [] m \in Texts -> options[m] # Absent
                                     [] m = "resume" -> options[m]
                                     [] OTHER -> TRUE} |-> options[n]]

Valid(c) ==
    /\ Serializable(c.extra) /\ DOMAIN c.extra \cap Shown = {}
    /\ c.fields.model # NoText /\ c.fields.cpus # "0"
    /\ c.fields.compute \in {"none", "both"}
    /\ c.fields.spec # NoText => declaration # "unreadable"

Normal(c) == [c EXCEPT !.fields = [n \in Shown |-> IF n \in Texts THEN Tidy(@[n]) ELSE @[n]]]

Omitted(f) == {n \in Optional : f[n] = NoText} \cup {n \in {"prune"} : f.prune} \cup {n \in {"resume"} : ~f.resume}

\* build_run_command
BuildCommand(c) ==
    LET f == Normal(c).fields IN Over(Part(f, Shown \ Omitted(f)), Arguments(c.extra))

ParsedArgs(command) == Over(Part(command, Declared), ParserDefaults)

\* cli/run.py: the fields of a validated RunConfig replace the arguments.
Accepted(given) == Valid(Config(FromNamespace(given), Bare))
Settled(given) == Over(Normal(Config(FromNamespace(given), Bare)).fields, given)

\* run_options
FrozenOptions(given, device) ==
    LET unset == {n \in {"policy"} : given.policy = "auto"} \cup {n \in {"spec"} : given.spec = NoText}
                 \cup {n \in {"device"} : given.device = Absent /\ device = Absent}
        specs == IF given.spec = NoText THEN Bare ELSE [spec |-> AbsolutePath(given.spec), spec_sha256 |-> declaration]
        gpu == IF device = Absent THEN Bare ELSE [device |-> device]
    IN  Over(specs, Over(gpu, Part(given, DOMAIN given \ (Ignored \cup unset))))

\* The runner pins the GPU before it freezes the options; the interface does not.
Pinned(given) == IF given.gpus = "off" THEN Absent ELSE "GPU-1"
-----------------------------------------------------------------------------
(* Experiments on disk                                                     *)

Place(f) == <<f.output, f.model>>
InPlace(place) == {e \in experiments : e.place = place}
Incomplete(e) == ~e.done

\* new_experiment_config: beside an earlier attempt, not below it.
FreshRoot(root, k) == <<root[1], k>>
NewAttempt(c, root, k) == [c EXCEPT !.fields.output = FreshRoot(root, k), !.fields.resume = FALSE]

\* config_from_record
Recorded(e) == Config(FromNamespace(e.options), Part(e.options, DOMAIN e.options \ (Shown \cup Derived)))
ToReuse(e, k) ==
    LET c == IF e.pin = Absent THEN Recorded(e) ELSE [Recorded(e) EXCEPT !.fields.revision = e.pin]
    IN  NewAttempt(c, e.place[1], k)
ToResume(e) == [Recorded(e) EXCEPT !.fields.output = e.place[1], !.fields.resume = TRUE]

\* resume_command, from all frozen options and not from the form.
ResumeOptions(e) == Part(e.options, DOMAIN e.options \ (Derived \cup Ignored))
ResumeCommand(e) == Over([resume |-> TRUE, output |-> e.place[1]], Arguments(ResumeOptions(e)))

\* validate_resume
Same(e, options) == e.options = options

\* A command with the configuration it was built from, while the declaration read so.
Proposed(command_, config_) == [command |-> command_, config |-> config_, declared |-> declaration]

Writing(place) == child.phase # "none" /\ child.place = place

ResumeOffer(e, c) ==
    IF /\ Incomplete(e) /\ ~Writing(e.place)
       /\ Serializable(ResumeOptions(e)) /\ Accepted(ParsedArgs(ResumeCommand(e)))
       /\ Same(e, FrozenOptions(Settled(ParsedArgs(ResumeCommand(e))), Absent))
       /\ Valid(ToResume(e))
    THEN {Proposed(Over([notify |-> c.fields.notify], ResumeCommand(e)),
                  [Normal(ToResume(e)) EXCEPT !.fields.notify = c.fields.notify])}
    ELSE {}

\* A fresh attempt at the same revision is one at the commit that was found.
RestartOffer(found, c, k) ==
    LET fresh == NewAttempt(c, c.fields.output, k)
        pins == {e.pin : e \in {x \in found : /\ x.pin # Absent /\ c.fields.model = x.options.model
                                              /\ c.fields.revision = x.options.revision}}
        config == IF pins = {} THEN fresh ELSE [fresh EXCEPT !.fields.revision = CHOOSE p \in pins : TRUE]
    IN  IF Valid(config) THEN {Proposed(BuildCommand(config), config)} ELSE {}

NoOffers == [resume |-> {}, restart |-> {}, direct |-> FALSE]
\* review_recovery: chosen is the record somebody selected, or nothing.
Assessed(c, chosen, k) ==
    LET found == IF chosen = {} THEN InPlace(Place(c.fields)) ELSE chosen \cap experiments
    IN  IF chosen = {} /\ ~c.fields.resume /\ found = {} THEN [NoOffers EXCEPT !.direct = TRUE]
        ELSE [resume |-> UNION {ResumeOffer(e, c) : e \in found}, restart |-> RestartOffer(found, c, k), direct |-> FALSE]
-----------------------------------------------------------------------------
(* The form                                                                *)

NoSource == <<>>
NoDialog == [open |-> FALSE, offers |-> NoOffers, record |-> {}]
NoRun == [phase |-> "none", place |-> NoSource, config |-> Config(ConfigDefaults, Bare),
          given |-> Bare, screen |-> FALSE, seen |-> [declared |-> NoText, there |-> {}]]

FormOf(c) == [c EXCEPT !.fields = [n \in Shown |-> Displayed(n, @[n])]]
Opened(saved) ==
    LET c == IF saved.defaults = {} THEN Config(SmokeTemplate, Bare) ELSE CHOOSE d \in saved.defaults : TRUE
    IN  IF saved.last \in {NoText, c.fields.model} THEN c
        ELSE [c EXCEPT !.fields.model = saved.last, !.fields.revision = NoText]

SettingsInit ==
    /\ settings = [defaults |-> {}, last |-> NoText]
    /\ runForm = FormOf(Config(SmokeTemplate, Bare)) /\ source = NoSource
    /\ declaration = "v1" /\ experiments = {} /\ dialog = NoDialog /\ child = NoRun
    /\ allowance = [edits |-> MaxEdits, starts |-> MaxStarts]

Free == ~dialog.open /\ ~(child.phase # "none" /\ child.screen)
Spent(what) == allowance[what] > 0 /\ allowance' = [allowance EXCEPT ![what] = @ - 1]
ShowConfig(c) == runForm' = FormOf(c)

EnterField ==
    /\ Free /\ Spent("edits")
    /\ \E i \in Inputs : /\ runForm.fields[i[1]] # i[2]
                         /\ runForm' = [runForm EXCEPT !.fields[i[1]] = i[2]]
    /\ source' = NoSource
    /\ UNCHANGED <<settings, declaration, experiments, dialog, child>>

\* The form may be without a model where no run is started.
Collectable == Valid([runForm EXCEPT !.fields.model = IF @ = NoText THEN "default" ELSE @])

\* with_preset
PresetOf(c, p) == [c EXCEPT !.fields = Over(Part(PresetValue(p), PresetFields), @)]
PresetAllowed(c, p) == c.fields.resume => PresetOf(c, p) = c

ChoosePreset ==
    /\ Free /\ Collectable /\ Spent("edits")
    /\ \E p \in Presets : PresetAllowed(Normal(runForm), p) /\ ShowConfig(PresetOf(Normal(runForm), p))
    /\ source' = NoSource
    /\ UNCHANGED <<settings, declaration, experiments, dialog, child>>

SaveDefaults ==
    /\ Free /\ Collectable /\ Spent("edits")
    /\ settings' = [settings EXCEPT !.defaults = {Normal(runForm)}]
    /\ UNCHANGED <<runForm, source, declaration, experiments, dialog, child>>

\* load_settings gives defaults where what is saved is not valid any more; then
\* acprof tui --model m --preset p.
Reopen ==
    /\ Free /\ Spent("edits")
    /\ \E m \in {NoText, "m1", "m2"}, p \in Presets \cup {NoText} :
         LET usable == \A c \in settings.defaults :
                          Valid([c EXCEPT !.fields.model = IF @ = NoText THEN "default" ELSE @])
             c == Opened(IF usable THEN settings ELSE [defaults |-> {}, last |-> NoText])
             d == IF m \in {NoText, c.fields.model} THEN c ELSE [c EXCEPT !.fields.model = m, !.fields.revision = NoText]
         IN  /\ p # NoText => PresetAllowed(d, p)
             /\ ShowConfig(IF p = NoText THEN d ELSE PresetOf(d, p))
    /\ source' = NoSource
    /\ UNCHANGED <<settings, declaration, experiments, dialog, child>>

ReuseExperiment(e) ==
    /\ Free /\ Spent("starts")
    /\ ShowConfig(ToReuse(e, allowance.starts)) /\ source' = e.place
    /\ UNCHANGED <<settings, declaration, experiments, dialog, child>>
-----------------------------------------------------------------------------
(* Starts                                                                  *)

StartsRun(p, screen_) ==
    child' = [phase |-> "starting", place |-> Place(ParsedArgs(p.command)), config |-> p.config,
                given |-> p.command, screen |-> screen_,
                seen |-> [declared |-> p.declared, there |-> InPlace(Place(ParsedArgs(p.command)))]]
\* _launch, with what it remembers.
Launched(p) ==
    /\ ShowConfig(p.config) /\ StartsRun(p, TRUE) /\ dialog' = NoDialog /\ source' = NoSource
    /\ settings' = [settings EXCEPT !.last = p.config.fields.model]

\* _show_recovery_review
ReviewThen(p, chosen, confirmed) ==
    LET r == Assessed(p.config, chosen, allowance.starts)
    IN  IF r.direct THEN Launched(p)
        ELSE IF confirmed /\ p.config.fields.resume /\ r.resume # {} THEN \E q \in r.resume : Launched(q)
        ELSE /\ dialog' = [open |-> TRUE, offers |-> r,
                           record |-> IF chosen = {} THEN InPlace(Place(p.config.fields)) ELSE chosen \cap experiments]
             /\ UNCHANGED <<runForm, source, settings, child>>

PressStart ==
    /\ Free /\ child = NoRun /\ Valid(runForm) /\ Spent("starts")
    /\ ReviewThen(Proposed(BuildCommand(runForm), Normal(runForm)), {}, FALSE)
    /\ UNCHANGED <<declaration, experiments>>

ResumeChosen(e) ==
    /\ Free /\ child = NoRun /\ Valid(ToResume(e)) /\ Spent("starts")
    /\ ReviewThen(Proposed(BuildCommand(ToResume(e)), ToResume(e)), {e}, FALSE)
    /\ UNCHANGED <<declaration, experiments>>

\* The dialog is answered; everything is read once more before the launch.
AnswerReview ==
    /\ dialog.open /\ child = NoRun
    /\ \/ dialog' = NoDialog /\ UNCHANGED <<runForm, source, settings, child, allowance>>
       \/ Spent("starts") /\ \E p \in dialog.offers.resume : ReviewThen(p, dialog.record, TRUE)
       \/ Spent("starts") /\ \E p \in dialog.offers.restart : ReviewThen(p, {}, TRUE)
    /\ UNCHANGED <<declaration, experiments>>

TypeCommand ==
    /\ child = NoRun /\ Spent("starts")
    /\ \E t \in Typed : StartsRun(Proposed(t, Config(ConfigDefaults, Bare)), FALSE)
    /\ UNCHANGED <<runForm, source, settings, declaration, experiments, dialog>>
-----------------------------------------------------------------------------
(* The run                                                                 *)

\* AutomaticRun.prepare: the commit that was found, and two attributes more.
Prepared(command) ==
    IF "requested" \notin DOMAIN command THEN ParsedArgs(command)
    ELSE Over([revision |-> "commit", requested |-> command.requested, identity |-> "found"],
              ParsedArgs(command))

Given == Prepared(child.given)
Freezes == FrozenOptions(Settled(Given), Pinned(Settled(Given)))
Continues == {e \in InPlace(child.place) : Incomplete(e) /\ Same(e, Freezes)}
MayBegin == Accepted(Given) /\ IF Given.resume THEN Continues # {} ELSE InPlace(child.place) = {}

BeginNew ==
    /\ child.phase = "starting" /\ MayBegin /\ ~Given.resume
    /\ \E pin \in IF "requested" \in DOMAIN child.given THEN {"commit"} ELSE {Absent, "commit"} :
         experiments' = experiments \cup {[place |-> child.place, options |-> Freezes, pin |-> pin, done |-> FALSE]}
    /\ child' = [child EXCEPT !.phase = "measuring"]
    /\ UNCHANGED <<runForm, source, settings, declaration, dialog, allowance>>

ContinueOld ==
    /\ child.phase = "starting" /\ MayBegin /\ Given.resume
    /\ child' = [child EXCEPT !.phase = "measuring"]
    /\ UNCHANGED <<runForm, source, settings, declaration, experiments, dialog, allowance>>

\* The parser's error, a directory in use, another experiment or a complete one.
Refused ==
    /\ child.phase = "starting" /\ ~MayBegin
    /\ child' = NoRun
    /\ UNCHANGED <<runForm, source, settings, declaration, experiments, dialog, allowance>>

RunEnds(complete) ==
    /\ child.phase = "measuring"
    /\ experiments' = {IF e.place = child.place THEN [e EXCEPT !.done = complete] ELSE e : e \in experiments}
    /\ child' = NoRun
    /\ UNCHANGED <<runForm, source, settings, declaration, dialog, allowance>>

EditDeclaration ==
    /\ Spent("edits")
    /\ \E v \in {"v1", "v2", "unreadable"} \ {declaration} : declaration' = v
    /\ UNCHANGED <<runForm, source, settings, experiments, dialog, child>>

SettingsNext ==
    \/ EnterField \/ ChoosePreset \/ SaveDefaults \/ Reopen \/ EditDeclaration
    \/ \E e \in experiments : ReuseExperiment(e) \/ ResumeChosen(e)
    \/ PressStart \/ AnswerReview \/ TypeCommand
    \/ BeginNew \/ ContinueOld \/ Refused \/ \E complete \in BOOLEAN : RunEnds(complete)

SettingsSpec == SettingsInit /\ [][SettingsNext]_settingVars
-----------------------------------------------------------------------------
(* Properties                                                              *)

\* What a configuration and what frozen options say of one option.
Means(c, n) == IF n \in Shown THEN Normal(c).fields[n]
               ELSE IF n \in DOMAIN c.extra THEN c.extra[n] ELSE ParserDefaults[n]
Stated(options, n) == IF n \in DOMAIN options THEN options[n]
                    ELSE IF n \in Shown THEN ConfigDefaults[n] ELSE ParserDefaults[n]
Agree(c, options, names) ==
    \A n \in names : CASE n = "spec" -> AbsolutePath(Means(c, n)) = Stated(options, n)
                       [] n = "device" -> Stated(options, "gpus") = "off" => Means(c, n) = Stated(options, n)
                       [] OTHER -> Means(c, n) = Stated(options, n)

\* What is measured is what was on the screen when it was started, the options
\* the form does not show included, in the directory it named.
ShownIsFrozen ==
    child.phase = "measuring" /\ child.screen =>
        /\ child.place = Place(child.config.fields)
        /\ \E e \in InPlace(child.place) : Agree(child.config, e.options, Declared \ Ignored)

\* The run does not refuse what the review has offered and nobody has touched.
OffersHold ==
    child.phase = "starting" /\ child.screen
        /\ child.seen = [declared |-> declaration, there |-> InPlace(child.place)] => MayBegin

\* A form filled in from an experiment says what was frozen, but names the commit.
ReusedIsSame ==
    \A e \in experiments : source = e.place =>
        /\ Agree(runForm, e.options, Declared \ (Ignored \cup {"revision"}))
        /\ runForm.fields.revision \in {e.pin, Stated(e.options, "revision")}
        /\ InPlace(Place(runForm.fields)) = {} /\ ~runForm.fields.resume

\* What was frozen stays, and a complete experiment stays complete.
FrozenStays ==
    [][\A e \in experiments : \E f \in experiments' :
          f.place = e.place /\ f.options = e.options /\ (e.done => f.done)]_settingVars

\* Settings survive every conversion (experiment.py, run_args.py, run_form.py,
\* experiment_catalog.py, recovery.py): a started run measures what was shown,
\* an offered resume is accepted by the run, a reused form says what was
\* frozen, and nothing that is started changes what another run has frozen.
SettingsSurvive == [](ShownIsFrozen /\ OffersHold /\ ReusedIsSame) /\ FrozenStays

\* docs/TUI.md:119: an experiment's configuration can be reused; it comes back
\* with the options the form does not show.
ReusedIsUsable == source # NoSource => Serializable(runForm.extra)

\* docs/CLI_Reference.md:353: --compute-profile-tool vendor is one of the tools.
DocumentedIsAccepted == child.phase = "starting" /\ declaration # "unreadable" => Accepted(Given)
=============================================================================
