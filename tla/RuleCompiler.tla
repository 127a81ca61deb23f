---------------------------- MODULE RuleCompiler ----------------------------
(***************************************************************************)
(* RuleManager::TryLoadRulesFromJson (RuleManager.cpp): how the content of   *)
(* rules.json becomes a configuration.  The sections are parsed in a fixed   *)
(* order and the rules of a section one after the other; a rule that cannot  *)
(* be used is skipped, while a section of the wrong shape, a value of the    *)
(* wrong type and too many contains rules give up the whole file.            *)
(*                                                                           *)
(* A text is a core with or without a wildcard before and behind it.  What   *)
(* the driver matches a rule with is the set of <<match type, text>> pairs   *)
(* that hold of each field of a registry operation; a regular expression is  *)
(* the set of the names and command lines in which it is found.  The entries *)
(* that one registry rule expands to form a set: they share its id and       *)
(* stand next to each other, so their order shows nowhere.                   *)
(***************************************************************************)
EXTENDS Integers, Sequences, FiniteSets, FiniteSetsExt, Functions

CONSTANTS
  Documents,    \* contents of rules.json
  Absent,       \* what a part of it that is left out stands for,
  Mistyped,     \* and one of the wrong type or without a meaning
  Texts,        \* values of registry rules, as [lead, trail, core]
  Blank,        \* the core of a text that has nothing but wildcards
  TooLong,      \* [Flags -> SUBSET Texts]: what the driver's buffer cannot hold
  Invalid,      \* a regular expression that does not compile
  Inputs,       \* process names and command lines
  Empty,        \* the input that is not known
  Accepted,     \* [Settings -> SUBSET Int]: the values that may be given
  Defaults,     \* the values when none is given
  MaxContains,  \* MAX_REGISTRY_CONTAINS_RULES
  Operations,   \* registry operations: kind, and the pairs that hold of each field
  Creations     \* process creations: [Positions -> Inputs]

EXACT == 1
PREFIX == 2
SUFFIX == 3
CONTAINS == 4
MatchTypes == {EXACT, PREFIX, SUFFIX, CONTAINS}

Flags == {"process_name", "key_path", "info_class", "value_name", "value_data"}
Positions == 1..4
VerdictSettings == {"timeout_ms", "fail_mode", "capture_parent_cmdline"}
ResponseSettings == {"terminate_on_registry", "min_severity", "cooldown_ms"}
Settings == VerdictSettings \cup ResponseSettings
ProcessLists == {"process_rules", "process_allow_rules"}
RegistryLists == {"registry_rules", "registry_allow_rules"}
Lists == ProcessLists \cup RegistryLists

ASSUME ConstantsAssumption ==
  /\ \A t \in Texts : t.core = Blank => t.lead = t.trail
  /\ TooLong \in [Flags -> SUBSET Texts]
  /\ Empty \in Inputs
  /\ Accepted \in [Settings -> SUBSET Int]
  /\ {0, 1} \subseteq Accepted["capture_parent_cmdline"]
  /\ \A s \in Settings : Defaults[s] \in Accepted[s]
  /\ MaxContains \in Nat
  /\ \A o \in Operations : o.texts \in [Flags -> SUBSET (MatchTypes \X Texts)]
  /\ Creations \subseteq [Positions -> Inputs]

ASSUME TextsAssumption ==
  \A t \in Texts :
    /\ t = [lead |-> t.lead, trail |-> t.trail, core |-> t.core]
    /\ {t.lead, t.trail} \subseteq BOOLEAN
    /\ [lead |-> FALSE, trail |-> FALSE, core |-> t.core] \in Texts

IsDetectionRule(rule) ==
  rule.matchers = Absent \/ rule.matchers \in Seq(Range(rule.matchers))

IsRegistryRule(rule) ==
  /\ DOMAIN rule.fields \subseteq Flags \cup {"new_name"}
  /\ \A f \in DOMAIN rule.fields :
       /\ rule.fields[f].matchType \in MatchTypes \cup {Absent, Mistyped}
       /\ \/ rule.fields[f].values = Mistyped
          \/ rule.fields[f].values \subseteq Texts /\ IsFiniteSet(rule.fields[f].values)

ASSUME DocumentsAssumption ==
  /\ Absent \notin MatchTypes /\ Mistyped \notin MatchTypes /\ Absent # Mistyped
  /\ \A d \in Documents : DOMAIN d.lists = Lists
  /\ \A d \in Documents : \A l \in Lists :
       \/ d.lists[l] \in {Absent, Mistyped}
       \/ /\ d.lists[l] \in Seq(Range(d.lists[l]))
          /\ \A rule \in Range(d.lists[l]) :
               IF l \in ProcessLists THEN IsDetectionRule(rule) ELSE IsRegistryRule(rule)

VARIABLES
  doc,          \* root, the parsed file
  stage,        \* the section that is parsed
  item,         \* the rule of the section that is parsed next
  settings,     \* loadedConfig's process verdict and response settings
  definitions,  \* of each list, the rules accepted so far
  processRules, \* processRules and processAllowRules
  compiled,     \* registryRules and registryAllowRules, a set per definition
  stats         \* aggregateStats of each list: how many rules of each class

rules == <<definitions, processRules, compiled, stats>>
vars == <<doc, stage, item, settings, rules>>

\* The order of TryLoadRulesFromJson.  A file whose root is an array has
\* process rules only.
After(s) ==
  CASE s = "root" -> IF doc.root = "array" THEN "process_rules" ELSE "process_verdict"
    [] s = "process_verdict" -> "response"
    [] s = "response" -> "process_rules"
    [] s = "process_rules" -> IF doc.root = "array" THEN "done" ELSE "process_allow_rules"
    [] s = "process_allow_rules" -> "registry_rules"
    [] s = "registry_rules" -> "registry_allow_rules"
    [] s = "registry_allow_rules" -> "done"

TypeOK ==
  /\ DOMAIN doc.lists = Lists
  /\ stage \in {"root", "process_verdict", "response", "done", "failed"} \cup Lists
  /\ item \in Nat \ {0}
  /\ \A s \in Settings : settings[s] \in Accepted[s]
  /\ DOMAIN definitions = Lists
  /\ \A l \in Lists : \A k \in DOMAIN definitions[l] :
       definitions[l][k] \in DOMAIN doc.lists[l]
  /\ \A l \in ProcessLists : Len(processRules[l]) = Len(definitions[l])
  /\ \A l \in RegistryLists : Len(compiled[l]) = Len(definitions[l])
  /\ stats \in [RegistryLists -> [MatchTypes -> Nat]]

Init ==
  /\ doc \in Documents
  /\ stage = "root" /\ item = 1
  /\ settings = Defaults
  /\ definitions = [l \in Lists |-> <<>>]
  /\ processRules = [l \in ProcessLists |-> <<>>]
  /\ compiled = [l \in RegistryLists |-> <<>>]
  /\ stats = [l \in RegistryLists |-> [t \in MatchTypes |-> 0]]

Advance == stage' = After(stage) /\ item' = 1
GiveUp == stage' = "failed" /\ UNCHANGED <<item, settings, rules>>

-----------------------------------------------------------------------------
(* The settings.  Each may be given in the node of its section or at the   *)
(* root, where it is looked for if the node leaves it out.                 *)

\* json::parse and the type of the root and of the version strings.
ParseRoot ==
  /\ stage = "root"
  /\ UNCHANGED doc
  /\ \/ doc.root \in {"object", "array"} /\ Advance /\ UNCHANGED <<settings, rules>>
     \/ doc.root \notin {"object", "array"} /\ GiveUp

Given(s) == IF s \in DOMAIN doc.nested THEN doc.nested[s]
            ELSE IF s \in DOMAIN doc.flat THEN doc.flat[s] ELSE Defaults[s]

\* Mutant: only the type of a setting is looked at.
Readable(s) == Given(s) # Mistyped

\* A boolean is 0 or 1, and any other number switches the capture off.
Usable(s) ==
  Given(s) # Mistyped /\ (s = "capture_parent_cmdline" \/ Given(s) \in Accepted[s])

Parsed(s) ==
  IF s = "capture_parent_cmdline" THEN (IF Given(s) = 1 THEN 1 ELSE 0) ELSE Given(s)

ParseSettings(section, names) ==
  /\ stage = section
  /\ UNCHANGED doc
  /\ IF section \notin doc.notObjects /\ \A s \in names : Usable(s)
     THEN /\ Advance
          /\ settings' = [s \in Settings |-> IF s \in names THEN Parsed(s) ELSE settings[s]]
          /\ UNCHANGED rules
     ELSE GiveUp

ParseProcessVerdictConfig == ParseSettings("process_verdict", VerdictSettings)
ParseAutoResponseConfig == ParseSettings("response", ResponseSettings)

-----------------------------------------------------------------------------
(* Process rules.                                                          *)

Known(rule) == {i \in DOMAIN rule.matchers : rule.matchers[i].position \in Positions}

\* The regular expressions of a position that compile, up to matcher n.
Patterns(rule, p, n) ==
  UNION {rule.matchers[i].values \ {Invalid} :
           i \in {j \in Known(rule) : j <= n /\ rule.matchers[j].position = p}}

Fits(rule, i) ==
  /\ rule.matchers[i].values # Absent
  /\ Patterns(rule, rule.matchers[i].position, i) # {}

\* Mutant: the rule may be left without a position.
UsableWithoutPosition(rule) ==
  rule.matchers # Absent /\ \A i \in Known(rule) : Fits(rule, i)

\* ParseSingleDetectionRule: matchers of unknown positions are passed over.
UsableDetectionRule(rule) ==
  /\ rule.matchers # Absent
  /\ Known(rule) # {}
  /\ \A i \in Known(rule) : Fits(rule, i)

\* What it is compiled to: the enabled groups.
DetectionRule(rule) ==
  [p \in {rule.matchers[i].position : i \in Known(rule)} |->
     Patterns(rule, p, Len(rule.matchers))]

MatchDetectionRule(rule, subject) ==
  \A p \in DOMAIN rule :
    subject[p] # Empty /\ \E regex \in rule[p] : subject[p] \in regex

\* Mutant: the last rule of a list counts as its end.
ThroughEarly(list) == list = Absent \/ (list # Mistyped /\ item >= Len(list))

\* A list of rules that is left out, or at its end.
Through(list) == list = Absent \/ (list # Mistyped /\ item > Len(list))

Accept(l) ==
  /\ item' = item + 1
  /\ UNCHANGED stage
  /\ definitions' = [definitions EXCEPT ![l] = Append(@, item)]

Skip == item' = item + 1 /\ UNCHANGED <<stage, rules>>

ParseDetectionRule(l, rule) ==
  CASE rule.form \in {"mistyped", "badText"} -> GiveUp
    [] rule.form = "object" /\ UsableDetectionRule(rule) ->
         /\ Accept(l)
         /\ processRules' = [processRules EXCEPT ![l] = Append(@, DetectionRule(rule))]
         /\ UNCHANGED <<compiled, stats>>
    [] OTHER -> Skip

ParseDetectionRuleArray ==
  /\ stage \in ProcessLists
  /\ UNCHANGED <<doc, settings>>
  /\ LET list == doc.lists[stage]
     IN  CASE Through(list) -> Advance /\ UNCHANGED rules
           [] list = Mistyped -> GiveUp
           [] OTHER -> ParseDetectionRule(stage, list[item])

-----------------------------------------------------------------------------
(* Registry rules.                                                         *)

DefaultType(f) == IF f = "key_path" THEN CONTAINS ELSE EXACT

\* ClassifyRegistryRuleValueMatchType: wildcards say how a value is matched,
\* unless the field says it, and then they are part of the value.
Classified(f, field, t) ==
  IF field.matchType # Absent THEN field.matchType
  ELSE CASE t.lead /\ t.trail -> CONTAINS
         [] t.lead /\ ~t.trail -> SUFFIX
         [] ~t.lead /\ t.trail -> PREFIX
         [] OTHER -> DefaultType(f)

Normalized(field, t) ==
  IF field.matchType # Absent THEN t ELSE [lead |-> FALSE, trail |-> FALSE, core |-> t.core]

\* Values that are blank are dropped.
RawValues(field) == {t \in field.values : t.core # Blank \/ t.lead}

FieldTypes(f, field) == {Classified(f, field, t) : t \in RawValues(field)}

\* Mutant: values that are matched in different ways are let through.
UsableMixedField(f, field) ==
  /\ field.matchType # Mistyped /\ field.values # Mistyped
  /\ RawValues(field) # {}
  /\ \A t \in RawValues(field) : field.matchType # Absent \/ t.core # Blank

\* ParseRegistryField: one match type for all values, and at least one value.
UsableField(f, field) ==
  /\ field.matchType # Mistyped /\ field.values # Mistyped
  /\ Cardinality(FieldTypes(f, field)) = 1
  /\ \A t \in RawValues(field) : field.matchType # Absent \/ t.core # Blank

\* The fields of a rule; new_name is matched as value_data.
Source(rule, f) ==
  IF f = "value_data" /\ "new_name" \in DOMAIN rule.fields
  THEN rule.fields["new_name"] ELSE rule.fields[f]
Enabled(rule) ==
  (DOMAIN rule.fields \ {"new_name"})
    \cup (IF "new_name" \in DOMAIN rule.fields THEN {"value_data"} ELSE {})

FieldType(rule, f) == CHOOSE t \in FieldTypes(f, Source(rule, f)) : TRUE
FieldValues(rule, f) == {Normalized(Source(rule, f), t) : t \in RawValues(Source(rule, f))}

\* ParseRegistryOperation of the item, then of its body, which resets it.
Operation(rule) == IF rule.operation = "none" THEN "set_value" ELSE rule.operation

UsableRegistryRule(rule) ==
  /\ "bad" \notin {rule.outerOperation, rule.operation}
  /\ ~({"value_data", "new_name"} \subseteq DOMAIN rule.fields)
  /\ Enabled(rule) # {}
  /\ \A f \in Enabled(rule) : UsableField(f, Source(rule, f))

\* ExpandSingleRegistryRule: an entry for every combination of values, or none
\* at all when a value or the id does not fit.
ExpandSingleRegistryRule(rule) ==
  IF rule.id = "tooLong" \/ \E f \in Enabled(rule) : FieldValues(rule, f) \cap TooLong[f] # {}
  THEN {}
  ELSE {[id |-> rule.id, severity |-> rule.severity, operation |-> Operation(rule),
         match |-> [f \in Enabled(rule) |-> <<FieldType(rule, f), choice[f]>>]] :
          choice \in {c \in [Enabled(rule) -> Texts] :
                        \A f \in Enabled(rule) : c[f] \in FieldValues(rule, f)}}

\* PromoteCompiledRuleBucket: the class of an entry is its most general match.
Class(entry) == Max({EXACT} \cup {entry.match[f][1] : f \in DOMAIN entry.match})

CountCompiledRulesByMatchType(entries) ==
  [t \in MatchTypes |-> Cardinality({e \in entries : Class(e) = t})]

\* Mutant: the limit is asked of each rule by itself.
WithinLimitAlone(l, counts) == counts[CONTAINS] <= MaxContains

WithinLimit(l, counts) == stats[l][CONTAINS] + counts[CONTAINS] <= MaxContains

ParseSingleRegistryRule(rule) ==
  IF rule.id # "none" /\ UsableRegistryRule(rule) THEN ExpandSingleRegistryRule(rule) ELSE {}

\* The body of ParseRegistryRuleArray's loop.  A text that does not parse is
\* not looked at in a rule without an id.
ParseRegistryRule(l, rule) ==
  CASE rule.form = "mistyped" \/ (rule.form = "badText" /\ rule.id # "none") -> GiveUp
    [] rule.form = "object" /\ ParseSingleRegistryRule(rule) # {} ->
         LET entries == ParseSingleRegistryRule(rule)
             counts == CountCompiledRulesByMatchType(entries)
         IN  IF ~WithinLimit(l, counts) THEN GiveUp
             ELSE /\ Accept(l)
                  /\ compiled' = [compiled EXCEPT ![l] = Append(@, entries)]
                  /\ stats' = [stats EXCEPT ![l] = [t \in MatchTypes |-> @[t] + counts[t]]]
                  /\ UNCHANGED processRules
    [] OTHER -> Skip

ParseRegistryRuleArray ==
  /\ stage \in RegistryLists
  /\ UNCHANGED <<doc, settings>>
  /\ LET list == doc.lists[stage]
     IN  CASE Through(list) -> Advance /\ UNCHANGED rules
           [] list = Mistyped -> GiveUp
           [] OTHER -> ParseRegistryRule(stage, list[item])

-----------------------------------------------------------------------------
\* The configuration is handed out, or the caller keeps the one it has.
Finished == stage \in {"done", "failed"} /\ UNCHANGED vars

Next ==
  \/ ParseRoot \/ ParseProcessVerdictConfig \/ ParseAutoResponseConfig
  \/ ParseDetectionRuleArray \/ ParseRegistryRuleArray
  \/ Finished

Spec == Init /\ [][Next]_vars

-----------------------------------------------------------------------------
(* Properties.                                                             *)

Declared(l, k) == doc.lists[l][definitions[l][k]]

\* The driver goes through the entries in order and the first that hits
\* decides (external).
Hits(entry, o) ==
  entry.operation = o.kind /\ \A f \in DOMAIN entry.match : entry.match[f] \in o.texts[f]

\* One value of a rule, read by itself.
ValueMeans(f, matchType, t, texts) ==
  LET core == [lead |-> FALSE, trail |-> FALSE, core |-> t.core]
  IN  IF matchType # Absent
      THEN (t.lead \/ t.core # Blank) /\ <<matchType, t>> \in texts
      ELSE \/ t.lead /\ t.trail /\ <<CONTAINS, core>> \in texts
           \/ t.lead /\ ~t.trail /\ <<SUFFIX, core>> \in texts
           \/ ~t.lead /\ t.trail /\ <<PREFIX, core>> \in texts
           \/ ~t.lead /\ ~t.trail /\ t.core # Blank
                /\ <<IF f = "key_path" THEN CONTAINS ELSE EXACT, core>> \in texts

Means(rule, o) ==
  /\ o.kind = IF rule.operation = "none" THEN "set_value" ELSE rule.operation
  /\ \A g \in DOMAIN rule.fields :
       LET f == IF g = "new_name" THEN "value_data" ELSE g
       IN  \E t \in rule.fields[g].values :
             ValueMeans(f, rule.fields[g].matchType, t, o.texts[f])

\* A registry operation is judged by the first rule of rules.json, among those
\* that are not skipped, whose every field has a value that holds of it: the
\* entries a rule expands to hit what the rule means and nothing else, carry
\* its id and severity, and keep its place (RegistryRuleOrderTests.ps1
\* 458-479 rely on the order).
RegistryRulesAsDeclared ==
  stage = "done" => \A l \in RegistryLists : \A k \in DOMAIN compiled[l] :
    /\ \A j \in 1..(k - 1) : definitions[l][j] < definitions[l][k]
    /\ \A e \in compiled[l][k] :
         e.id = Declared(l, k).id /\ e.severity = Declared(l, k).severity
    /\ \A o \in Operations :
         (\E e \in compiled[l][k] : Hits(e, o)) <=> Means(Declared(l, k), o)

\* A process rule matches the creations of which every position it names is
\* known and has a regular expression found in it, and never a creation of
\* which nothing is known: no rule blocks, or allows, everything (340-370,
\* 423-480).
ProcessRulesAsDeclared ==
  stage = "done" => \A l \in ProcessLists : \A k \in DOMAIN processRules[l] :
    LET rule == Declared(l, k)
    IN  /\ ~MatchDetectionRule(processRules[l][k], [p \in Positions |-> Empty])
        /\ \A c \in Creations :
             MatchDetectionRule(processRules[l][k], c) <=>
               \A p \in {m.position : m \in Range(rule.matchers)} \cap Positions :
                 c[p] # Empty /\ \E m \in Range(rule.matchers) :
                   m.position = p /\ \E regex \in m.values \ {Invalid} : c[p] \in regex

\* The rules that may not be skipped, and those that give up the file.
Wanted(l, rule) ==
  /\ rule.form = "object"
  /\ IF l \in ProcessLists THEN UsableDetectionRule(rule)
                           ELSE ParseSingleRegistryRule(rule) # {}
Spoils(l, rule) ==
  \/ rule.form = "mistyped"
  \/ rule.form = "badText" /\ (l \in ProcessLists \/ rule.id # "none")

\* A file is read as a whole or not at all.  Of every list its root allows, the
\* configuration holds each rule that can be used, once and in the order of the
\* file, whatever the rules before and behind it are; a list of the wrong type or
\* a rule that gives up the file leaves no configuration (482-500, 972-1008).
EveryRuleCounts ==
  stage = "done" => \A l \in Lists :
    LET list == doc.lists[l]
    IN  (doc.root = "object" \/ l = "process_rules") /\ list # Absent =>
          /\ list # Mistyped /\ \A i \in DOMAIN list : ~Spoils(l, list[i])
          /\ Range(definitions[l]) = {i \in DOMAIN list : Wanted(l, list[i])}
          /\ \A k \in DOMAIN definitions[l] : \A j \in 1..(k - 1) :
               definitions[l][j] < definitions[l][k]

\* The entries of a list, each with the place of its rule.
Entries(l) == UNION {{k} \X compiled[l][k] : k \in DOMAIN compiled[l]}

\* No list that the driver is sent has more entries with a contains match than
\* its rule store takes, and the statistics count the entries that are there
\* (RuleManager.h:42, "Keep HostGuard-side contains expansion aligned with the
\* driver rule store limit").
ContainsLimited ==
  \A l \in RegistryLists :
    /\ Cardinality({e \in Entries(l) : \E f \in DOMAIN e[2].match : e[2].match[f][1] = CONTAINS})
         <= MaxContains
    /\ \A t \in MatchTypes : stats[l][t] = Cardinality(
         {e \in Entries(l) : /\ \A f \in DOMAIN e[2].match : e[2].match[f][1] <= t
                             /\ t = EXACT \/ \E f \in DOMAIN e[2].match : e[2].match[f][1] = t})
=============================================================================
