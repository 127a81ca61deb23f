--------------------------- MODULE MCRuleCompiler ---------------------------
(* Instances of RuleCompiler for TLC.  Every list of up to three of the      *)
(* registry rules below is compiled, every list of up to two process rules,  *)
(* and every combination of good, bad and missing settings; what a test of   *)
(* one kind does not vary is absent.                                         *)
EXTENDS RuleCompiler, SequencesExt, TLC

CONSTANTS a, b, long, blank, known, other, empty, invalid

Text(lead, core, trail) == [lead |-> lead, trail |-> trail, core |-> core]
Plain(c) == Text(FALSE, c, FALSE)
Before(c) == Text(TRUE, c, FALSE)
Behind(c) == Text(FALSE, c, TRUE)
Around(c) == Text(TRUE, c, TRUE)
MCTexts == {Plain(c) : c \in {a, b, long, blank}} \cup
           {Before(a), Behind(a), Behind(b), Around(a), Around(b), Around(blank)}
MCTooLong == [f \in Flags |-> IF f = "key_path" THEN {} ELSE {Plain(long)}]

MCAccepted == "timeout_ms" :> 1..2 @@ "fail_mode" :> 1..2
  @@ "capture_parent_cmdline" :> 0..1 @@ "terminate_on_registry" :> 0..1
  @@ "min_severity" :> 0..2 @@ "cooldown_ms" :> 0..2
MCDefaults == "timeout_ms" :> 1 @@ "fail_mode" :> 1
  @@ "capture_parent_cmdline" :> 0 @@ "terminate_on_registry" :> 0
  @@ "min_severity" :> 0 @@ "cooldown_ms" :> 2

\* Rules.
Field(type, values) == [matchType |-> type, values |-> values]
Registry(id, operation, fields) ==
  [form |-> "object", id |-> id, severity |-> 1, operation |-> operation,
   outerOperation |-> operation, fields |-> fields]
RegistryRules ==
  { Registry("mixed", "none",
      "process_name" :> Field(Absent, {Plain(b), Behind(a)})),
    Registry("default", "none",
      "key_path" :> Field(Absent, {Plain(a), Around(b), Plain(blank)})),
    Registry("product", "delete_value",
      "process_name" :> Field(Absent, {Behind(a), Behind(b)})
      @@ "value_data" :> Field(EXACT, {Plain(a), Before(a)})),
    Registry("suffix", "none",
      "process_name" :> Field(Absent, {Before(a)})
      @@ "key_path" :> Field(PREFIX, {Behind(a)})),
    Registry("renamed", "delete_value",
      "new_name" :> Field(Absent, {Plain(b)})),
    Registry("both", "none",
      "new_name" :> Field(Absent, {Plain(b)}) @@ "value_data" :> Field(Absent, {Plain(b)})),
    Registry("long", "none",
      "process_name" :> Field(Absent, {Plain(a), Plain(long)})),
    Registry("long path", "none", "key_path" :> Field(Absent, {Plain(long)})),
    Registry("stars", "none", "process_name" :> Field(Absent, {Around(blank)})),
    Registry("no value", "none", "process_name" :> Field(Absent, {Plain(blank)})),
    Registry("bad type", "none", "process_name" :> Field(Mistyped, {Plain(a)})),
    Registry("bad values", "none", "process_name" :> Field(Absent, Mistyped)),
    Registry("no field", "none", << >>),
    Registry("bad operation", "bad", "process_name" :> Field(Absent, {Plain(a)})),
    Registry("none", "none", "process_name" :> Field(Absent, {Plain(a)})),
    Registry("tooLong", "none", "process_name" :> Field(Absent, {Plain(a)})),
    [Registry("nested", "none", "value_data" :> Field(Absent, {Behind(b)}))
       EXCEPT !.outerOperation = "delete_value"],
    [Registry("bad text", "none", << >>) EXCEPT !.form = "badText"],
    [Registry("none", "none", << >>) EXCEPT !.form = "badText"] }

Matcher(position, values) == [position |-> position, values |-> values]
Process(form, matchers) == [form |-> form, matchers |-> matchers]
ProcessRules ==
  { Process("object", matchers) : matchers \in
      {Absent} \cup SeqOf({ Matcher(1, {{known}}), Matcher(1, {{other}, invalid}),
                               Matcher(2, {{known, other}}), Matcher(2, {invalid}),
                               Matcher(3, Absent), Matcher(0, {{known}}) }, 3) }
  \cup { Process("mistyped", << >>), Process("badText", << >>) }

\* Files.
File(root, lists) ==
  [root |-> root, notObjects |-> {}, nested |-> << >>, flat |-> << >>,
   lists |-> [l \in Lists |-> IF l \in DOMAIN lists THEN lists[l] ELSE Absent]]
WithList(l, contents) == {File("object", l :> c) : c \in contents}
Nodes(values) == UNION {[S -> values] : S \in SUBSET {"timeout_ms", "capture_parent_cmdline"}}
                   \cup UNION {[S -> values] : S \in SUBSET {"min_severity"}}
MCDocuments ==
  WithList("registry_rules", SeqOf(RegistryRules, 3))
  \cup WithList("registry_allow_rules", SeqOf(RegistryRules, 1) \cup {Mistyped})
  \cup WithList("process_rules", SeqOf(ProcessRules, 1) \cup {Mistyped})
  \cup { File(root, "process_rules" :> <<r>>) : root \in {"array", "other"}, r \in ProcessRules }
  \cup { File("object", [l \in ProcessLists |-> <<r, q>>]) :
           r, q \in {r \in ProcessRules : r.matchers = Absent \/ Len(r.matchers) <= 1} }
  \cup { [File("object", << >>) EXCEPT !.nested = n, !.flat = f, !.notObjects = o] :
           n, f \in Nodes({0, 1, 3, Mistyped}),
           o \in SUBSET {"process_verdict", "response"} }

\* What the driver sees.
Holding == { {}, {<<EXACT, Plain(a)>>, <<PREFIX, Plain(a)>>, <<SUFFIX, Plain(a)>>,
                  <<CONTAINS, Plain(a)>>},
             {<<EXACT, Plain(b)>>, <<PREFIX, Plain(b)>>, <<SUFFIX, Plain(b)>>,
              <<CONTAINS, Plain(b)>>},
             {<<PREFIX, Plain(a)>>, <<CONTAINS, Plain(a)>>, <<CONTAINS, Plain(b)>>},
             {<<EXACT, Before(a)>>, <<SUFFIX, Plain(a)>>, <<CONTAINS, Plain(a)>>},
             {<<PREFIX, Behind(a)>>, <<PREFIX, Plain(a)>>, <<CONTAINS, Plain(a)>>,
              <<CONTAINS, Plain(long)>>} }
MCOperations ==
  { [kind |-> kind,
     texts |-> [f \in Flags |-> CASE f = "process_name" -> process [] f = "key_path" -> path
                                  [] OTHER -> data]] :
      kind \in {"set_value", "delete_value"}, process, path, data \in Holding }
MCCreations == [Positions -> {known, other, empty}]
MCInputs == {known, other, empty}
=============================================================================
