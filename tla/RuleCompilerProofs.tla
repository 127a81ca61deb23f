------------------------- MODULE RuleCompilerProofs -------------------------
(***************************************************************************)
(* Proofs about RuleCompiler, for any documents, texts, inputs and limits.   *)
(* What a rule is compiled to is shown without induction: every entry comes  *)
(* from one rule, by operators that are not recursive.                       *)
(***************************************************************************)
EXTENDS RuleCompiler, FiniteSetTheorems, TLAPS

\* One value: if its field is usable, the class and the text it is compiled to
\* hold where the value, read by itself, holds.
LEMMA FieldMeans ==
  ASSUME NEW f \in Flags, NEW field, NEW texts, UsableField(f, field),
         field.matchType \in MatchTypes \cup {Absent, Mistyped},
         field.values = Mistyped \/ field.values \subseteq Texts
  PROVE  LET T == CHOOSE t \in FieldTypes(f, field) : TRUE
         IN  /\ \A t \in RawValues(field) : Normalized(field, t) \in Texts
             /\ (\E t \in RawValues(field) : <<T, Normalized(field, t)>> \in texts)
                  <=> \E t \in field.values : ValueMeans(f, field.matchType, t, texts)
<1> DEFINE T == CHOOSE t \in FieldTypes(f, field) : TRUE
<1>1. RawValues(field) \subseteq field.values /\ field.values \subseteq Texts
  BY DEF UsableField, RawValues
<1>2. field.matchType \in MatchTypes \cup {Absent}
  BY DEF UsableField
<1>3. FieldTypes(f, field) \subseteq 1..4
  BY <1>2 DEF FieldTypes, Classified, DefaultType, MatchTypes, EXACT, PREFIX, SUFFIX, CONTAINS
<1>4. IsFiniteSet(FieldTypes(f, field))
  <2>1. FieldTypes(f, field) \in SUBSET Nat /\ \A t \in FieldTypes(f, field) : t <= 4
    BY <1>3
  <2> QED
    BY <2>1, FS_BoundedSetOfNaturals
<1>5. PICK x : FieldTypes(f, field) = {x}
  BY <1>4, FS_Singleton DEF UsableField
<1>6. T = x
  BY <1>5
<1>7. \A t \in RawValues(field) : Classified(f, field, t) = T
  BY <1>5, <1>6 DEF FieldTypes
<1>8. \A t \in Texts : /\ [lead |-> FALSE, trail |-> FALSE, core |-> t.core] \in Texts
                       /\ t.lead \in BOOLEAN /\ t.trail \in BOOLEAN
                       /\ t.core = Blank => t.lead = t.trail
  BY TextsAssumption, ConstantsAssumption
<1>9. \A t \in RawValues(field) : Normalized(field, t) \in Texts
  BY <1>1, <1>8 DEF Normalized
<1>10. CASE field.matchType # Absent
  <2>1. \A t \in RawValues(field) : Normalized(field, t) = t
    BY <1>10 DEF Normalized
  <2>2. ASSUME NEW t \in RawValues(field) PROVE T = field.matchType
    BY <1>7, <1>10 DEF Classified
  <2>3. \A t \in field.values : ValueMeans(f, field.matchType, t, texts) <=>
          t \in RawValues(field) /\ <<field.matchType, t>> \in texts
    BY <1>10 DEF ValueMeans, RawValues
  <2> HIDE DEF T
  <2> QED
    BY <1>1, <1>9, <2>1, <2>2, <2>3 DEF T
<1>11. CASE field.matchType = Absent
  <2> DEFINE Core(t) == [lead |-> FALSE, trail |-> FALSE, core |-> t.core]
  <2>1. ASSUME NEW t \in field.values
        PROVE  ValueMeans(f, field.matchType, t, texts) <=>
                 t \in RawValues(field) /\ <<Classified(f, field, t), Normalized(field, t)>> \in texts
    <3>1. /\ t \in Texts /\ t.lead \in BOOLEAN /\ t.trail \in BOOLEAN
          /\ t.core = Blank => t.lead = t.trail
      BY <1>1, <1>8
    <3>2. t \in RawValues(field) <=> t.core # Blank \/ t.lead
      BY DEF RawValues
    <3>3. t \in RawValues(field) => t.core # Blank
      BY <1>11 DEF UsableField
    <3>4. Normalized(field, t) = Core(t)
      BY <1>11 DEF Normalized
    <3>5. CASE t.lead /\ t.trail
      <4>1. Classified(f, field, t) = CONTAINS
        BY <1>11, <3>5 DEF Classified
      <4> QED
        BY <1>11, <3>2, <3>4, <3>5, <4>1 DEF ValueMeans
    <3>6. CASE t.lead /\ ~t.trail
      <4>1. Classified(f, field, t) = SUFFIX
        BY <1>11, <3>6 DEF Classified
      <4> QED
        BY <1>11, <3>2, <3>4, <3>6, <4>1 DEF ValueMeans
    <3>7. CASE ~t.lead /\ t.trail
      <4>1. Classified(f, field, t) = PREFIX
        BY <1>11, <3>7 DEF Classified
      <4> QED
        BY <1>11, <3>1, <3>2, <3>4, <3>7, <4>1 DEF ValueMeans
    <3>8. CASE ~t.lead /\ ~t.trail
      <4>1. Classified(f, field, t) = IF f = "key_path" THEN CONTAINS ELSE EXACT
        BY <1>11, <3>8 DEF Classified, DefaultType
      <4> QED
        BY <1>11, <3>2, <3>4, <3>8, <4>1 DEF ValueMeans
    <3> QED
      BY <3>1, <3>5, <3>6, <3>7, <3>8
  <2> HIDE DEF T
  <2> QED
    BY <1>1, <1>7, <1>9, <2>1 DEF T
<1> QED
  BY <1>10, <1>11

\* A rule: the entries it expands to hit what it means.
LEMMA RuleMeans ==
  ASSUME NEW rule, IsRegistryRule(rule), ParseSingleRegistryRule(rule) # {},
         NEW o \in Operations
  PROVE  (\E e \in ParseSingleRegistryRule(rule) : Hits(e, o)) <=> Means(rule, o)
<1> DEFINE Entry(choice) ==
      [id |-> rule.id, severity |-> rule.severity, operation |-> Operation(rule),
       match |-> [f \in Enabled(rule) |-> <<FieldType(rule, f), choice[f]>>]]
      Combos == {c \in [Enabled(rule) -> Texts] :
                    \A f \in Enabled(rule) : c[f] \in FieldValues(rule, f)}
      Fit(f) == \E v \in FieldValues(rule, f) : <<FieldType(rule, f), v>> \in o.texts[f]
      Declares(g) ==
        LET f == IF g = "new_name" THEN "value_data" ELSE g
        IN  \E t \in rule.fields[g].values :
              ValueMeans(f, rule.fields[g].matchType, t, o.texts[f])
<1>1. UsableRegistryRule(rule)
  BY DEF ParseSingleRegistryRule
<1>2. ParseSingleRegistryRule(rule) = {Entry(choice) : choice \in Combos}
  BY DEF ParseSingleRegistryRule, ExpandSingleRegistryRule
<1>3. DOMAIN rule.fields \subseteq Flags \cup {"new_name"} /\ Enabled(rule) \subseteq Flags
  BY DEF IsRegistryRule, Enabled, Flags
<1>4. ASSUME NEW f \in Enabled(rule)
      PROVE  /\ FieldValues(rule, f) \subseteq Texts
             /\ Fit(f) <=> \E t \in Source(rule, f).values :
                             ValueMeans(f, Source(rule, f).matchType, t, o.texts[f])
  <2> DEFINE field == Source(rule, f)
  <2>1. f \in Flags /\ UsableField(f, field)
    BY <1>1, <1>3 DEF UsableRegistryRule
  <2>2. \E g \in DOMAIN rule.fields : field = rule.fields[g]
    BY DEF Source, Enabled
  <2>3. /\ field.matchType \in MatchTypes \cup {Absent, Mistyped}
        /\ field.values = Mistyped \/ field.values \subseteq Texts
    BY <2>2 DEF IsRegistryRule
  <2> HIDE DEF field
  <2>4. LET T == CHOOSE t \in FieldTypes(f, field) : TRUE
        IN  /\ \A t \in RawValues(field) : Normalized(field, t) \in Texts
            /\ (\E t \in RawValues(field) : <<T, Normalized(field, t)>> \in o.texts[f])
                 <=> \E t \in field.values : ValueMeans(f, field.matchType, t, o.texts[f])
    BY <2>1, <2>3, FieldMeans
  <2>5. /\ FieldType(rule, f) = CHOOSE t \in FieldTypes(f, field) : TRUE
        /\ FieldValues(rule, f) = {Normalized(field, t) : t \in RawValues(field)}
    BY DEF FieldType, FieldValues, field
  <2> QED
    BY <2>4, <2>5 DEF field
<1>5. (\A f \in Enabled(rule) : Fit(f)) <=> \A g \in DOMAIN rule.fields : Declares(g)
  <2> HIDE DEF Fit
  <2>1. ASSUME NEW g \in DOMAIN rule.fields
        PROVE  LET f == IF g = "new_name" THEN "value_data" ELSE g
               IN  f \in Enabled(rule) /\ Source(rule, f) = rule.fields[g]
    BY <1>1 DEF UsableRegistryRule, Enabled, Source
  <2>2. ASSUME NEW f \in Enabled(rule)
        PROVE  \E g \in DOMAIN rule.fields : f = IF g = "new_name" THEN "value_data" ELSE g
    BY DEF Enabled
  <2> QED
    BY <1>4, <2>1, <2>2
<1>6. ASSUME NEW choice \in Combos
      PROVE  Hits(Entry(choice), o) <=>
               /\ o.kind = Operation(rule)
               /\ \A f \in Enabled(rule) : <<FieldType(rule, f), choice[f]>> \in o.texts[f]
  BY DEF Hits
<1>7. (\E choice \in Combos :
         \A f \in Enabled(rule) : <<FieldType(rule, f), choice[f]>> \in o.texts[f])
        <=> \A f \in Enabled(rule) : Fit(f)
  <2>1. ASSUME \A f \in Enabled(rule) : Fit(f)
        PROVE  \E choice \in Combos :
                 \A f \in Enabled(rule) : <<FieldType(rule, f), choice[f]>> \in o.texts[f]
    <3> DEFINE best == [f \in Enabled(rule) |-> CHOOSE v \in FieldValues(rule, f) :
                                                  <<FieldType(rule, f), v>> \in o.texts[f]]
    <3>1. \A f \in Enabled(rule) :
            best[f] \in FieldValues(rule, f) /\ <<FieldType(rule, f), best[f]>> \in o.texts[f]
      BY <2>1
    <3>2. best \in [Enabled(rule) -> Texts]
      BY <1>4, <3>1
    <3> HIDE DEF best
    <3> QED
      BY <3>1, <3>2
  <2>2. ASSUME NEW choice \in Combos,
               \A f \in Enabled(rule) : <<FieldType(rule, f), choice[f]>> \in o.texts[f]
        PROVE  \A f \in Enabled(rule) : Fit(f)
    BY <2>2
  <2> QED
    BY <2>1, <2>2
<1>8. Means(rule, o) <=> o.kind = Operation(rule) /\ \A g \in DOMAIN rule.fields : Declares(g)
  BY DEF Means, Operation
<1> HIDE DEF Entry, Combos, Fit, Declares
<1> QED
  BY <1>2, <1>5, <1>6, <1>7, <1>8

\* A process rule: it matches what its matchers match, and never nothing.
LEMMA DetectionRuleMeans ==
  ASSUME NEW rule, IsDetectionRule(rule), UsableDetectionRule(rule)
  PROVE  /\ ~MatchDetectionRule(DetectionRule(rule), [p \in Positions |-> Empty])
         /\ \A c \in Creations :
              MatchDetectionRule(DetectionRule(rule), c) <=>
                \A p \in {m.position : m \in Range(rule.matchers)} \cap Positions :
                  c[p] # Empty /\ \E m \in Range(rule.matchers) :
                    m.position = p /\ \E regex \in m.values \ {Invalid} : c[p] \in regex
<1> DEFINE named == {m.position : m \in Range(rule.matchers)} \cap Positions
           found(p, input) == \E m \in Range(rule.matchers) :
             m.position = p /\ \E regex \in m.values \ {Invalid} : input \in regex
<1>1. rule.matchers \in Seq(Range(rule.matchers))
  BY DEF IsDetectionRule, UsableDetectionRule
<1>2. DOMAIN rule.matchers = 1..Len(rule.matchers)
      /\ Range(rule.matchers) = {rule.matchers[i] : i \in 1..Len(rule.matchers)}
  BY <1>1 DEF Range
<1>3. DOMAIN DetectionRule(rule) = named /\ named # {} /\ named \subseteq Positions
  BY <1>2 DEF DetectionRule, Known, UsableDetectionRule
<1>4. ASSUME NEW p \in named, NEW input
      PROVE  (\E regex \in DetectionRule(rule)[p] : input \in regex) <=> found(p, input)
  <2>1. DetectionRule(rule)[p] =
          UNION {rule.matchers[i].values \ {Invalid} :
                   i \in {j \in Known(rule) : rule.matchers[j].position = p}}
    BY <1>2, <1>3 DEF DetectionRule, Patterns, Known
  <2>2. {j \in Known(rule) : rule.matchers[j].position = p}
          = {j \in 1..Len(rule.matchers) : rule.matchers[j].position = p}
    BY <1>2, <1>3 DEF Known
  <2> QED
    BY <1>2, <2>1, <2>2
<1>5. ASSUME NEW c \in Creations
      PROVE  MatchDetectionRule(DetectionRule(rule), c) <=>
               \A p \in named : c[p] # Empty /\ found(p, c[p])
  <2> HIDE DEF found, named
  <2> QED
    BY <1>3, <1>4 DEF MatchDetectionRule
<1>6. ~MatchDetectionRule(DetectionRule(rule), [p \in Positions |-> Empty])
  <2> HIDE DEF named
  <2> QED
    BY <1>3 DEF MatchDetectionRule
<1> QED
  BY <1>5, <1>6

-----------------------------------------------------------------------------
(* The lists.                                                              *)

Stages == {"root", "process_verdict", "response", "done", "failed"} \cup Lists

\* The order of the stages.
Place ==
  [s \in Stages |->
     CASE s = "root" -> 0
       [] s = "process_verdict" -> 1
       [] s = "response" -> 2
       [] s = "process_rules" -> 3
       [] s = "process_allow_rules" -> 4
       [] s = "registry_rules" -> 5
       [] s = "registry_allow_rules" -> 6
       [] OTHER -> 7]

Rules(l) == 1..Len(doc.lists[l])
ProcessEntries == {DetectionRule(doc.lists[l][i]) : l \in Lists, i \in Nat}
RegistryEntries == {ParseSingleRegistryRule(doc.lists[l][i]) : l \in Lists, i \in Nat}

ListTypes ==
  /\ doc \in Documents
  /\ stage \in Stages
  /\ item \in Nat \ {0}
  /\ definitions \in [Lists -> Seq(Nat)]
  /\ processRules \in [ProcessLists -> Seq(ProcessEntries)]
  /\ compiled \in [RegistryLists -> Seq(RegistryEntries)]

\* The rules that are accepted come from the list, in its order, and from a list
\* that has been reached.
InOrder ==
  \A l \in Lists :
    /\ definitions[l] # <<>> =>
         Place[l] <= Place[stage] /\ doc.lists[l] \notin {Absent, Mistyped}
    /\ \A k \in 1..Len(definitions[l]) :
         /\ definitions[l][k] \in Rules(l)
         /\ stage = l => definitions[l][k] < item
         /\ \A j \in 1..(k - 1) : definitions[l][j] < definitions[l][k]

\* Every entry is what its rule is compiled to.
ProcessCompiled ==
  \A l \in ProcessLists :
    /\ Len(processRules[l]) = Len(definitions[l])
    /\ \A k \in 1..Len(definitions[l]) :
         /\ processRules[l][k] = DetectionRule(Declared(l, k))
         /\ UsableDetectionRule(Declared(l, k))

RegistryCompiled ==
  \A l \in RegistryLists :
    /\ Len(compiled[l]) = Len(definitions[l])
    /\ \A k \in 1..Len(definitions[l]) :
         /\ compiled[l][k] = ParseSingleRegistryRule(Declared(l, k))
         /\ compiled[l][k] # {}

ListsInv == ListTypes /\ InOrder /\ ProcessCompiled /\ RegistryCompiled

\* No stage is after a failure.
LEMMA Places ==
  /\ \A s \in Stages : Place[s] \in Int /\ Place[s] <= Place[s] /\ Place[s] <= Place["failed"]
  /\ Lists \subseteq Stages /\ "failed" \in Stages /\ "failed" \notin Lists
<1>1. Place \in [Stages -> 0..7] /\ Lists \subseteq Stages
      /\ "failed" \in Stages /\ "failed" \notin Lists
  BY DEF Place, Stages, Lists, ProcessLists, RegistryLists
<1>2. Place["failed"] = 7
  BY DEF Place, Stages
<1> QED
  BY <1>1, <1>2

\* The list of the stage, once it is at a rule.
LEMMA AtRule ==
  ASSUME ListTypes, stage \in Lists, ~Through(doc.lists[stage]), doc.lists[stage] # Mistyped
  PROVE  item \in Rules(stage) /\ doc.lists[stage] \notin {Absent, Mistyped}
<1>1. doc.lists[stage] \notin {Absent, Mistyped}
  BY DEF Through
<1>2. doc.lists[stage] \in Seq(Range(doc.lists[stage]))
  BY <1>1, DocumentsAssumption DEF ListTypes
<1>3. Len(doc.lists[stage]) \in Nat
  BY <1>2
<1>4. ~(item > Len(doc.lists[stage]))
  BY DEF Through
<1> QED
  BY <1>1, <1>3, <1>4 DEF ListTypes, Rules

\* The steps that accept a rule of the list at the stage.
LEMMA AcceptStep ==
  ASSUME ListsInv, stage \in Lists, item \in Rules(stage),
         doc.lists[stage] \notin {Absent, Mistyped}, Accept(stage), doc' = doc
  PROVE  /\ definitions' \in [Lists -> Seq(Nat)]
         /\ item' \in Nat \ {0} /\ stage' = stage
         /\ \A l \in Lists \ {stage} : definitions'[l] = definitions[l]
         /\ Len(definitions'[stage]) = Len(definitions[stage]) + 1
         /\ \A k \in 1..Len(definitions[stage]) : definitions'[stage][k] = definitions[stage][k]
         /\ definitions'[stage][Len(definitions[stage]) + 1] = item
         /\ InOrder'
<1> USE DEF ListsInv, ListTypes
<1>1. definitions[stage] \in Seq(Nat) /\ Len(definitions[stage]) \in Nat
  OBVIOUS
<1>2. definitions'[stage] = Append(definitions[stage], item)
  BY DEF Accept
<1>3. definitions' \in [Lists -> Seq(Nat)]
  BY <1>1 DEF Accept
<1>4. item' = item + 1 /\ stage' = stage
  BY DEF Accept
<1>5. \A l \in Lists \ {stage} : definitions'[l] = definitions[l]
  BY DEF Accept
<1>6. /\ Len(definitions'[stage]) = Len(definitions[stage]) + 1
      /\ \A k \in 1..Len(definitions[stage]) : definitions'[stage][k] = definitions[stage][k]
      /\ definitions'[stage][Len(definitions[stage]) + 1] = item
  BY <1>1, <1>2
<1>7. InOrder'
  <2>1. ASSUME NEW l \in Lists, definitions'[l] # <<>>
        PROVE  Place[l] <= Place[stage] /\ doc.lists[l] \notin {Absent, Mistyped}
    <3>1. Place[stage] <= Place[stage]
      BY Places
    <3> QED
      BY <1>5, <2>1, <3>1 DEF InOrder
  <2>2. ASSUME NEW l \in Lists, NEW k \in 1..Len(definitions'[l])
        PROVE  /\ definitions'[l][k] \in Rules(l)
               /\ stage = l => definitions'[l][k] < item + 1
               /\ \A j \in 1..(k - 1) : definitions'[l][j] < definitions'[l][k]
    <3>1. CASE l # stage
      BY <1>5, <2>2, <3>1 DEF InOrder
    <3>2. CASE l = stage /\ k = Len(definitions[stage]) + 1
      <4>1. definitions'[l][k] = item
        BY <1>6, <3>2
      <4>2. ASSUME NEW j \in 1..(k - 1) PROVE definitions'[l][j] < item
        <5>1. j \in 1..Len(definitions[stage])
          BY <1>1, <3>2
        <5> QED
          BY <1>6, <3>2, <5>1 DEF InOrder
      <4> QED
        BY <3>2, <4>1, <4>2
    <3>3. CASE l = stage /\ k # Len(definitions[stage]) + 1
      <4>1. k \in 1..Len(definitions[stage])
        BY <1>1, <1>6, <3>3
      <4>2. definitions[l][k] \in Rules(l) /\ definitions[l][k] < item /\ definitions[l][k] \in Nat
        BY <1>1, <3>3, <4>1 DEF InOrder
      <4>3. definitions'[l][k] = definitions[l][k]
        BY <1>6, <3>3, <4>1
      <4>4. ASSUME NEW j \in 1..(k - 1) PROVE definitions'[l][j] < definitions[l][k]
        <5>1. j \in 1..Len(definitions[stage])
          BY <1>1, <4>1
        <5>2. definitions'[l][j] = definitions[l][j]
          BY <1>6, <3>3, <5>1
        <5> QED
          BY <3>3, <4>1, <5>2 DEF InOrder
      <4> QED
        BY <4>2, <4>3, <4>4
    <3> QED
      BY <3>1, <3>2, <3>3
  <2> QED
    BY <1>4, <2>1, <2>2 DEF InOrder, Rules
<1> QED
  BY <1>3, <1>4, <1>5, <1>6, <1>7

\* The steps that accept nothing: they stay in the list or go to a later stage.
LEMMA QuietStep ==
  ASSUME ListsInv, UNCHANGED <<doc, rules>>, stage' \in Stages, item' \in Nat \ {0},
         Place[stage] <= Place[stage'],
         stage' = stage => item <= item',
         stage' \in Lists /\ stage' # stage => Place[stage] < Place[stage']
  PROVE  ListsInv'
<1> USE DEF ListsInv, ListTypes, rules
<1>1. ListTypes'
  <2>1. ProcessEntries' = ProcessEntries /\ RegistryEntries' = RegistryEntries
    BY DEF ProcessEntries, RegistryEntries
  <2> QED
    BY <2>1
<1>2. InOrder'
  <2>1. ASSUME NEW l \in Lists, definitions[l] # <<>>
        PROVE  Place[l] <= Place[stage'] /\ stage' = l => stage = l
    <3>1. Place[l] \in Int /\ Place[stage] \in Int /\ Place[stage'] \in Int
      BY Places
    <3>2. Place[l] <= Place[stage]
      BY <2>1 DEF InOrder
    <3> QED
      BY <3>1, <3>2
  <2>2. ASSUME NEW l \in Lists, NEW k \in 1..Len(definitions[l]), stage' = l
        PROVE  definitions[l][k] < item'
    <3>1. definitions[l] \in Seq(Nat)
      OBVIOUS
    <3>2. definitions[l] # <<>> /\ definitions[l][k] \in Nat
      BY <2>2, <3>1
    <3>3. Place[l] \in Int /\ Place[stage] \in Int /\ Place[l] <= Place[stage]
      BY <3>2, Places DEF InOrder
    <3>4. stage = l
      BY <2>2, <3>3
    <3>5. definitions[l][k] < item
      BY <3>4 DEF InOrder
    <3> QED
      BY <2>2, <3>2, <3>4, <3>5
  <2> QED
    <3>1. ASSUME NEW l \in Lists, definitions[l] # <<>>
          PROVE  Place[l] <= Place[stage'] /\ doc.lists[l] \notin {Absent, Mistyped}
      <4>1. Place[l] \in Int /\ Place[stage] \in Int /\ Place[stage'] \in Int
        BY Places
      <4> QED
        BY <3>1, <4>1 DEF InOrder
    <3> QED
      BY <2>2, <3>1 DEF InOrder, Rules
<1>3. ProcessCompiled' /\ RegistryCompiled'
  BY DEF ProcessCompiled, RegistryCompiled, Declared
<1> QED
  BY <1>1, <1>2, <1>3

\* A process rule is accepted.
LEMMA DetectionStep ==
  ASSUME ListsInv, stage \in ProcessLists, item \in Rules(stage),
         doc.lists[stage] \notin {Absent, Mistyped}, Accept(stage), doc' = doc,
         UsableDetectionRule(doc.lists[stage][item]),
         processRules' = [processRules EXCEPT
                            ![stage] = Append(@, DetectionRule(doc.lists[stage][item]))],
         UNCHANGED compiled
  PROVE  ListsInv'
<1> DEFINE entry == DetectionRule(doc.lists[stage][item])
           n == Len(definitions[stage])
<1> USE DEF ListsInv, ListTypes
<1>1. /\ definitions' \in [Lists -> Seq(Nat)]
      /\ item' \in Nat \ {0} /\ stage' = stage
      /\ \A l \in Lists \ {stage} : definitions'[l] = definitions[l]
      /\ Len(definitions'[stage]) = n + 1
      /\ \A k \in 1..n : definitions'[stage][k] = definitions[stage][k]
      /\ definitions'[stage][n + 1] = item
      /\ InOrder'
  BY AcceptStep DEF Lists
<1>2. entry \in ProcessEntries
  BY DEF ProcessEntries, Lists
<1>3. /\ processRules[stage] \in Seq(ProcessEntries) /\ Len(processRules[stage]) = n
      /\ n \in Nat
  BY DEF ProcessCompiled, Lists
<1>4. processRules'[stage] = Append(processRules[stage], entry)
  OBVIOUS
<1> HIDE DEF entry
<1>5. /\ processRules'[stage] \in Seq(ProcessEntries)
      /\ Len(processRules'[stage]) = n + 1
      /\ \A k \in 1..n : processRules'[stage][k] = processRules[stage][k]
      /\ processRules'[stage][n + 1] = entry
  BY <1>2, <1>3, <1>4
<1>6. processRules' \in [ProcessLists -> Seq(ProcessEntries)]
  BY <1>4, <1>5
<1>7. \A l \in ProcessLists \ {stage} : processRules'[l] = processRules[l]
  OBVIOUS
<1>8. ListTypes'
  <2>1. ProcessEntries' = ProcessEntries /\ RegistryEntries' = RegistryEntries
    BY DEF ProcessEntries, RegistryEntries
  <2> QED
    BY <1>1, <1>6, <2>1
<1>9. ProcessCompiled'
  <2>1. ASSUME NEW l \in ProcessLists, l # stage
        PROVE  /\ Len(processRules'[l]) = Len(definitions'[l])
               /\ \A k \in 1..Len(definitions'[l]) :
                    /\ processRules'[l][k] = DetectionRule(doc.lists[l][definitions'[l][k]])
                    /\ UsableDetectionRule(doc.lists[l][definitions'[l][k]])
    <3>1. definitions'[l] = definitions[l] /\ processRules'[l] = processRules[l]
      BY <1>1, <1>7, <2>1 DEF Lists
    <3> QED
      BY <3>1 DEF ProcessCompiled, Declared
  <2>2. ASSUME NEW k \in 1..(n + 1)
        PROVE  /\ processRules'[stage][k] = DetectionRule(doc.lists[stage][definitions'[stage][k]])
               /\ UsableDetectionRule(doc.lists[stage][definitions'[stage][k]])
    <3>1. CASE k = n + 1
      BY <1>1, <1>5, <3>1 DEF entry
    <3>2. CASE k # n + 1
      <4>1. k \in 1..n
        BY <1>3, <3>2
      <4> QED
        BY <1>1, <1>5, <4>1 DEF ProcessCompiled, Declared
    <3> QED
      BY <3>1, <3>2
  <2> QED
    <3>1. ASSUME NEW l \in ProcessLists
          PROVE  /\ Len(processRules'[l]) = Len(definitions'[l])
                 /\ \A k \in 1..Len(definitions'[l]) :
                      /\ processRules'[l][k] = DetectionRule(doc.lists[l][definitions'[l][k]])
                      /\ UsableDetectionRule(doc.lists[l][definitions'[l][k]])
      BY <1>1, <1>5, <2>1, <2>2
    <3> QED
      BY <3>1 DEF ProcessCompiled, Declared
<1>10. RegistryCompiled'
  <2>1. \A l \in RegistryLists : definitions'[l] = definitions[l]
    BY <1>1 DEF Lists, ProcessLists, RegistryLists
  <2> QED
    BY <2>1 DEF RegistryCompiled, Declared
<1> QED
  BY <1>1, <1>8, <1>9, <1>10

\* A registry rule is accepted.
LEMMA RegistryStep ==
  ASSUME ListsInv, stage \in RegistryLists, item \in Rules(stage),
         doc.lists[stage] \notin {Absent, Mistyped}, Accept(stage), doc' = doc,
         ParseSingleRegistryRule(doc.lists[stage][item]) # {},
         compiled' = [compiled EXCEPT
                        ![stage] = Append(@, ParseSingleRegistryRule(doc.lists[stage][item]))],
         UNCHANGED processRules
  PROVE  ListsInv'
<1> DEFINE entries == ParseSingleRegistryRule(doc.lists[stage][item])
           n == Len(definitions[stage])
<1> USE DEF ListsInv, ListTypes
<1>1. /\ definitions' \in [Lists -> Seq(Nat)]
      /\ item' \in Nat \ {0} /\ stage' = stage
      /\ \A l \in Lists \ {stage} : definitions'[l] = definitions[l]
      /\ Len(definitions'[stage]) = n + 1
      /\ \A k \in 1..n : definitions'[stage][k] = definitions[stage][k]
      /\ definitions'[stage][n + 1] = item
      /\ InOrder'
  BY AcceptStep DEF Lists
<1>2. entries \in RegistryEntries
  BY DEF RegistryEntries, Lists
<1>3. /\ compiled[stage] \in Seq(RegistryEntries) /\ Len(compiled[stage]) = n
      /\ n \in Nat
  BY DEF RegistryCompiled, Lists
<1>4. compiled'[stage] = Append(compiled[stage], entries)
  OBVIOUS
<1>5. entries # {}
  OBVIOUS
<1> HIDE DEF entries
<1>6. /\ compiled'[stage] \in Seq(RegistryEntries)
      /\ Len(compiled'[stage]) = n + 1
      /\ \A k \in 1..n : compiled'[stage][k] = compiled[stage][k]
      /\ compiled'[stage][n + 1] = entries
  BY <1>2, <1>3, <1>4
<1>7. compiled' \in [RegistryLists -> Seq(RegistryEntries)]
  BY <1>4, <1>6
<1>8. \A l \in RegistryLists \ {stage} : compiled'[l] = compiled[l]
  OBVIOUS
<1>9. ListTypes'
  <2>1. ProcessEntries' = ProcessEntries /\ RegistryEntries' = RegistryEntries
    BY DEF ProcessEntries, RegistryEntries
  <2> QED
    BY <1>1, <1>7, <2>1
<1>10. RegistryCompiled'
  <2>1. ASSUME NEW l \in RegistryLists, l # stage
        PROVE  /\ Len(compiled'[l]) = Len(definitions'[l])
               /\ \A k \in 1..Len(definitions'[l]) :
                    /\ compiled'[l][k] = ParseSingleRegistryRule(doc.lists[l][definitions'[l][k]])
                    /\ compiled'[l][k] # {}
    <3>1. definitions'[l] = definitions[l] /\ compiled'[l] = compiled[l]
      BY <1>1, <1>8, <2>1 DEF Lists
    <3> QED
      BY <3>1 DEF RegistryCompiled, Declared
  <2>2. ASSUME NEW k \in 1..(n + 1)
        PROVE  /\ compiled'[stage][k]
                    = ParseSingleRegistryRule(doc.lists[stage][definitions'[stage][k]])
               /\ compiled'[stage][k] # {}
    <3>1. CASE k = n + 1
      BY <1>1, <1>5, <1>6, <3>1 DEF entries
    <3>2. CASE k # n + 1
      <4>1. k \in 1..n
        BY <1>3, <3>2
      <4> QED
        BY <1>1, <1>6, <4>1 DEF RegistryCompiled, Declared
    <3> QED
      BY <3>1, <3>2
  <2> QED
    <3>1. ASSUME NEW l \in RegistryLists
          PROVE  /\ Len(compiled'[l]) = Len(definitions'[l])
                 /\ \A k \in 1..Len(definitions'[l]) :
                      /\ compiled'[l][k] = ParseSingleRegistryRule(doc.lists[l][definitions'[l][k]])
                      /\ compiled'[l][k] # {}
      BY <1>1, <1>6, <2>1, <2>2
    <3> QED
      BY <3>1 DEF RegistryCompiled, Declared
<1>11. ProcessCompiled'
  <2>1. \A l \in ProcessLists : definitions'[l] = definitions[l]
    BY <1>1 DEF Lists, ProcessLists, RegistryLists
  <2> QED
    BY <2>1 DEF ProcessCompiled, Declared
<1> QED
  BY <1>1, <1>9, <1>10, <1>11

\* Every step of the parser.
LEMMA ListsStep == ListsInv /\ [Next]_vars => ListsInv'
<1> SUFFICES ASSUME ListsInv, [Next]_vars PROVE ListsInv'
  OBVIOUS
<1> USE DEF ListsInv, ListTypes
<1>a. ASSUME NEW s \in Stages, s = After(stage), stage \notin {"done", "failed"}
      PROVE  Place[stage] < Place[s]
  BY <1>a DEF After, Place, Stages, Lists, ProcessLists, RegistryLists
<1>b. stage \notin {"done", "failed"} => After(stage) \in Stages
  BY DEF After, Stages, Lists, ProcessLists, RegistryLists
<1>c. Place[stage] <= Place["failed"] /\ Place[stage] <= Place[stage] /\ "failed" \in Stages
      /\ "failed" \notin Lists /\ item + 1 \in Nat \ {0} /\ item <= item + 1
  BY Places
<1>1. ASSUME Advance, stage \notin {"done", "failed"}, UNCHANGED <<doc, rules>> PROVE ListsInv'
  <2>1. stage' = After(stage) /\ item' = 1 /\ stage' \in Stages
    BY <1>1, <1>b DEF Advance
  <2>2. Place[stage] < Place[stage']
    BY <1>1, <1>a, <2>1
  <2>3. Place[stage] \in Int /\ Place[stage'] \in Int
    BY <2>1, Places
  <2> QED
    BY <1>1, <2>1, <2>2, <2>3, QuietStep
<1>2. ASSUME GiveUp, doc' = doc PROVE ListsInv'
  BY <1>2, <1>c, QuietStep DEF GiveUp
<1>3. ASSUME Skip, doc' = doc PROVE ListsInv'
  BY <1>3, <1>c, QuietStep DEF Skip
<1>4. CASE ParseRoot
  BY <1>1, <1>2, <1>4 DEF ParseRoot
<1>5. CASE ParseProcessVerdictConfig
  BY <1>1, <1>2, <1>5 DEF ParseProcessVerdictConfig, ParseSettings
<1>6. CASE ParseAutoResponseConfig
  BY <1>1, <1>2, <1>6 DEF ParseAutoResponseConfig, ParseSettings
<1>7. CASE ParseDetectionRuleArray
  <2> DEFINE rule == doc.lists[stage][item]
  <2>1. stage \in ProcessLists /\ stage \in Lists /\ doc' = doc /\ stage \notin {"done", "failed"}
    BY <1>7 DEF ParseDetectionRuleArray, Lists, ProcessLists
  <2>2. CASE Through(doc.lists[stage])
    <3>1. Advance /\ UNCHANGED rules
      BY <1>7, <2>2, DocumentsAssumption DEF ParseDetectionRuleArray, Through
    <3> QED
      BY <1>1, <2>1, <3>1
  <2>3. CASE doc.lists[stage] = Mistyped
    <3>1. GiveUp
      BY <1>7, <2>3, DocumentsAssumption DEF ParseDetectionRuleArray, Through
    <3> QED
      BY <1>2, <2>1, <3>1
  <2>4. CASE ~Through(doc.lists[stage]) /\ doc.lists[stage] # Mistyped
    <3>1. item \in Rules(stage) /\ doc.lists[stage] \notin {Absent, Mistyped}
      BY <2>1, <2>4, AtRule
    <3>2. ParseDetectionRule(stage, rule)
      BY <1>7, <2>4 DEF ParseDetectionRuleArray
    <3>3. \/ GiveUp
          \/ Skip
          \/ /\ Accept(stage) /\ UNCHANGED <<compiled, stats>>
             /\ processRules' = [processRules EXCEPT ![stage] = Append(@, DetectionRule(rule))]
             /\ UsableDetectionRule(rule)
      BY <3>2 DEF ParseDetectionRule
    <3>4. ASSUME Accept(stage), UNCHANGED compiled, UsableDetectionRule(rule),
                 processRules' = [processRules EXCEPT ![stage] = Append(@, DetectionRule(rule))]
          PROVE  ListsInv'
      BY <2>1, <3>1, <3>4, DetectionStep
    <3> QED
      BY <1>2, <1>3, <2>1, <3>3, <3>4
  <2> QED
    BY <2>2, <2>3, <2>4
<1>8. CASE ParseRegistryRuleArray
  <2> DEFINE rule == doc.lists[stage][item]
  <2>1. stage \in RegistryLists /\ stage \in Lists /\ doc' = doc /\ stage \notin {"done", "failed"}
    BY <1>8 DEF ParseRegistryRuleArray, Lists, RegistryLists
  <2>2. CASE Through(doc.lists[stage])
    <3>1. Advance /\ UNCHANGED rules
      BY <1>8, <2>2, DocumentsAssumption DEF ParseRegistryRuleArray, Through
    <3> QED
      BY <1>1, <2>1, <3>1
  <2>3. CASE doc.lists[stage] = Mistyped
    <3>1. GiveUp
      BY <1>8, <2>3, DocumentsAssumption DEF ParseRegistryRuleArray, Through
    <3> QED
      BY <1>2, <2>1, <3>1
  <2>4. CASE ~Through(doc.lists[stage]) /\ doc.lists[stage] # Mistyped
    <3>1. item \in Rules(stage) /\ doc.lists[stage] \notin {Absent, Mistyped}
      BY <2>1, <2>4, AtRule
    <3>2. ParseRegistryRule(stage, rule)
      BY <1>8, <2>4 DEF ParseRegistryRuleArray
    <3>3. \/ GiveUp
          \/ Skip
          \/ /\ Accept(stage) /\ UNCHANGED processRules
             /\ compiled' = [compiled EXCEPT ![stage] = Append(@, ParseSingleRegistryRule(rule))]
             /\ ParseSingleRegistryRule(rule) # {}
      BY <3>2 DEF ParseRegistryRule
    <3>4. ASSUME Accept(stage), UNCHANGED processRules, ParseSingleRegistryRule(rule) # {},
                 compiled' = [compiled EXCEPT ![stage] = Append(@, ParseSingleRegistryRule(rule))]
          PROVE  ListsInv'
      BY <2>1, <3>1, <3>4, RegistryStep
    <3> QED
      BY <1>2, <1>3, <2>1, <3>3, <3>4
  <2> QED
    BY <2>2, <2>3, <2>4
<1>9. CASE UNCHANGED vars
  BY <1>9, <1>c, QuietStep DEF vars, rules
<1> QED
  BY <1>4, <1>5, <1>6, <1>7, <1>8, <1>9 DEF Next, Finished

\* Nothing is accepted at the start.
LEMMA ListsInit == Init => ListsInv
<1> SUFFICES ASSUME Init PROVE ListsInv
  OBVIOUS
<1>1. stage \in Stages
  BY DEF Init, Stages
<1>2. /\ \A l \in Lists : definitions[l] = <<>> /\ Len(definitions[l]) = 0
      /\ \A l \in ProcessLists : Len(processRules[l]) = 0
      /\ \A l \in RegistryLists : Len(compiled[l]) = 0
  BY DEF Init
<1>3. ListTypes
  BY <1>1 DEF Init, ListTypes
<1>4. InOrder
  BY <1>2 DEF InOrder
<1>5. ProcessCompiled /\ RegistryCompiled
  BY <1>2 DEF ProcessCompiled, RegistryCompiled, Lists
<1> QED
  BY <1>3, <1>4, <1>5 DEF ListsInv

\* Every registry operation is judged by the first rule of the file that means
\* it, whatever rules the file has (972-1008).
THEOREM RegistryRulesCompiled == Spec => []RegistryRulesAsDeclared
<1>1. ASSUME ListsInv, NEW l \in RegistryLists, NEW k \in DOMAIN compiled[l]
      PROVE  /\ \A j \in 1..(k - 1) : definitions[l][j] < definitions[l][k]
             /\ \A e \in compiled[l][k] :
                  e.id = Declared(l, k).id /\ e.severity = Declared(l, k).severity
             /\ \A o \in Operations :
                  (\E e \in compiled[l][k] : Hits(e, o)) <=> Means(Declared(l, k), o)
  <2> DEFINE rule == Declared(l, k)
  <2>1. l \in Lists /\ l \notin ProcessLists
    BY DEF Lists, ProcessLists, RegistryLists
  <2>2. k \in 1..Len(definitions[l])
    BY <1>1 DEF ListsInv, ListTypes, RegistryCompiled
  <2>3. /\ definitions[l][k] \in Rules(l) /\ definitions[l] # <<>>
        /\ \A j \in 1..(k - 1) : definitions[l][j] < definitions[l][k]
    <3>1. definitions[l] \in Seq(Nat)
      BY <1>1, <2>1 DEF ListsInv, ListTypes
    <3>2. definitions[l] # <<>>
      BY <2>2, <3>1
    <3> QED
      BY <1>1, <2>1, <2>2, <3>2 DEF ListsInv, InOrder
  <2>4. IsRegistryRule(rule)
    <3>1. doc.lists[l] \notin {Absent, Mistyped} /\ doc \in Documents
      BY <1>1, <2>1, <2>3 DEF ListsInv, ListTypes, InOrder
    <3>2. /\ doc.lists[l] \in Seq(Range(doc.lists[l]))
          /\ \A r \in Range(doc.lists[l]) : IsRegistryRule(r)
      BY <2>1, <3>1, DocumentsAssumption
    <3>3. rule \in Range(doc.lists[l])
      BY <2>3, <3>2 DEF Rules, Declared
    <3> QED
      BY <3>2, <3>3
  <2>5. compiled[l][k] = ParseSingleRegistryRule(rule) /\ compiled[l][k] # {}
    BY <1>1, <2>2 DEF ListsInv, RegistryCompiled
  <2> HIDE DEF rule
  <2>6. \A e \in ParseSingleRegistryRule(rule) : e.id = rule.id /\ e.severity = rule.severity
    BY DEF ParseSingleRegistryRule, ExpandSingleRegistryRule
  <2>7. \A o \in Operations :
          (\E e \in ParseSingleRegistryRule(rule) : Hits(e, o)) <=> Means(rule, o)
    BY <2>4, <2>5, RuleMeans
  <2> QED
    BY <2>3, <2>5, <2>6, <2>7 DEF rule
<1>2. ListsInv => RegistryRulesAsDeclared
  BY <1>1 DEF RegistryRulesAsDeclared
<1> QED
  BY <1>2, ListsInit, ListsStep, PTL DEF Spec

\* A process rule matches the creations its matchers match, and no rule matches
\* a creation of which nothing is known (340-370, 423-480).
THEOREM ProcessRulesCompiled == Spec => []ProcessRulesAsDeclared
<1>1. ASSUME ListsInv, NEW l \in ProcessLists, NEW k \in DOMAIN processRules[l]
      PROVE  /\ processRules[l][k] = DetectionRule(Declared(l, k))
             /\ UsableDetectionRule(Declared(l, k))
             /\ IsDetectionRule(Declared(l, k))
  <2>1. l \in Lists
    BY DEF Lists
  <2>2. k \in 1..Len(definitions[l])
    BY <1>1 DEF ListsInv, ListTypes, ProcessCompiled
  <2>3. definitions[l][k] \in Rules(l) /\ definitions[l] # <<>>
    <3>1. definitions[l] \in Seq(Nat)
      BY <1>1, <2>1 DEF ListsInv, ListTypes
    <3>2. definitions[l] # <<>>
      BY <2>2, <3>1
    <3> QED
      BY <1>1, <2>1, <2>2, <3>2 DEF ListsInv, InOrder
  <2>4. IsDetectionRule(Declared(l, k))
    <3>1. doc.lists[l] \notin {Absent, Mistyped} /\ doc \in Documents
      BY <1>1, <2>1, <2>3 DEF ListsInv, ListTypes, InOrder
    <3>2. /\ doc.lists[l] \in Seq(Range(doc.lists[l]))
          /\ \A r \in Range(doc.lists[l]) : IsDetectionRule(r)
      BY <2>1, <3>1, DocumentsAssumption
    <3>3. Declared(l, k) \in Range(doc.lists[l])
      BY <2>3, <3>2 DEF Rules, Declared
    <3> QED
      BY <3>2, <3>3
  <2> QED
    BY <1>1, <2>2, <2>4 DEF ListsInv, ProcessCompiled
<1>2. ListsInv => ProcessRulesAsDeclared
  BY <1>1, DetectionRuleMeans DEF ProcessRulesAsDeclared
<1> QED
  BY <1>2, ListsInit, ListsStep, PTL DEF Spec
-----------------------------------------------------------------------------
(* The limit of contains entries.                                          *)

\* The image of a finite set is finite.
LEMMA FiniteImage ==
  ASSUME NEW S, IsFiniteSet(S), NEW f
  PROVE  IsFiniteSet({f[x] : x \in S})
<1> DEFINE T == {f[x] : x \in S}
           g == [x \in S |-> f[x]]
<1>1. g \in Surjection(S, T)
  BY DEF Surjection
<1> HIDE DEF g, T
<1>2. IsFiniteSet(T)
  BY <1>1, FS_Surjection
<1> QED
  BY <1>2 DEF T

\* What one rule expands to: finitely many entries, each field of which has one
\* of the match types (the combinations of five finite sets of values).
LEMMA EntriesOfRule ==
  ASSUME NEW rule, IsRegistryRule(rule)
  PROVE  /\ IsFiniteSet(ParseSingleRegistryRule(rule))
         /\ \A e \in ParseSingleRegistryRule(rule) : \A f \in DOMAIN e.match :
              e.match[f][1] \in MatchTypes
<1> DEFINE Combos == {c \in [Enabled(rule) -> Texts] :
                         \A f \in Enabled(rule) : c[f] \in FieldValues(rule, f)}
           Entry(c) == [id |-> rule.id, severity |-> rule.severity, operation |-> Operation(rule),
                        match |-> [f \in Enabled(rule) |-> <<FieldType(rule, f), c[f]>>]]
<1>1. CASE ParseSingleRegistryRule(rule) = {}
  BY <1>1, FS_EmptySet
<1>2. CASE ParseSingleRegistryRule(rule) # {}
  <2>1. UsableRegistryRule(rule) /\ ParseSingleRegistryRule(rule) = {Entry(c) : c \in Combos}
    BY <1>2 DEF ParseSingleRegistryRule, ExpandSingleRegistryRule
  <2>2. Enabled(rule) \subseteq Flags
    BY DEF IsRegistryRule, Enabled, Flags
  <2>3. ASSUME NEW f \in Enabled(rule)
        PROVE  IsFiniteSet(FieldValues(rule, f)) /\ FieldType(rule, f) \in MatchTypes
    <3> DEFINE field == Source(rule, f)
    <3>1. UsableField(f, field)
      BY <2>1 DEF UsableRegistryRule
    <3>2. \E g \in DOMAIN rule.fields : field = rule.fields[g]
      BY DEF Source, Enabled
    <3>3. /\ field.matchType \in MatchTypes \cup {Absent}
          /\ field.values \subseteq Texts /\ IsFiniteSet(field.values)
      BY <3>1, <3>2 DEF IsRegistryRule, UsableField
    <3> HIDE DEF field
    <3>4. FieldTypes(f, field) \subseteq MatchTypes
      BY <3>3 DEF FieldTypes, Classified, DefaultType, MatchTypes
    <3>5. FieldTypes(f, field) # {}
      BY <3>1, FS_EmptySet DEF UsableField
    <3>6. FieldType(rule, f) \in FieldTypes(f, field)
      BY <3>5 DEF FieldType, field
    <3>7. IsFiniteSet(RawValues(field))
      BY <3>3, FS_Subset DEF RawValues
    <3>8. IsFiniteSet({Normalized(field, t) : t \in RawValues(field)})
      <4> DEFINE image == [t \in RawValues(field) |-> Normalized(field, t)]
      <4>1. IsFiniteSet({image[t] : t \in RawValues(field)})
        <5> HIDE DEF image
        <5> QED
          BY <3>7, FiniteImage
      <4> QED
        BY <4>1
    <3> QED
      BY <3>4, <3>6, <3>8 DEF FieldValues, field
  <2> DEFINE values(f) == IF f \in Enabled(rule) THEN FieldValues(rule, f) ELSE {Absent}
             product == (values("process_name") \X values("key_path"))
                          \X (values("info_class") \X (values("value_name") \X values("value_data")))
             choice(x) == [f \in Enabled(rule) |->
                             CASE f = "process_name" -> x[1][1]
                               [] f = "key_path" -> x[1][2]
                               [] f = "info_class" -> x[2][1]
                               [] f = "value_name" -> x[2][2][1]
                               [] OTHER -> x[2][2][2]]
  <2>4. \A f \in Flags : IsFiniteSet(values(f))
    BY <2>3, FS_Singleton
  <2>5. IsFiniteSet(product)
    <3> HIDE DEF values
    <3>1. /\ IsFiniteSet(values("process_name")) /\ IsFiniteSet(values("key_path"))
          /\ IsFiniteSet(values("info_class")) /\ IsFiniteSet(values("value_name"))
          /\ IsFiniteSet(values("value_data"))
      BY <2>4 DEF Flags
    <3>2. IsFiniteSet(values("process_name") \X values("key_path"))
      BY <3>1, FS_Product
    <3>3. IsFiniteSet(values("value_name") \X values("value_data"))
      BY <3>1, FS_Product
    <3>4. IsFiniteSet(values("info_class") \X (values("value_name") \X values("value_data")))
      BY <3>1, <3>3, FS_Product
    <3> QED
      BY <3>2, <3>4, FS_Product
  <2>6. ASSUME NEW c \in Combos
        PROVE  \E x \in product : c = choice(x)
    <3> DEFINE v(f) == IF f \in Enabled(rule) THEN c[f] ELSE Absent
               x == <<<<v("process_name"), v("key_path")>>,
                      <<v("info_class"), <<v("value_name"), v("value_data")>>>>>>
    <3>1. \A f \in Flags : v(f) \in values(f)
      OBVIOUS
    <3>2. x \in product
      <4> HIDE DEF v, values
      <4> QED
        BY <3>1 DEF Flags
    <3>3. \A f \in Enabled(rule) : choice(x)[f] = c[f]
      BY <2>2 DEF Flags
    <3>4. c = [f \in Enabled(rule) |-> c[f]]
      OBVIOUS
    <3>5. choice(x) = [f \in Enabled(rule) |-> choice(x)[f]]
      OBVIOUS
    <3>6. choice(x) = c
      <4> HIDE DEF choice, x, Combos
      <4> QED
        BY <3>3, <3>4, <3>5
    <3> HIDE DEF x, product, choice
    <3> QED
      BY <3>2, <3>6
  <2>7. IsFiniteSet({choice(x) : x \in product})
    <3> DEFINE image == [x \in product |-> choice(x)]
    <3>1. IsFiniteSet({image[x] : x \in product})
      <4> HIDE DEF image, product
      <4> QED
        BY <2>5, FiniteImage
    <3> HIDE DEF choice, product
    <3> QED
      BY <3>1
  <2>8. IsFiniteSet(Combos)
    <3>1. Combos \subseteq {choice(x) : x \in product}
      <4> HIDE DEF Combos, choice, product
      <4> QED
        BY <2>6
    <3> HIDE DEF Combos, choice, product
    <3> QED
      BY <2>7, <3>1, FS_Subset
  <2>9. IsFiniteSet({Entry(c) : c \in Combos})
    <3> DEFINE image == [c \in Combos |-> Entry(c)]
    <3>1. IsFiniteSet({image[c] : c \in Combos})
      <4> HIDE DEF image, Combos
      <4> QED
        BY <2>8, FiniteImage
    <3> HIDE DEF Combos, Entry
    <3> QED
      BY <3>1
  <2>10. \A c \in Combos : \A f \in DOMAIN Entry(c).match : Entry(c).match[f][1] \in MatchTypes
    BY <2>3
  <2> HIDE DEF Combos, Entry
  <2> QED
    BY <2>1, <2>9, <2>10
<1> QED
  BY <1>1, <1>2

\* The class of an entry is the largest of its match types.
LEMMA ClassMeans ==
  ASSUME NEW e, \A f \in DOMAIN e.match : e.match[f][1] \in MatchTypes, NEW t \in MatchTypes
  PROVE  /\ Class(e) = t <=> /\ \A f \in DOMAIN e.match : e.match[f][1] <= t
                             /\ t = EXACT \/ \E f \in DOMAIN e.match : e.match[f][1] = t
         /\ Class(e) = CONTAINS <=> \E f \in DOMAIN e.match : e.match[f][1] = CONTAINS
<1> DEFINE S == {EXACT} \cup {e.match[f][1] : f \in DOMAIN e.match}
<1>1. S \subseteq 1..4 /\ 1 \in S
  BY DEF MatchTypes, EXACT, PREFIX, SUFFIX, CONTAINS
<1>2. \E m \in S : \A y \in S : m >= y
  <2> HIDE DEF S
  <2>1. CASE 4 \in S
    BY <1>1, <2>1
  <2>2. CASE 4 \notin S /\ 3 \in S
    BY <1>1, <2>2
  <2>3. CASE 4 \notin S /\ 3 \notin S /\ 2 \in S
    BY <1>1, <2>3
  <2>4. CASE 4 \notin S /\ 3 \notin S /\ 2 \notin S
    <3>1. \A y \in S : y = 1
      BY <1>1, <2>4
    <3> QED
      BY <1>1, <3>1
  <2> QED
    BY <2>1, <2>2, <2>3, <2>4
<1>3. Class(e) = Max(S)
  BY DEF Class
<1>4. Class(e) \in S /\ \A y \in S : Class(e) >= y
  <2> HIDE DEF S
  <2> QED
    BY <1>2, <1>3 DEF Max
<1>5. t \in 1..4
  BY DEF MatchTypes, EXACT, PREFIX, SUFFIX, CONTAINS
<1>6. Class(e) = t <=> t \in S /\ \A y \in S : y <= t
  <2> HIDE DEF S
  <2>1. Class(e) \in 1..4
    BY <1>1, <1>4
  <2>2. ASSUME t \in S, \A y \in S : y <= t PROVE Class(e) = t
    <3>1. Class(e) <= t /\ Class(e) >= t
      BY <1>4, <2>2
    <3> QED
      BY <1>5, <2>1, <3>1
  <2>3. ASSUME Class(e) = t, NEW y \in S PROVE y <= t
    <3>1. y \in 1..4 /\ t >= y
      BY <1>1, <1>4, <2>3
    <3> QED
      BY <1>5, <3>1
  <2> QED
    BY <1>4, <2>2, <2>3
<1>7. t \in S <=> t = EXACT \/ \E f \in DOMAIN e.match : e.match[f][1] = t
  OBVIOUS
<1>8. (\A y \in S : y <= t) <=> \A f \in DOMAIN e.match : e.match[f][1] <= t
  <2>1. EXACT <= t
    BY <1>5 DEF EXACT
  <2> QED
    BY <2>1
<1>9. Class(e) = CONTAINS <=> CONTAINS \in S
  <2> HIDE DEF S
  <2>1. Class(e) \in 1..4 /\ CONTAINS = 4
    BY <1>1, <1>4 DEF CONTAINS
  <2>2. CONTAINS \in S => Class(e) >= 4
    BY <1>4, <2>1
  <2> QED
    BY <1>4, <2>1, <2>2
<1>10. CONTAINS \in S <=> \E f \in DOMAIN e.match : e.match[f][1] = CONTAINS
  BY DEF CONTAINS, EXACT
<1> QED
  BY <1>6, <1>7, <1>8, <1>9, <1>10

\* The entries of a class.
OfClass(l, t) == {e \in Entries(l) : Class(e[2]) = t}

Counts ==
  /\ \A s \in Settings : settings[s] \in Accepted[s]
  /\ stats \in [RegistryLists -> [MatchTypes -> Nat]]
  /\ \A l \in RegistryLists : stats[l][CONTAINS] <= MaxContains
  /\ \A l \in RegistryLists, t \in MatchTypes :
       IsFiniteSet(OfClass(l, t)) /\ stats[l][t] = Cardinality(OfClass(l, t))

\* An accepted rule adds its entries to the counts of its list.
LEMMA CountStep ==
  ASSUME ListsInv, Counts, NEW rule, IsRegistryRule(rule), stage \in RegistryLists,
         compiled' = [compiled EXCEPT ![stage] = Append(@, ParseSingleRegistryRule(rule))],
         WithinLimit(stage, CountCompiledRulesByMatchType(ParseSingleRegistryRule(rule))),
         stats' = [stats EXCEPT ![stage] =
           [t \in MatchTypes |-> @[t]
              + CountCompiledRulesByMatchType(ParseSingleRegistryRule(rule))[t]]],
         UNCHANGED settings
  PROVE  Counts'
<1> DEFINE entries == ParseSingleRegistryRule(rule)
           added(t) == {e \in entries : Class(e) = t}
           next == Len(compiled[stage]) + 1
<1>1. IsFiniteSet(entries)
  BY EntriesOfRule
<1>2. \A t \in MatchTypes : IsFiniteSet(added(t)) /\ Cardinality(added(t)) \in Nat
  BY <1>1, FS_Subset, FS_CardinalityType
<1>3. compiled[stage] \in Seq(RegistryEntries) /\ Len(compiled[stage]) \in Nat
  BY DEF ListsInv, ListTypes
<1>4. /\ DOMAIN compiled[stage] = 1..Len(compiled[stage])
      /\ DOMAIN compiled'[stage] = DOMAIN compiled[stage] \cup {next}
      /\ \A k \in DOMAIN compiled[stage] : compiled'[stage][k] = compiled[stage][k]
      /\ compiled'[stage][next] = entries
      /\ next \notin DOMAIN compiled[stage]
      /\ \A l \in RegistryLists \ {stage} : compiled'[l] = compiled[l]
  <2>1. compiled'[stage] = Append(compiled[stage], entries)
    BY DEF ListsInv, ListTypes
  <2>2. \A l \in RegistryLists \ {stage} : compiled'[l] = compiled[l]
    BY DEF ListsInv, ListTypes
  <2> HIDE DEF entries
  <2> QED
    BY <1>3, <2>1, <2>2
<1>5. \A t \in MatchTypes : CountCompiledRulesByMatchType(entries)[t] = Cardinality(added(t))
  BY DEF CountCompiledRulesByMatchType
<1>6. /\ \A l \in RegistryLists \ {stage} : stats'[l] = stats[l]
      /\ \A t \in MatchTypes : stats'[stage][t] = stats[stage][t] + Cardinality(added(t))
      /\ stats' \in [RegistryLists -> [MatchTypes -> Nat]]
  <2> DEFINE counts == CountCompiledRulesByMatchType(entries)
  <2>1. stats \in [RegistryLists -> [MatchTypes -> Nat]]
    BY DEF Counts
  <2>2. stats' = [stats EXCEPT ![stage] = [t \in MatchTypes |-> stats[stage][t] + counts[t]]]
    BY <2>1
  <2>3. \A t \in MatchTypes : counts[t] = Cardinality(added(t)) /\ counts[t] \in Nat
    BY <1>2, <1>5
  <2> HIDE DEF counts, added
  <2>4. \A t \in MatchTypes : stats[stage][t] + counts[t] \in Nat
    BY <2>1, <2>3
  <2>5. [t \in MatchTypes |-> stats[stage][t] + counts[t]] \in [MatchTypes -> Nat]
    BY <2>4
  <2> QED
    BY <2>1, <2>2, <2>3, <2>5
<1>7. stats'[stage][CONTAINS] <= MaxContains
  BY <1>5, <1>6 DEF WithinLimit, MatchTypes
<1>8. ASSUME NEW l \in RegistryLists, l # stage, NEW t \in MatchTypes
      PROVE  OfClass(l, t)' = OfClass(l, t)
  <2>1. compiled'[l] = compiled[l]
    BY <1>4, <1>8
  <2> QED
    BY <2>1 DEF OfClass, Entries
<1>9. ASSUME NEW l \in RegistryLists, l = stage, NEW t \in MatchTypes
      PROVE  /\ IsFiniteSet(OfClass(l, t)')
             /\ stats'[l][t] = Cardinality(OfClass(l, t)')
  <2> DEFINE old == OfClass(l, t)
             new == {next} \X added(t)
  <2>1. IsFiniteSet(old) /\ stats[l][t] = Cardinality(old)
    BY DEF Counts
  <2>2. IsFiniteSet(new) /\ Cardinality(new) = Cardinality(added(t))
    <3>1. IsFiniteSet({next}) /\ Cardinality({next}) = 1
      BY FS_Singleton
    <3>2. IsFiniteSet(added(t)) /\ Cardinality(added(t)) \in Nat
      BY <1>2
    <3> HIDE DEF added, next
    <3>3. IsFiniteSet(new) /\ Cardinality(new) = Cardinality({next}) * Cardinality(added(t))
      BY <3>1, <3>2, FS_Product
    <3> QED
      BY <3>1, <3>2, <3>3
  <2>3. OfClass(l, t)' = old \cup new
    <3>1. \A e : e \in OfClass(l, t)' <=>
            /\ \E k \in DOMAIN compiled'[l] : e \in {k} \X compiled'[l][k]
            /\ Class(e[2]) = t
      BY DEF OfClass, Entries
    <3>2. \A e : e \in old <=>
            /\ \E k \in DOMAIN compiled[l] : e \in {k} \X compiled[l][k]
            /\ Class(e[2]) = t
      BY DEF OfClass, Entries
    <3>3. \A e : e \in new <=> e \in {next} \X entries /\ Class(e[2]) = t
      <4> HIDE DEF entries, next
      <4> QED
        OBVIOUS
    <3>4. \A e : (\E k \in DOMAIN compiled'[l] : e \in {k} \X compiled'[l][k])
                  <=> \/ \E k \in DOMAIN compiled[l] : e \in {k} \X compiled[l][k]
                      \/ e \in {next} \X entries
      <4> DEFINE here(e, k, s) == e \in {k} \X s
      <4> HIDE DEF here, entries, next
      <4>1. \A e : (\E k \in DOMAIN compiled'[l] : here(e, k, compiled'[l][k]))
                    <=> \/ \E k \in DOMAIN compiled[l] : here(e, k, compiled[l][k])
                        \/ here(e, next, entries)
        BY <1>4, <1>9
      <4> QED
        BY <4>1 DEF here
    <3> HIDE DEF old, new, entries, next
    <3>5. \A e : e \in OfClass(l, t)' <=> e \in old \cup new
      BY <3>1, <3>2, <3>3, <3>4
    <3> QED
      BY <3>5
  <2>4. old \cap new = {}
    <3>1. \A e \in old : e[1] \in DOMAIN compiled[l]
      BY DEF OfClass, Entries
    <3>2. \A e \in new : e[1] = next
      OBVIOUS
    <3> HIDE DEF old, new, next
    <3> QED
      BY <1>4, <1>9, <3>1, <3>2
  <2>5. IsFiniteSet(old \cup new) /\ Cardinality(old \cup new) = Cardinality(old) + Cardinality(new)
    <3>1. Cardinality(old \cap new) = 0
      BY <2>4, FS_EmptySet
    <3>2. Cardinality(old) \in Nat /\ Cardinality(new) \in Nat
      BY <2>1, <2>2, FS_CardinalityType
    <3> HIDE DEF old, new
    <3>3. /\ IsFiniteSet(old \cup new)
          /\ Cardinality(old \cup new)
               = Cardinality(old) + Cardinality(new) - Cardinality(old \cap new)
      BY <2>1, <2>2, FS_Union
    <3> QED
      BY <3>1, <3>2, <3>3
  <2> HIDE DEF old, new, added
  <2> QED
    BY <1>6, <1>9, <2>1, <2>2, <2>3, <2>5
<1> QED
  <2>1. \A s \in Settings : settings'[s] \in Accepted[s]
    BY DEF Counts
  <2>2. \A l \in RegistryLists : stats'[l][CONTAINS] <= MaxContains
    BY <1>6, <1>7 DEF Counts
  <2>3. ASSUME NEW l \in RegistryLists, NEW t \in MatchTypes
        PROVE  IsFiniteSet(OfClass(l, t)') /\ stats'[l][t] = Cardinality(OfClass(l, t)')
    <3>1. CASE l = stage
      BY <1>9, <3>1
    <3>2. CASE l # stage
      <4>1. IsFiniteSet(OfClass(l, t)) /\ stats[l][t] = Cardinality(OfClass(l, t))
        BY DEF Counts
      <4> QED
        BY <1>6, <1>8, <3>2, <4>1
    <3> QED
      BY <3>1, <3>2
  <2> QED
    BY <1>6, <2>1, <2>2, <2>3 DEF Counts

\* The other steps keep the compiled rules, and the settings they set are accepted.
LEMMA CountsStep == ListsInv /\ Counts /\ [Next]_vars => Counts'
<1> SUFFICES ASSUME ListsInv, Counts, [Next]_vars PROVE Counts'
  OBVIOUS
<1>1. ASSUME UNCHANGED <<compiled, stats>>, \A s \in Settings : settings'[s] \in Accepted[s]
      PROVE  Counts'
  <2>1. ASSUME NEW l \in RegistryLists, NEW t \in MatchTypes PROVE OfClass(l, t)' = OfClass(l, t)
    BY <1>1 DEF OfClass, Entries
  <2> QED
    BY <1>1, <2>1 DEF Counts
<1>2. \A s \in Settings : settings[s] \in Accepted[s]
  BY DEF Counts
<1>3. ASSUME UNCHANGED <<settings, rules>> PROVE Counts'
  BY <1>1, <1>2, <1>3 DEF rules
<1>4. CASE ParseRoot
  BY <1>3, <1>4 DEF ParseRoot, GiveUp
<1>5. ASSUME NEW section, NEW names, ParseSettings(section, names) PROVE Counts'
  <2>1. CASE GiveUp
    BY <1>3, <2>1 DEF GiveUp
  <2>2. CASE ~GiveUp
    <3>1. \A s \in names : Usable(s)
      BY <1>5, <2>2 DEF ParseSettings
    <3>2. \A s \in names \cap Settings : Parsed(s) \in Accepted[s]
      BY <3>1, ConstantsAssumption DEF Usable, Parsed, Settings, VerdictSettings
    <3>3. settings' = [s \in Settings |-> IF s \in names THEN Parsed(s) ELSE settings[s]]
          /\ UNCHANGED rules
      BY <1>5, <2>2 DEF ParseSettings
    <3>4. \A s \in Settings : settings'[s] \in Accepted[s]
      BY <1>2, <3>2, <3>3
    <3> QED
      BY <1>1, <3>3, <3>4 DEF rules
  <2> QED
    BY <2>1, <2>2
<1>6. CASE ParseProcessVerdictConfig
  BY <1>5, <1>6 DEF ParseProcessVerdictConfig
<1>7. CASE ParseAutoResponseConfig
  BY <1>5, <1>7 DEF ParseAutoResponseConfig
<1>8. CASE ParseDetectionRuleArray
  <2>1. UNCHANGED <<settings, compiled, stats>>
    BY <1>8 DEF ParseDetectionRuleArray, ParseDetectionRule, GiveUp, Skip, Accept, rules
  <2> QED
    BY <1>1, <1>2, <2>1
<1>9. CASE ParseRegistryRuleArray
  <2> DEFINE rule == doc.lists[stage][item]
             entries == ParseSingleRegistryRule(rule)
  <2>1. stage \in RegistryLists /\ stage \in Lists /\ stage \notin ProcessLists
        /\ doc' = doc /\ UNCHANGED settings
    BY <1>9 DEF ParseRegistryRuleArray, Lists, RegistryLists, ProcessLists
  <2>2. CASE Through(doc.lists[stage])
    <3>1. UNCHANGED rules
      BY <1>9, <2>2, DocumentsAssumption DEF ParseRegistryRuleArray, Through
    <3> QED
      BY <1>3, <2>1, <3>1
  <2>3. CASE doc.lists[stage] = Mistyped
    <3>1. UNCHANGED rules
      BY <1>9, <2>3, DocumentsAssumption DEF ParseRegistryRuleArray, Through, GiveUp
    <3> QED
      BY <1>3, <2>1, <3>1
  <2>4. CASE ~Through(doc.lists[stage]) /\ doc.lists[stage] # Mistyped
    <3>1. IsRegistryRule(rule)
      <4>1. item \in Rules(stage) /\ doc.lists[stage] \notin {Absent, Mistyped}
        BY <2>1, <2>4, AtRule DEF ListsInv
      <4>2. /\ doc.lists[stage] \in Seq(Range(doc.lists[stage]))
            /\ \A r \in Range(doc.lists[stage]) : IsRegistryRule(r)
        BY <2>1, <4>1, DocumentsAssumption DEF ListsInv, ListTypes
      <4>3. rule \in Range(doc.lists[stage])
        BY <4>1, <4>2 DEF Rules, Range
      <4> QED
        BY <4>2, <4>3
    <3>2. ParseRegistryRule(stage, rule)
      BY <1>9, <2>4 DEF ParseRegistryRuleArray
    <3>3. \/ UNCHANGED rules
          \/ /\ compiled' = [compiled EXCEPT ![stage] = Append(@, entries)]
             /\ WithinLimit(stage, CountCompiledRulesByMatchType(entries))
             /\ stats' = [stats EXCEPT ![stage] = [t \in MatchTypes |->
                            @[t] + CountCompiledRulesByMatchType(entries)[t]]]
      BY <3>2 DEF ParseRegistryRule, GiveUp, Skip
    <3> HIDE DEF rule
    <3> QED
      BY <1>3, <2>1, <3>1, <3>3, CountStep
  <2> QED
    BY <2>2, <2>3, <2>4
<1>10. CASE UNCHANGED vars
  BY <1>3, <1>10 DEF vars
<1> QED
  BY <1>4, <1>6, <1>7, <1>8, <1>9, <1>10 DEF Next, Finished

\* Nothing is counted at the start.
LEMMA CountsInit == Init => Counts
<1> SUFFICES ASSUME Init PROVE Counts
  OBVIOUS
<1>1. ASSUME NEW l \in RegistryLists, NEW t \in MatchTypes PROVE OfClass(l, t) = {}
  BY DEF Init, OfClass, Entries
<1>2. IsFiniteSet({}) /\ Cardinality({}) = 0
  BY FS_EmptySet
<1>3. stats \in [RegistryLists -> [MatchTypes -> Nat]]
      /\ \A l \in RegistryLists, t \in MatchTypes : stats[l][t] = 0
  BY DEF Init
<1>4. \A s \in Settings : settings[s] \in Accepted[s]
  BY ConstantsAssumption DEF Init
<1>5. \A l \in RegistryLists : stats[l][CONTAINS] <= MaxContains
  BY <1>3, ConstantsAssumption DEF MatchTypes
<1> QED
  BY <1>1, <1>2, <1>3, <1>4, <1>5 DEF Counts

\* The settings of a configuration are accepted values, and what is compiled
\* comes from rules of the file (102-336, 403-1008).
THEOREM CompilerTypeCorrect == Spec => []TypeOK
<1>1. ListsInv /\ Counts => TypeOK
  <2> SUFFICES ASSUME ListsInv, Counts PROVE TypeOK
    OBVIOUS
  <2>1. DOMAIN doc.lists = Lists
    BY DocumentsAssumption DEF ListsInv, ListTypes
  <2>2. stage \in {"root", "process_verdict", "response", "done", "failed"} \cup Lists
        /\ item \in Nat \ {0} /\ DOMAIN definitions = Lists
    BY DEF ListsInv, ListTypes, Stages
  <2>3. ASSUME NEW l \in Lists, NEW k \in DOMAIN definitions[l]
        PROVE  definitions[l][k] \in DOMAIN doc.lists[l]
    <3>1. definitions[l] \in Seq(Nat)
      BY DEF ListsInv, ListTypes
    <3>2. k \in 1..Len(definitions[l]) /\ definitions[l] # <<>>
      BY <3>1
    <3>3. definitions[l][k] \in Rules(l) /\ doc.lists[l] \notin {Absent, Mistyped}
      BY <3>2 DEF ListsInv, InOrder
    <3>4. doc.lists[l] \in Seq(Range(doc.lists[l]))
      BY <3>3, DocumentsAssumption DEF ListsInv, ListTypes
    <3> QED
      BY <3>3, <3>4 DEF Rules
  <2> QED
    BY <2>1, <2>2, <2>3 DEF TypeOK, ListsInv, ProcessCompiled, RegistryCompiled, Counts
<1> QED
  BY <1>1, ListsInit, ListsStep, CountsInit, CountsStep, PTL DEF Spec

\* No list has more contains entries than the driver's store takes, and the
\* statistics count the entries that are there, whatever rules the file has
\* (991-1000).
THEOREM ContainsBounded == Spec => []ContainsLimited
<1>1. ASSUME ListsInv, Counts, NEW l \in RegistryLists, NEW e \in Entries(l)
      PROVE  \A f \in DOMAIN e[2].match : e[2].match[f][1] \in MatchTypes
  <2>1. PICK k \in DOMAIN compiled[l] : e \in {k} \X compiled[l][k]
    BY DEF Entries
  <2>2. l \in Lists /\ l \notin ProcessLists
    BY DEF Lists, ProcessLists, RegistryLists
  <2>3. k \in 1..Len(definitions[l])
    BY <1>1 DEF ListsInv, ListTypes, RegistryCompiled
  <2>4. definitions[l][k] \in Rules(l) /\ doc.lists[l] \notin {Absent, Mistyped}
    <3>1. definitions[l] \in Seq(Nat)
      BY <1>1, <2>2 DEF ListsInv, ListTypes
    <3>2. definitions[l] # <<>>
      BY <2>3, <3>1
    <3> QED
      BY <1>1, <2>2, <2>3, <3>2 DEF ListsInv, InOrder
  <2>5. IsRegistryRule(Declared(l, k))
    <3>1. /\ doc.lists[l] \in Seq(Range(doc.lists[l]))
          /\ \A r \in Range(doc.lists[l]) : IsRegistryRule(r)
      BY <1>1, <2>2, <2>4, DocumentsAssumption DEF ListsInv, ListTypes
    <3>2. Declared(l, k) \in Range(doc.lists[l])
      BY <2>4, <3>1 DEF Rules, Declared, Range
    <3> QED
      BY <3>1, <3>2
  <2>6. e[2] \in ParseSingleRegistryRule(Declared(l, k))
    BY <1>1, <2>1, <2>3 DEF ListsInv, RegistryCompiled
  <2> QED
    BY <2>5, <2>6, EntriesOfRule
<1>2. ASSUME ListsInv, Counts, NEW l \in RegistryLists
      PROVE  /\ {e \in Entries(l) : \E f \in DOMAIN e[2].match : e[2].match[f][1] = CONTAINS}
                  = OfClass(l, CONTAINS)
             /\ \A t \in MatchTypes :
                  {e \in Entries(l) :
                     /\ \A f \in DOMAIN e[2].match : e[2].match[f][1] <= t
                     /\ t = EXACT \/ \E f \in DOMAIN e[2].match : e[2].match[f][1] = t}
                  = OfClass(l, t)
  <2>1. CONTAINS \in MatchTypes
    BY DEF MatchTypes
  <2>2. ASSUME NEW e \in Entries(l), NEW t \in MatchTypes
        PROVE  /\ Class(e[2]) = t <=>
                    /\ \A f \in DOMAIN e[2].match : e[2].match[f][1] <= t
                    /\ t = EXACT \/ \E f \in DOMAIN e[2].match : e[2].match[f][1] = t
               /\ Class(e[2]) = CONTAINS <=>
                    \E f \in DOMAIN e[2].match : e[2].match[f][1] = CONTAINS
    BY <1>1, <1>2, ClassMeans
  <2> QED
    BY <2>1, <2>2 DEF OfClass
<1>3. ListsInv /\ Counts => ContainsLimited
  <2> DEFINE containing(l) ==
               {e \in Entries(l) : \E f \in DOMAIN e[2].match : e[2].match[f][1] = CONTAINS}
             matched(l, t) ==
               {e \in Entries(l) :
                  /\ \A f \in DOMAIN e[2].match : e[2].match[f][1] <= t
                  /\ t = EXACT \/ \E f \in DOMAIN e[2].match : e[2].match[f][1] = t}
  <2>1. ASSUME ListsInv, Counts, NEW l \in RegistryLists
        PROVE  /\ Cardinality(containing(l)) <= MaxContains
               /\ \A t \in MatchTypes : stats[l][t] = Cardinality(matched(l, t))
    <3>1. containing(l) = OfClass(l, CONTAINS)
          /\ \A t \in MatchTypes : matched(l, t) = OfClass(l, t)
      BY <1>2, <2>1
    <3>2. CONTAINS \in MatchTypes
      BY DEF MatchTypes
    <3> HIDE DEF containing, matched
    <3> QED
      BY <2>1, <3>1, <3>2 DEF Counts
  <2> QED
    BY <2>1 DEF ContainsLimited
<1> QED
  BY <1>3, ListsInit, ListsStep, CountsInit, CountsStep, PTL DEF Spec
-----------------------------------------------------------------------------
(* The lists as a whole.                                                   *)

Reached(l) == doc.root = "object" \/ l = "process_rules"

\* Rule i of list l is where it belongs.
Judged(l, i) ==
  /\ ~Spoils(l, doc.lists[l][i])
  /\ Wanted(l, doc.lists[l][i]) <=> \E k \in 1..Len(definitions[l]) : definitions[l][k] = i

\* The lists before the stage are judged, and so are the rules before the item.
Covered ==
  stage # "failed" => \A l \in Lists : Reached(l) /\ doc.lists[l] # Absent =>
    /\ Place[l] < Place[stage] => doc.lists[l] # Mistyped /\ \A i \in Rules(l) : Judged(l, i)
    /\ stage = l /\ doc.lists[l] # Mistyped => \A i \in Rules(l) : i < item => Judged(l, i)

\* The next stage passes no list but the one it leaves.
LEMMA NoListPassed ==
  ASSUME stage \in Stages, stage \notin {"done", "failed"}, NEW l \in Lists, Reached(l),
         Place[l] < Place[After(stage)]
  PROVE  Place[l] < Place[stage] \/ l = stage
<1>1. stage \in {"root", "process_verdict", "response"} \cup Lists
  BY DEF Stages
<1>2. Place["process_rules"] = 3 /\ Place["process_allow_rules"] = 4
      /\ Place["registry_rules"] = 5 /\ Place["registry_allow_rules"] = 6
      /\ Place["root"] = 0 /\ Place["process_verdict"] = 1 /\ Place["response"] = 2
      /\ Place["done"] = 7
  BY DEF Place, Stages, Lists, ProcessLists, RegistryLists
<1>3. l \in {"process_rules", "process_allow_rules", "registry_rules", "registry_allow_rules"}
  BY DEF Lists, ProcessLists, RegistryLists
<1>4. CASE stage \in {"root", "process_verdict", "response"}
  <2>1. After(stage) \in {"process_rules", "process_verdict", "response"}
    BY <1>4 DEF After
  <2> QED
    BY <1>2, <1>3, <1>4, <2>1
<1>5. CASE stage = "process_rules"
  <2>1. doc.root = "array" => l = "process_rules"
    BY DEF Reached
  <2>2. doc.root # "array" => After(stage) = "process_allow_rules"
    BY <1>5 DEF After
  <2> QED
    BY <1>2, <1>3, <1>5, <2>1, <2>2
<1>6. CASE stage = "process_allow_rules"
  <2>1. After(stage) = "registry_rules"
    BY <1>6 DEF After
  <2> QED
    BY <1>2, <1>3, <1>6, <2>1
<1>7. CASE stage = "registry_rules"
  <2>1. After(stage) = "registry_allow_rules"
    BY <1>7 DEF After
  <2> QED
    BY <1>2, <1>3, <1>7, <2>1
<1>8. CASE stage = "registry_allow_rules"
  BY <1>2, <1>3, <1>8
<1> QED
  BY <1>1, <1>4, <1>5, <1>6, <1>7, <1>8 DEF Lists, ProcessLists, RegistryLists

\* A list is left at its end, and a step inside it judges the rule it is at.
LEMMA CoveredStep == ListsInv /\ Covered /\ [Next]_vars => Covered'
<1> SUFFICES ASSUME ListsInv, Covered, [Next]_vars PROVE Covered'
  OBVIOUS
<1> USE DEF ListsInv, ListTypes
<1>a. \A l \in Lists : definitions[l] \in Seq(Nat) /\ Len(definitions[l]) \in Nat
  OBVIOUS
<1>1. ASSUME stage' = "failed" PROVE Covered'
  BY <1>1 DEF Covered
<1>2. ASSUME UNCHANGED <<doc, definitions, stage, item>> PROVE Covered'
  <2>1. \A l : Rules(l)' = Rules(l) /\ Reached(l)' = Reached(l)
               /\ \A i : Judged(l, i)' = Judged(l, i)
    BY <1>2 DEF Rules, Reached, Judged
  <2> QED
    BY <1>2, <2>1 DEF Covered
<1>3. ASSUME Advance, UNCHANGED <<doc, definitions>>, stage \notin {"done", "failed"},
             stage \in Lists /\ doc.lists[stage] # Absent =>
               /\ doc.lists[stage] # Mistyped
               /\ \A i \in Rules(stage) : i < item
      PROVE  Covered'
  <2>1. stage' = After(stage) /\ item' = 1
    BY <1>3 DEF Advance
  <2>2. ASSUME NEW l \in Lists, Reached(l), doc.lists[l] # Absent, Place[l] < Place[After(stage)]
        PROVE  doc.lists[l] # Mistyped /\ \A i \in Rules(l) : Judged(l, i)
    <3>1. CASE Place[l] < Place[stage]
      BY <1>3, <2>2, <3>1 DEF Covered
    <3>2. CASE l = stage
      BY <1>3, <2>2, <3>2 DEF Covered
    <3> QED
      BY <1>3, <2>2, <3>1, <3>2, NoListPassed
  <2>3. \A l : Rules(l) = Rules(l)' /\ Reached(l)' = Reached(l)
               /\ \A i : Judged(l, i)' = Judged(l, i)
    BY <1>3 DEF Rules, Reached, Judged
  <2>4. \A l : \A i \in Rules(l) : ~(i < 1)
    BY DEF Rules
  <2> QED
    BY <1>3, <2>1, <2>2, <2>3, <2>4 DEF Covered
<1>4. ASSUME stage \in Lists, doc.lists[stage] # Mistyped, item \in Rules(stage),
             UNCHANGED <<doc, stage>>, item' = item + 1,
             NEW s, s = stage, NEW n, n = item, Judged(s, n)',
             \A l \in Lists : \A i \in Rules(l) :
               (l # stage \/ i < item) => Judged(l, i)' = Judged(l, i)
      PROVE  Covered'
  <2>1. \A l : Rules(l)' = Rules(l) /\ Reached(l)' = Reached(l)
    BY <1>4 DEF Rules, Reached
  <2>2. ASSUME NEW l \in Lists, Reached(l), doc.lists[l] # Absent, stage # "failed",
               Place[l] < Place[stage]
        PROVE  doc.lists[l] # Mistyped /\ \A i \in Rules(l) : Judged(l, i)'
    <3>1. l # stage
      <4>1. Place[stage] \in Int
        BY Places
      <4> QED
        BY <2>2, <4>1
    <3> QED
      BY <1>4, <2>2, <3>1 DEF Covered
  <2>3. ASSUME stage # "failed", Reached(stage), doc.lists[stage] # Absent,
               NEW i \in Rules(stage), i < item + 1
        PROVE  Judged(s, i)'
    <3>1. i \in Int /\ item \in Int
      BY DEF Rules
    <3>2. CASE i < item
      BY <1>4, <2>3, <3>2 DEF Covered
    <3>3. CASE i = item
      BY <1>4, <3>3
    <3> QED
      BY <2>3, <3>1, <3>2, <3>3
  <2>4. \A l \in Lists : Place[l]' = Place[l]
    BY DEF Place
  <2>5. ASSUME stage' # "failed", NEW l \in Lists, Reached(l)', doc'.lists[l] # Absent
        PROVE  /\ Place[l] < Place[stage'] =>
                    doc'.lists[l] # Mistyped /\ \A i \in Rules(l)' : Judged(l, i)'
               /\ stage' = l /\ doc'.lists[l] # Mistyped =>
                    \A i \in Rules(l)' : i < item' => Judged(l, i)'
    <3>1. Reached(l) /\ doc.lists[l] # Absent /\ stage # "failed" /\ Rules(l)' = Rules(l)
      BY <1>4, <2>1, <2>5
    <3>2. Place[l] < Place[stage'] =>
                    doc'.lists[l] # Mistyped /\ \A i \in Rules(l)' : Judged(l, i)'
      BY <1>4, <2>2, <3>1
    <3>3. ASSUME stage' = l, NEW i \in Rules(l)', i < item' PROVE Judged(l, i)'
      <4>1. s = l
        BY <1>4, <3>3
      <4> QED
        BY <1>4, <2>3, <3>1, <3>3, <4>1
    <3> QED
      BY <3>2, <3>3
  <2> QED
    BY <2>5 DEF Covered
<1>5. ASSUME stage \in Lists, doc.lists[stage] \notin {Absent, Mistyped}, item \in Rules(stage),
             ~Spoils(stage, doc.lists[stage][item]), ~Wanted(stage, doc.lists[stage][item]),
             Skip, doc' = doc
      PROVE  Covered'
  <2>1. UNCHANGED <<stage, definitions>> /\ item' = item + 1
    BY <1>5 DEF Skip, rules
  <2>2. \A k \in 1..Len(definitions[stage]) : definitions[stage][k] # item
    <3>1. \A k \in 1..Len(definitions[stage]) :
            definitions[stage][k] < item /\ definitions[stage][k] \in Nat
      BY <1>a, <1>5 DEF InOrder
    <3> QED
      BY <3>1
  <2>3. ASSUME NEW l, NEW i PROVE Judged(l, i)' = Judged(l, i)
    BY <1>5, <2>1 DEF Judged, Spoils, Wanted
  <2>4. ASSUME NEW s, s = stage, NEW n, n = item PROVE Judged(s, n)'
    <3>1. Judged(s, n)
      BY <1>5, <2>2, <2>4 DEF Judged
    <3> QED
      BY <2>3, <3>1
  <2> QED
    BY <1>4, <1>5, <2>1, <2>3, <2>4
<1>6. ASSUME stage \in Lists, doc.lists[stage] \notin {Absent, Mistyped}, item \in Rules(stage),
             ~Spoils(stage, doc.lists[stage][item]), Wanted(stage, doc.lists[stage][item]),
             Accept(stage), doc' = doc
      PROVE  Covered'
  <2> DEFINE len == Len(definitions[stage])
  <2>1. /\ item' = item + 1 /\ stage' = stage
        /\ \A l \in Lists \ {stage} : definitions'[l] = definitions[l]
        /\ Len(definitions'[stage]) = len + 1
        /\ \A k \in 1..len : definitions'[stage][k] = definitions[stage][k]
        /\ definitions'[stage][len + 1] = item
    BY <1>6, AcceptStep DEF Accept
  <2>2. len \in Nat
    BY <1>a, <1>6
  <2> HIDE DEF len
  <2>3. ASSUME NEW i, i # item
        PROVE  (\E k \in 1..(len + 1) : definitions'[stage][k] = i)
                 <=> \E k \in 1..len : definitions[stage][k] = i
    <3>1. \A k \in 1..(len + 1) : k \in 1..len \/ k = len + 1
      BY <2>2
    <3>2. 1..len \subseteq 1..(len + 1)
      BY <2>2
    <3> QED
      BY <2>1, <2>3, <3>1, <3>2
  <2>4. ASSUME NEW l \in Lists, NEW i \in Rules(l), l # stage \/ i < item
        PROVE  Judged(l, i)' = Judged(l, i)
    <3>1. CASE l # stage
      <4>1. definitions'[l] = definitions[l]
        BY <2>1, <3>1
      <4> QED
        BY <1>6, <4>1 DEF Judged, Spoils, Wanted
    <3>2. CASE l = stage
      <4>1. i # item
        BY <2>4, <3>2 DEF Rules
      <4> QED
        BY <1>6, <2>1, <2>3, <3>2, <4>1 DEF Judged, Spoils, Wanted, len
    <3> QED
      BY <3>1, <3>2
  <2>5. ASSUME NEW s, s = stage, NEW n, n = item PROVE Judged(s, n)'
    <3>1. len + 1 \in 1..(len + 1)
      BY <2>2
    <3>2. \E k \in 1..Len(definitions'[s]) : definitions'[s][k] = n
      BY <2>1, <2>5, <3>1
    <3>3. Wanted(s, doc.lists[s][n])' /\ ~Spoils(s, doc.lists[s][n])'
      BY <1>6, <2>5 DEF Wanted, Spoils
    <3> QED
      BY <3>2, <3>3 DEF Judged
  <2> QED
    BY <1>4, <1>6, <2>1, <2>4, <2>5
<1>7. CASE ParseRoot
  <2>1. stage \notin Lists
    BY <1>7 DEF ParseRoot, Lists, ProcessLists, RegistryLists
  <2> QED
    BY <1>1, <1>3, <1>7, <2>1 DEF ParseRoot, GiveUp, rules
<1>8. ASSUME NEW section \in {"process_verdict", "response"}, NEW names,
             ParseSettings(section, names)
      PROVE  Covered'
  <2>1. stage \notin Lists /\ stage \notin {"done", "failed"}
    BY <1>8 DEF ParseSettings, Lists, ProcessLists, RegistryLists
  <2> QED
    BY <1>1, <1>3, <1>8, <2>1 DEF ParseSettings, GiveUp, rules
<1>9. CASE ParseProcessVerdictConfig \/ ParseAutoResponseConfig
  BY <1>8, <1>9 DEF ParseProcessVerdictConfig, ParseAutoResponseConfig
<1>10. ASSUME stage \in Lists, Through(doc.lists[stage]), Advance, doc' = doc, UNCHANGED rules
       PROVE  Covered'
  <2>1. stage \notin {"done", "failed"}
    BY <1>10 DEF Lists, ProcessLists, RegistryLists
  <2>2. ASSUME doc.lists[stage] # Absent
        PROVE  doc.lists[stage] # Mistyped /\ \A i \in Rules(stage) : i < item
    <3>1. doc.lists[stage] # Mistyped /\ item > Len(doc.lists[stage])
      BY <1>10, <2>2 DEF Through
    <3>2. doc.lists[stage] \in Seq(Range(doc.lists[stage]))
      BY <1>10, <2>2, <3>1, DocumentsAssumption
    <3>3. Len(doc.lists[stage]) \in Nat
      BY <3>2
    <3> QED
      BY <3>1, <3>3 DEF Rules
  <2> QED
    BY <1>3, <1>10, <2>1, <2>2 DEF rules
<1>11. CASE ParseDetectionRuleArray
  <2> DEFINE rule == doc.lists[stage][item]
  <2>1. stage \in ProcessLists /\ stage \in Lists /\ doc' = doc
    BY <1>11 DEF ParseDetectionRuleArray, Lists
  <2>2. CASE Through(doc.lists[stage])
    <3>1. Advance /\ UNCHANGED rules
      BY <1>11, <2>2, DocumentsAssumption DEF ParseDetectionRuleArray, Through
    <3> QED
      BY <1>10, <2>1, <2>2, <3>1
  <2>3. CASE doc.lists[stage] = Mistyped
    <3>1. GiveUp
      BY <1>11, <2>3, DocumentsAssumption DEF ParseDetectionRuleArray, Through
    <3> QED
      BY <1>1, <3>1 DEF GiveUp
  <2>4. CASE ~Through(doc.lists[stage]) /\ doc.lists[stage] # Mistyped
    <3>1. item \in Rules(stage) /\ doc.lists[stage] \notin {Absent, Mistyped}
      BY <2>1, <2>4, AtRule
    <3>2. ParseDetectionRule(stage, rule)
      BY <1>11, <2>4 DEF ParseDetectionRuleArray
    <3>3. \/ GiveUp
          \/ ~Spoils(stage, rule) /\ ~Wanted(stage, rule) /\ Skip
          \/ ~Spoils(stage, rule) /\ Wanted(stage, rule) /\ Accept(stage)
      <4> HIDE DEF rule
      <4> QED
        BY <2>1, <3>2 DEF ParseDetectionRule, Spoils, Wanted
    <3> QED
      BY <1>1, <1>5, <1>6, <2>1, <3>1, <3>3 DEF GiveUp
  <2> QED
    BY <2>2, <2>3, <2>4
<1>12. CASE ParseRegistryRuleArray
  <2> DEFINE rule == doc.lists[stage][item]
  <2>1. stage \in RegistryLists /\ stage \notin ProcessLists /\ stage \in Lists /\ doc' = doc
    BY <1>12 DEF ParseRegistryRuleArray, Lists, RegistryLists, ProcessLists
  <2>2. CASE Through(doc.lists[stage])
    <3>1. Advance /\ UNCHANGED rules
      BY <1>12, <2>2, DocumentsAssumption DEF ParseRegistryRuleArray, Through
    <3> QED
      BY <1>10, <2>1, <2>2, <3>1
  <2>3. CASE doc.lists[stage] = Mistyped
    <3>1. GiveUp
      BY <1>12, <2>3, DocumentsAssumption DEF ParseRegistryRuleArray, Through
    <3> QED
      BY <1>1, <3>1 DEF GiveUp
  <2>4. CASE ~Through(doc.lists[stage]) /\ doc.lists[stage] # Mistyped
    <3>1. item \in Rules(stage) /\ doc.lists[stage] \notin {Absent, Mistyped}
      BY <2>1, <2>4, AtRule
    <3>2. ParseRegistryRule(stage, rule)
      BY <1>12, <2>4 DEF ParseRegistryRuleArray
    <3>3. \/ GiveUp
          \/ ~Spoils(stage, rule) /\ ~Wanted(stage, rule) /\ Skip
          \/ ~Spoils(stage, rule) /\ Wanted(stage, rule) /\ Accept(stage)
      <4> HIDE DEF rule
      <4> QED
        BY <2>1, <3>2 DEF ParseRegistryRule, Spoils, Wanted
    <3> QED
      BY <1>1, <1>5, <1>6, <2>1, <3>1, <3>3 DEF GiveUp
  <2> QED
    BY <2>2, <2>3, <2>4
<1>13. CASE UNCHANGED vars
  BY <1>2, <1>13 DEF vars, rules
<1> QED
  BY <1>7, <1>9, <1>11, <1>12, <1>13 DEF Next, Finished

\* For every rules.json: a configuration that is handed out has every rule of the
\* file that can be used, each once and in order, and comes from a file without a
\* rule that spoils it (482-500, 972-1008).
THEOREM FilesReadWhole == Spec => []EveryRuleCounts
<1>1. Init => Covered
  <2>1. \A l \in Lists : ~(Place[l] < Place["root"]) /\ l # "root"
    BY DEF Place, Stages, Lists, ProcessLists, RegistryLists
  <2> QED
    BY <2>1 DEF Init, Covered
<1>2. ListsInv /\ Covered => EveryRuleCounts
  <2> SUFFICES ASSUME ListsInv, Covered, stage = "done", NEW l \in Lists,
                      doc.root = "object" \/ l = "process_rules", doc.lists[l] # Absent
               PROVE  /\ doc.lists[l] # Mistyped
                      /\ \A i \in DOMAIN doc.lists[l] : ~Spoils(l, doc.lists[l][i])
                      /\ Range(definitions[l])
                           = {i \in DOMAIN doc.lists[l] : Wanted(l, doc.lists[l][i])}
                      /\ \A k \in DOMAIN definitions[l] : \A j \in 1..(k - 1) :
                           definitions[l][j] < definitions[l][k]
    BY DEF EveryRuleCounts
  <2>1. Place[l] < Place["done"]
    BY DEF Place, Stages, Lists, ProcessLists, RegistryLists
  <2>2. doc.lists[l] # Mistyped /\ \A i \in Rules(l) : Judged(l, i)
    BY <2>1 DEF Covered, Reached
  <2>3. doc.lists[l] \in Seq(Range(doc.lists[l]))
    BY <2>2, DocumentsAssumption DEF ListsInv, ListTypes
  <2>4. DOMAIN doc.lists[l] = Rules(l)
    BY <2>3 DEF Rules
  <2>5. definitions[l] \in Seq(Nat) /\ DOMAIN definitions[l] = 1..Len(definitions[l])
    BY DEF ListsInv, ListTypes
  <2>6. \A k \in 1..Len(definitions[l]) :
          /\ definitions[l][k] \in Rules(l)
          /\ \A j \in 1..(k - 1) : definitions[l][j] < definitions[l][k]
    BY DEF ListsInv, InOrder
  <2>7. \A i : i \in Range(definitions[l]) <=>
                 \E k \in 1..Len(definitions[l]) : definitions[l][k] = i
    BY <2>5 DEF Range
  <2>8. Range(definitions[l]) = {i \in Rules(l) : Wanted(l, doc.lists[l][i])}
    BY <2>2, <2>6, <2>7 DEF Judged
  <2> QED
    BY <2>2, <2>4, <2>5, <2>6, <2>8 DEF Judged
<1> QED
  BY <1>1, <1>2, CoveredStep, ListsInit, ListsStep, PTL DEF Spec
=============================================================================
