----------------------------- MODULE LayoutChecks -----------------------------
(***************************************************************************)
(* The layout checks before sign-off (drc_lvs.c): design rules and their   *)
(* violations with the three fixes, layout against schematic, antennas and *)
(* electrical rules, and the counters that sign-off goes by.               *)
(*                                                                         *)
(* Lengths are whole nanometres, sizes of devices half nanometres, and     *)
(* distances are kept squared, which saves the square root.  The wording   *)
(* of names, descriptions and reports is left out.  A check that finds     *)
(* nothing, or no room to write what it found, changes nothing and is no   *)
(* step.                                                                   *)
(***************************************************************************)
EXTENDS Integers, Sequences, FiniteSets
LOCAL INSTANCE FiniteSetsExt
LOCAL INSTANCE SequencesExt

CONSTANTS
    MaxRules, MaxViolations,    \* MAX_DRC_RULES, MAX_DRC_VIOLATIONS
    MaxDevices, MaxNets,        \* MAX_LVS_DEVICES, MAX_LVS_NETS
    MaxAntennas, MaxErcs,       \* MAX_ANTENNA_NODES, MAX_ERC_RULES
    RuleInputs, DeviceInputs    \* what callers add: parameters of AddRule and AddDevice

VARIABLES
    rules,        \* [id, type, layer, width, spacing, enclosure, area, density, severity]
    violations,   \* [id, type, rule, layer, box, measured, required, severity, fixed]
    antennas,     \* [id, net, gate, ratio, max, bad, method], ratios in tenths
    ercs,         \* [type, severity, device, net]
    schematic, layout,          \* devices [name, type, w, l, fingers, status, missed]
    schematicNets, layoutNets,  \* nets [id, name, devices]: nothing compares them
    totals,       \* [drc, lvs, antenna, erc], what sign-off looks at
    clean         \* history: where antennas and ercs ended at the last clean-up

ruleVars == <<rules, violations>>
electricVars == <<antennas, ercs>>
deviceVars == <<schematic, layout, schematicNets, layoutNets>>
layoutVars == <<ruleVars, electricVars, deviceVars, totals, clean>>
-----------------------------------------------------------------------------
(* Geometry.  A shape is a rectangle <<x1, y1, x2, y2>>.                    *)
Abs(n) == IF n < 0 THEN -n ELSE n
Square(n) == n * n

Gap(a, b) ==
    LET along(lo, hi) == CASE a[lo] > b[hi] -> a[lo] - b[hi]
                           [] a[lo] <= b[hi] /\ b[lo] > a[hi] -> b[lo] - a[hi]
                           [] OTHER -> 0
    IN Square(along(1, 3)) + Square(along(2, 4))
Overlap(a, b) == a[1] < b[3] /\ b[1] < a[3] /\ a[2] < b[4] /\ b[2] < a[4]

LeastDimension(box) == Min({Abs(box[3] - box[1]), Abs(box[4] - box[2])})
Margin(in, out) == Min({in[1] - out[1], out[3] - in[3], in[2] - out[2], out[4] - in[4]})
-----------------------------------------------------------------------------
(* Rules.  Adding one sets its width and spacing; a caller that needs       *)
(* another limit writes it into the rule just added, before any check.      *)
AddRule(type, layer, width, spacing, severity) ==
    /\ Len(rules) < MaxRules
    /\ rules' = Append(rules, [id |-> Len(rules) + 1, type |-> type, layer |-> layer, width |-> width,
                               spacing |-> spacing, enclosure |-> 0, area |-> 0, density |-> 0,
                               severity |-> severity])
    /\ UNCHANGED <<violations, electricVars, deviceVars, totals, clean>>

SetLimit(limit) ==
    LET last == Len(rules) IN
    /\ rules # <<>> /\ violations = <<>>
    /\ \/ rules[last].type = "ENCLOSURE" /\ rules' = [rules EXCEPT ![last].enclosure = limit]
       \/ rules[last].type = "AREA" /\ rules' = [rules EXCEPT ![last].area = limit]
       \/ rules[last].type = "DENSITY" /\ rules' = [rules EXCEPT ![last].density = limit]
    /\ UNCHANGED <<violations, electricVars, deviceVars, totals, clean>>

(* A violation takes its type and severity from the rule of that id.        *)
Report(id, layer, measured, required, box) ==
    LET r == rules[Min({i \in DOMAIN rules : rules[i].id = id})] IN
    /\ Len(violations) < MaxViolations
    /\ violations' = Append(violations, [id |-> Len(violations) + 1, type |-> r.type, rule |-> id,
                                         layer |-> layer, box |-> box, measured |-> measured,
                                         required |-> required, severity |-> r.severity, fixed |-> FALSE])
    /\ totals' = [totals EXCEPT !.drc = @ + 1]
    /\ UNCHANGED <<rules, electricVars, deviceVars, clean>>

(* A check reports the first rule that is broken, and only that one.        *)
RulesOf(type, layer) == {i \in DOMAIN rules : rules[i].type = type /\ rules[i].layer = layer}
FirstOf(broken) == rules[Min(broken)]

CheckSpacing(layer, a, b) ==
    LET dist == Gap(a, b)
        broken == {i \in RulesOf("SPACING", layer) : dist < Square(rules[i].spacing)}
    IN broken # {} /\ Report(FirstOf(broken).id, layer, dist, Square(FirstOf(broken).spacing), a)

CheckWidth(layer, box) ==
    LET broken == {i \in RulesOf("WIDTH", layer) : LeastDimension(box) < rules[i].width} IN
    broken # {} /\ Report(FirstOf(broken).id, layer, LeastDimension(box), FirstOf(broken).width, box)

(* Enclosure rules of every layer apply, whatever the two layers are; the   *)
(* violation is put down to the outer one.                                  *)
CheckEnclosure(inner, outer, in, out) ==
    LET broken == {i \in DOMAIN rules : rules[i].type = "ENCLOSURE" /\ Margin(in, out) < rules[i].enclosure} IN
    broken # {} /\ Report(FirstOf(broken).id, outer, Margin(in, out), FirstOf(broken).enclosure, in)

CheckArea(layer, width, height) ==
    LET broken == {i \in RulesOf("AREA", layer) : width * height < rules[i].area} IN
    broken # {} /\ Report(FirstOf(broken).id, layer, width * height, FirstOf(broken).area, <<0, 0, width, height>>)

(* Per cent of the window; the quotient is compared without being rounded.  *)
CheckDensity(layer, width, height, filled) ==
    LET broken == {i \in RulesOf("DENSITY", layer) : 100 * filled > rules[i].density * width * height} IN
    /\ broken # {}
    /\ Report(FirstOf(broken).id, layer, (100 * filled) \div (width * height), FirstOf(broken).density,
              <<0, 0, width, height>>)
-----------------------------------------------------------------------------
(* Fixes write a new box into the violation and call it fixed; the rule is  *)
(* not checked again, and the violation stays listed and counted.           *)
Moved(v, box) ==
    /\ violations' = [violations EXCEPT ![v].box = box, ![v].fixed = TRUE]
    /\ UNCHANGED <<rules, electricVars, deviceVars, totals, clean>>

PushCell(v, dx, dy) ==
    /\ v \in 1..Len(violations)
    /\ LET b == violations[v].box IN Moved(v, <<b[1] + dx, b[2] + dy, b[3] + dx, b[4] + dy>>)

WidenWire(v, width) ==
    /\ v \in 1..Len(violations)
    /\ LET b == violations[v].box IN Moved(v, [b EXCEPT ![3] = b[1] + width])

(* The box shrinks or grows about its centre by factor halves; boxes are    *)
(* multiples of four, so that nothing is rounded.                           *)
ReduceSpacing(v, factor) ==
    /\ v \in 1..Len(violations)
    /\ LET b == violations[v].box
           low(lo, hi) == (2 * (b[lo] + b[hi]) - factor * (b[hi] - b[lo])) \div 4
           high(lo, hi) == (2 * (b[lo] + b[hi]) + factor * (b[hi] - b[lo])) \div 4
       IN Moved(v, <<low(1, 3), low(2, 4), high(1, 3), high(2, 4)>>)

(* Callers fix what is not fixed yet.                                       *)
AttemptFix(v) ==
    /\ ~violations[v].fixed
    /\ \/ violations[v].type = "SPACING" /\ PushCell(v, 4, 0)
       \/ violations[v].type = "WIDTH" /\ WidenWire(v, 8)
       \/ violations[v].type = "ENCLOSURE" /\ ReduceSpacing(v, 3)
       \/ violations[v].type \in {"AREA", "DENSITY"} /\ PushCell(v, 4, 4)
-----------------------------------------------------------------------------
(* Layout against schematic.                                                *)
NewDevice(d) == [name |-> d.name, type |-> d.type, w |-> d.w, l |-> d.l, fingers |-> d.fingers,
                 status |-> "MISMATCH", missed |-> FALSE]
AddSchematicDevice(d) ==
    /\ Len(schematic) < MaxDevices /\ schematic' = Append(schematic, NewDevice(d))
    /\ UNCHANGED <<ruleVars, electricVars, layout, schematicNets, layoutNets, totals, clean>>
AddLayoutDevice(d) ==
    /\ Len(layout) < MaxDevices /\ layout' = Append(layout, NewDevice(d))
    /\ UNCHANGED <<ruleVars, electricVars, schematic, schematicNets, layoutNets, totals, clean>>

NewNet(nets, name, devices) == [id |-> Len(nets) + 1, name |-> name, devices |-> devices]
AddSchematicNet(name, devices) ==
    /\ Len(schematicNets) < MaxNets /\ schematicNets' = Append(schematicNets, NewNet(schematicNets, name, devices))
    /\ UNCHANGED <<ruleVars, electricVars, schematic, layout, layoutNets, totals, clean>>
AddLayoutNet(name, devices) ==
    /\ Len(layoutNets) < MaxNets /\ layoutNets' = Append(layoutNets, NewNet(layoutNets, name, devices))
    /\ UNCHANGED <<ruleVars, electricVars, schematic, layout, schematicNets, totals, clean>>

(* The same name, and sizes that differ by less than a nanometre; types and *)
(* fingers are not compared.                                                *)
Same(s, d) == s.name = d.name /\ Abs(s.w - d.w) < 2 /\ Abs(s.l - d.l) < 2

(* A schematic device takes the first layout device that is the same and    *)
(* that no comparison has given a status before.                            *)
Pair(pair, i) ==
    LET fits == {j \in DOMAIN pair.layout :
                   pair.layout[j].status = "MISMATCH" /\ Same(pair.schematic[i], pair.layout[j])} IN
    IF fits = {} THEN [pair EXCEPT !.schematic[i].status = "MISSING"]
    ELSE [pair EXCEPT !.schematic[i].status = "MATCH", !.layout[Min(fits)].status = "MATCH"]

Compared(s, d) ==
    LET paired == FoldLeft(Pair, [schematic |-> s, layout |-> d], [i \in DOMAIN s |-> i])
        missing == {i \in DOMAIN s : paired.schematic[i].status = "MISSING"}
        extra == {j \in DOMAIN d : paired.layout[j].status = "MISMATCH"}
    IN [schematic |-> [i \in DOMAIN s |-> [paired.schematic[i] EXCEPT !.missed = @ \/ i \in missing]],
        layout |-> [j \in DOMAIN d |-> IF j \in extra THEN [paired.layout[j] EXCEPT !.status = "EXTRA"]
                                       ELSE paired.layout[j]],
        errors |-> Cardinality(extra) + Cardinality(missing)]

Compare ==
    LET result == Compared(schematic, layout) IN
    /\ schematic' = result.schematic /\ layout' = result.layout
    /\ totals' = [totals EXCEPT !.lvs = result.errors]
    /\ UNCHANGED <<ruleVars, electricVars, schematicNets, layoutNets, clean>>

(* A designer declares two devices a match.                                 *)
MatchDevices(i, j) ==
    /\ i \in 1..Len(schematic) /\ j \in 1..Len(layout)
    /\ schematic' = [schematic EXCEPT ![i].status = "MATCH"] /\ layout' = [layout EXCEPT ![j].status = "MATCH"]
    /\ UNCHANGED <<ruleVars, electricVars, schematicNets, layoutNets, totals, clean>>

Mismatches(s, d) ==
    Cardinality({i \in DOMAIN s : s[i].status # "MATCH"}) + Cardinality({j \in DOMAIN d : d[j].status = "EXTRA"})
-----------------------------------------------------------------------------
(* Antennas: a gate's area in square nanometres over 1000 is its ratio.     *)
AntennaCheck(id, gate, max) ==
    LET ratio == IF gate > 0 THEN gate \div 100 ELSE 0
        bad == ratio > 10 * max
    IN /\ Len(antennas) < MaxAntennas
       /\ antennas' = Append(antennas, [id |-> Len(antennas) + 1, net |-> id, gate |-> gate, ratio |-> ratio,
                                        max |-> max, bad |-> bad, method |-> IF bad THEN "DIODE" ELSE "NONE"])
       /\ totals' = [totals EXCEPT !.antenna = IF bad THEN @ + 1 ELSE @]
       /\ UNCHANGED <<ruleVars, ercs, deviceVars, clean>>

(* A fix divides the ratio and calls it good, whatever it is then.          *)
Eased(c, tenths, method) ==
    /\ c \in 1..Len(antennas)
    /\ antennas' = [antennas EXCEPT ![c].ratio = (@ * tenths) \div 10, ![c].bad = FALSE, ![c].method = method]
    /\ UNCHANGED <<ruleVars, ercs, deviceVars, totals, clean>>
AddDiode(c) == Eased(c, 1, antennas[c].method)
MetalJump(c) == Eased(c, 3, "JUMP")
-----------------------------------------------------------------------------
(* Electrical rules.  A floating net is listed once, a missing well tie and *)
(* a hot well at every check.                                               *)
Found(type, severity, device, id) ==
    /\ Len(ercs) < MaxErcs
    /\ ercs' = Append(ercs, [type |-> type, severity |-> severity, device |-> device, net |-> id])
    /\ totals' = [totals EXCEPT !.erc = @ + 1]
    /\ UNCHANGED <<ruleVars, antennas, deviceVars, clean>>

CheckWellTies(device, well) == well < 0 /\ Found("WELL_TIE", 2, device, well)
CheckFloating(id) ==
    /\ \A i \in DOMAIN ercs : ~(ercs[i].type = "FLOATING" /\ ercs[i].net = id)
    /\ Found("FLOATING", 1, -1, id)
CheckHotWell(device) == Found("HOT_WELL", 2, device, -1)
-----------------------------------------------------------------------------
(* The counters and the list of violations are emptied; antennas,           *)
(* electrical violations and the marks on devices stay.                     *)
NoErrors == [drc |-> 0, lvs |-> 0, antenna |-> 0, erc |-> 0]
Clean ==
    /\ violations' = <<>> /\ totals' = NoErrors
    /\ clean' = [antennas |-> Len(antennas), ercs |-> Len(ercs)]
    /\ UNCHANGED <<rules, electricVars, deviceVars>>

Signoff == totals.drc = 0 /\ totals.lvs = 0 /\ totals.antenna = 0 /\ totals.erc = 0

LayoutInit ==
    /\ rules = <<>> /\ violations = <<>> /\ antennas = <<>> /\ ercs = <<>>
    /\ schematic = <<>> /\ layout = <<>> /\ schematicNets = <<>> /\ layoutNets = <<>>
    /\ totals = NoErrors /\ clean = [antennas |-> 0, ercs |-> 0]

(* Three of the demonstrations' boxes in small: one that keeps every rule,  *)
(* a narrow one, and one that lies too near to the first.                   *)
RuleNext ==
    \/ violations = <<>> /\ \E r \in RuleInputs : AddRule(r.type, r.layer, r.width, r.spacing, r.severity)
    \/ SetLimit(4)
    \/ \E b \in {<<8, 4, 12, 8>>, <<8, 8, 12, 12>>} : CheckSpacing(1, <<0, 0, 4, 4>>, b)
    \/ \E b \in {<<0, 0, 4, 12>>, <<0, 0, 12, 12>>} : CheckWidth(1, b)
    \/ \E out \in {<<0, 0, 12, 8>>, <<0, 0, 12, 12>>} : CheckEnclosure(1, 2, <<4, 4, 8, 8>>, out)
    \/ \E h \in {0, 4} : CheckArea(1, 4, h) \/ CheckDensity(1, 4, 4, h)
    \/ \E v \in 1..Len(violations) : AttemptFix(v)
    \/ violations # <<>> /\ Clean

ElectricNext ==
    \/ \E gate \in {0, 400000, 600000, 2000000} : AntennaCheck(1, gate, 400)
    \/ \E c \in 1..Len(antennas) : antennas[c].bad /\ (AddDiode(c) \/ MetalJump(c))
    \/ \E well \in {-1, 2} : CheckWellTies(1, well)
    \/ \E id \in {7, 8} : CheckFloating(id)
    \/ CheckHotWell(3)
    \/ Clean

DeviceNext ==
    \/ \E d \in DeviceInputs : AddSchematicDevice(d) \/ AddLayoutDevice(d)
    \/ schematic = <<>> /\ layout = <<>> /\ (AddSchematicNet(1, 4) \/ AddLayoutNet(1, 2))
    \/ Compare \/ Clean
    \/ \E i \in DOMAIN schematic, j \in DOMAIN layout : MatchDevices(i, j)
-----------------------------------------------------------------------------
(* The gap of two shapes is the least distance of their points and shapes   *)
(* that overlap have none; a margin is kept when the inner shape grown by   *)
(* it still lies in the outer one.                                          *)
Shapes == {r \in (0..2) \X (0..2) \X (0..2) \X (0..2) : r[1] <= r[3] /\ r[2] <= r[4]}
GeometryExact ==
    \A a, b \in Shapes :
        /\ Overlap(a, b) => Gap(a, b) = 0
        /\ Gap(a, b) = Min({Square(x - u) + Square(y - v) :
                              x \in a[1]..a[3], y \in a[2]..a[4], u \in b[1]..b[3], v \in b[2]..b[4]})
        /\ \A m \in 0..2 : (Margin(a, b) >= m) <=>
             \A x \in (a[1] - m)..(a[3] + m), y \in (a[2] - m)..(a[4] + m) :
                x \in b[1]..b[3] /\ y \in b[2]..b[4]

(* Every violation listed names a rule that its measure breaks, and the     *)
(* first such rule of the kind the check looked at.                         *)
Limit(r) == CASE r.type = "SPACING" -> Square(r.spacing) [] r.type = "WIDTH" -> r.width
              [] r.type = "ENCLOSURE" -> r.enclosure [] r.type = "AREA" -> r.area [] OTHER -> r.density
Breaks(r, measured) == IF r.type = "DENSITY" THEN measured > r.density ELSE measured < Limit(r)
ViolationsReal ==
    \A v \in DOMAIN violations :
        LET found == violations[v]  r == rules[found.rule] IN
        /\ found.type = r.type /\ found.required = Limit(r) /\ Breaks(r, found.measured)
        /\ r.type # "ENCLOSURE" => found.layer = r.layer
        /\ \A i \in 1..(found.rule - 1) :
             rules[i].type = r.type /\ (r.type = "ENCLOSURE" \/ rules[i].layer = r.layer) =>
                ~Breaks(rules[i], found.measured)

(* The counters count what was found since the last clean-up, fixed or not, *)
(* so that sign-off passes exactly when nothing was.  Of antennas, those    *)
(* with a ratio above the limit when checked.                               *)
Since(list, from) == {i \in DOMAIN list : i > from}
CountersExact ==
    /\ totals.drc = Len(violations)
    /\ totals.antenna = Cardinality({i \in Since(antennas, clean.antennas) : antennas[i].gate > 1000 * antennas[i].max})
    /\ totals.erc = Cardinality(Since(ercs, clean.ercs))
    /\ \A i \in DOMAIN antennas : antennas[i].bad => antennas[i].ratio > 10 * antennas[i].max

(* A comparison without errors has a layout device of its own for every     *)
(* schematic device, the same in name and size; and the first comparison    *)
(* of devices with names of their own counts exactly those without a        *)
(* partner.  No fewer devices are listed as mismatches than were counted,   *)
(* unless a designer has declared them a match.                             *)
Unique(devices) == \A i, j \in DOMAIN devices : devices[i].name = devices[j].name => i = j
ComparisonExact ==
    LET result == Compared(schematic, layout)
        Partners(i) == {j \in DOMAIN layout : Same(schematic[i], layout[j])}
        lonely == {i \in DOMAIN schematic : Partners(i) = {}}
        unclaimed == {j \in DOMAIN layout : \A i \in DOMAIN schematic : ~Same(schematic[i], layout[j])}
    IN /\ result.errors = 0 =>
            \E partner \in [DOMAIN schematic -> DOMAIN layout] :
               /\ \A i \in DOMAIN schematic : partner[i] \in Partners(i)
               /\ \A i, k \in DOMAIN schematic : partner[i] = partner[k] => i = k
       /\ Mismatches(result.schematic, result.layout) >= result.errors
       /\ Unique(schematic) /\ Unique(layout) /\ (\A j \in DOMAIN layout : layout[j].status = "MISMATCH") =>
            result.errors = Cardinality(lonely) + Cardinality(unclaimed)

(* What sign-off goes by is what the checks found.                          *)
SignoffSound ==
    /\ ViolationsReal /\ CountersExact /\ ComparisonExact
    /\ Signoff => violations = <<>> /\ Len(ercs) = clean.ercs
    /\ layoutVars = <<<<<<>>, <<>>>>, <<<<>>, <<>>>>, <<<<>>, <<>>, <<>>, <<>>>>, NoErrors, clean>> => GeometryExact
=============================================================================
