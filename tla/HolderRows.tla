----------------------------- MODULE HolderRows -----------------------------
(***************************************************************************)
(* The rows of a card's holder, as pure functions of what the agent        *)
(* delivered.  The widget shows a short summary over an expandable list of *)
(* the rest, in each group's declared reading order, one heading per       *)
(* group; the file identity.txt has a section for each group.              *)
(*                                                                         *)
(* A row is the group and key it came under and what kind of value it has  *)
(* ("none" is the empty string, "blank" only white space).  What is        *)
(* delivered is a sequence of groups, of each the security checks and the  *)
(* other fields; a check is keyed by an id its plugin chooses, so two of   *)
(* one group may share their key.                                          *)
(***************************************************************************)
EXTENDS SequencesExt

CONSTANTS
    NameKeys,       \* kNameComponentKeys
    SummaryKeys,    \* kSummaryKeys, in display order
    FullName,       \* the free-form headline of last resort
    HiddenKeys,     \* the keys isHiddenIdentityRow keeps off every surface
    FieldOrder,     \* the declared reading order of each group
    FallbackRows    \* kFallbackRows

ASSUME HolderRowsAssumption ==
    /\ NameKeys \subseteq ToSet(SummaryKeys)
    /\ FullName \notin ToSet(SummaryKeys)
    /\ IsInjective(SummaryKeys)
    /\ FallbackRows \in Nat \ {0}

(* A reason supersedes the detail, and every reason has its words.         *)
Explained(check) == check.reason # "none" \/ check.detail # "none"

(* One separated check; without an id it is keyed by its ordinal.          *)
CheckRow(g, check) ==
    [group |-> g,
     key |-> IF check.id = "none" THEN check.ordinal ELSE check.id,
     value |-> IF Explained(check) THEN "text" ELSE check.status]

(* identityRows: group by group, the checks and then the other fields.     *)
DeliveredRows(groups) ==
    LET checks(g) == [i \in DOMAIN g.checks |-> CheckRow(g.key, g.checks[i])]
        fields(g) == [i \in DOMAIN g.fields |->
            [group |-> g.key, key |-> g.fields[i].key, value |-> g.fields[i].value]]
    IN  FlattenSeq([k \in DOMAIN groups |-> checks(groups[k]) \o fields(groups[k])])

IdentityOf(row) == <<row.group, row.key>>

HasText(row) == row.value = "text"

(* The rows the popup may show at all.                                     *)
Shown(delivered) ==
    SelectSeq(delivered, LAMBDA row : row.value # "none" /\ row.key \notin HiddenKeys)

HasNameComponent(fields) == \E row \in ToSet(fields) : row.key \in NameKeys /\ HasText(row)

EffectiveKeys(fields) ==
    IF HasNameComponent(fields) THEN SummaryKeys ELSE <<FullName>> \o SummaryKeys

(* The first row of a key that says anything, or none.                     *)
FirstOfKey(fields, key) ==
    LET i == SelectInSeq(fields, LAMBDA row : row.key = key /\ HasText(row))
    IN  IF i = 0 THEN <<>> ELSE <<fields[i]>>

(* Cards whose keys nobody curated: their first few rows, none repeated.   *)
FirstFewRows(fields) ==
    FoldLeft(LAMBDA few, row :
                IF Len(few) = FallbackRows \/ \E r \in ToSet(few) : IdentityOf(r) = IdentityOf(row)
                THEN few ELSE Append(few, row),
             <<>>, fields)

CurateIdentitySummary(fields) ==
    LET keys == EffectiveKeys(fields)
        curated == FlattenSeq([i \in DOMAIN keys |-> FirstOfKey(fields, keys[i])])
    IN  IF curated = <<>> THEN FirstFewRows(fields) ELSE curated

(* Faulty: every row of a summarised identity is taken for summarised.     *)
CurateIdentityDetailsByIdentity(fields, summary) ==
    SelectSeq(fields, LAMBDA row : \A s \in ToSet(summary) : IdentityOf(s) # IdentityOf(row))

(* What the summary did not take: one row for each of its identities.      *)
CurateIdentityDetails(fields, summary) ==
    FoldLeft(LAMBDA acc, row :
                IF IdentityOf(row) \in acc.summarised
                THEN [acc EXCEPT !.summarised = @ \ {IdentityOf(row)}]
                ELSE [acc EXCEPT !.details = Append(@, row)],
             [summarised |-> {IdentityOf(s) : s \in ToSet(summary)}, details |-> <<>>],
             fields).details

-----------------------------------------------------------------------------
(* Reading order and headings.                                             *)

RowsOfGroup(rows, g) == SelectSeq(rows, LAMBDA row : row.group = g)

(* Keys without a declared place come after those that have one.           *)
Rank(row) ==
    LET at == SelectInSeq(FieldOrder[row.group], LAMBDA key : key = row.key)
    IN  IF at = 0 THEN Len(FieldOrder[row.group]) + 1 ELSE at

(* The group's rows by rank; rows of one rank keep their order.            *)
InReadingOrder(rows, g) ==
    FlattenSeq([k \in 1..(Len(FieldOrder[g]) + 1) |->
        SelectSeq(RowsOfGroup(rows, g), LAMBDA row : Rank(row) = k)])

(* The slots of a group are refilled; no row leaves its group's slots.     *)
ApplyFieldOrder(details) ==
    [i \in DOMAIN details |->
        LET g == details[i].group
        IN  InReadingOrder(details, g)[Len(RowsOfGroup(SubSeq(details, 1, i), g))]]

GroupOrder(rows) ==
    FoldLeft(LAMBDA order, row : IF Contains(order, row.group) THEN order
                                 ELSE Append(order, row.group),
             <<>>, rows)

(* The rows of each group together, the first of them under its heading.   *)
ApplyGroupHeadings(details) ==
    LET order == GroupOrder(details)
        headed(g) == LET rows == RowsOfGroup(details, g) IN
                     [i \in DOMAIN rows |-> [row |-> rows[i], heading |-> i = 1]]
    IN  FlattenSeq([k \in DOMAIN order |-> headed(order[k])])

RebuildIdentityModel(delivered) ==
    LET fields == Shown(delivered)
        summary == CurateIdentitySummary(fields)
    IN  [summary |-> summary,
         details |-> ApplyGroupHeadings(ApplyFieldOrder(CurateIdentityDetails(fields, summary)))]

-----------------------------------------------------------------------------
(* identity.txt.                                                           *)

(* The rows the worker puts into the file.                                 *)
FileRows(delivered) == SelectSeq(delivered, LAMBDA row : row.key \notin HiddenKeys)

(* One section for each group, with all of its rows.                       *)
RenderIdentityTxt(rows) ==
    LET order == GroupOrder(rows)
    IN  [k \in DOMAIN order |-> [group |-> order[k], rows |-> RowsOfGroup(rows, order[k])]]

-----------------------------------------------------------------------------
(* What the surfaces promise of one delivery.                              *)

CopiesOf(row, rows) == Len(SelectSeq(rows, LAMBDA r : r = row))

Printed(delivered) ==
    LET model == RebuildIdentityModel(delivered)
    IN  model.summary \o [i \in DOMAIN model.details |-> model.details[i].row]

(* identity.txt has each group once and every row that is not hidden; the  *)
(* summary and the expanded list together print each of them as often as   *)
(* the file does, but for those that have nothing to show, and no other.   *)
SurfacesAgree(delivered) ==
    LET file == RenderIdentityTxt(FileRows(delivered))
        written == FlattenSeq([k \in DOMAIN file |-> file[k].rows])
        printed == Printed(delivered)
    IN  /\ \A k, l \in DOMAIN file : file[k].group = file[l].group => k = l
        /\ Len(written) = Len(FileRows(delivered))
        /\ \A row \in ToSet(written) \cup ToSet(printed) :
              CopiesOf(row, printed) = IF row.value = "none" THEN 0 ELSE CopiesOf(row, written)

(* A row is preceded by its group's heading and, in its group, by no row   *)
(* whose declared place is after its own.                                  *)
ReadsInOrder(delivered) ==
    LET details == RebuildIdentityModel(delivered).details IN
    \A i \in DOMAIN details :
        /\ details[i].heading <=> \A j \in 1..(i - 1) : details[j].row.group # details[i].row.group
        /\ ~details[i].heading => /\ details[i - 1].row.group = details[i].row.group
                                  /\ Rank(details[i - 1].row) <= Rank(details[i].row)

(* An open summary has something in it, and a free-form full name only     *)
(* where the card names its holder in no other way.                        *)
HeadlinesTheHolder(delivered) ==
    LET summary == RebuildIdentityModel(delivered).summary IN
    /\ summary = <<>> => Shown(delivered) = <<>>
    /\ HasNameComponent(Shown(delivered)) =>
          /\ \E row \in ToSet(summary) : row.key \in NameKeys
          /\ \A row \in ToSet(summary) : row.key # FullName
=============================================================================
