-------------------------- MODULE MCWidgetReading --------------------------
(* The reading widget, with the rows it may be handed of a holder.         *)
EXTENDS MCSmartCardHandler, HolderRows, WidgetUnits

(* Deliveries: two groups; of each, no check, one, two under one id, or    *)
(* two without an id, one of them with nothing but a reason or less; then  *)
(* any of a free-form name, a hidden trace and a name component, each with *)
(* a value of each kind.                                                   *)
MCNameKeys == {"surname"}
MCSummaryKeys == <<"surname", "card_type">>
MCHiddenKeys == {"verification"}
MCFieldOrder == [g \in {"document", "personal"} |->
                    IF g = "document" THEN <<"surname", "full_name">> ELSE <<>>]

Field(key, values) == {<<>>} \cup {<<[key |-> key, value |-> v]>> : v \in values}

Check(id, ordinal, status, reason) ==
    [id |-> id, ordinal |-> ordinal, status |-> status, reason |-> reason, detail |-> "none"]

ChipCheck == Check("chip", "check_1", "text", "none")

Checks ==
    {<<>>, <<ChipCheck>>, <<ChipCheck, Check("chip", "check_2", "text", "text")>>}
    \cup {<<Check("none", "check_1", "text", "none"), Check("none", "check_2", "none", r)>> :
              r \in {"text", "none"}}

DeliveriesOf(g) ==
    {[key |-> g, checks |-> c, fields |-> f \o s \o v] : c \in Checks,
        f \in Field("full_name", {"text", "blank"}),
        s \in Field("surname", {"text", "blank", "none"}),
        v \in Field("verification", {"text"})}

Deliveries ==
    {DeliveredRows(<<d, p>>) : d \in DeliveriesOf("document"), p \in DeliveriesOf("personal")}

EachRowPrintedOnce == \A d \in Deliveries : SurfacesAgree(d) /\ HeadlinesTheHolder(d)

EachGroupReadInOrder == \A d \in Deliveries : ReadsInOrder(d)

(* When a card was read, whatever was delivered: the summary and the       *)
(* expanded list of the popup print each row of identity.txt once, under a *)
(* headline with the holder's name; and whatever the summary took out,     *)
(* each group has one heading, over all of its rows, in their order.       *)
RowsAreShownOnceInOrder == wid.identityRead => EachRowPrintedOnce /\ EachGroupReadInOrder

-----------------------------------------------------------------------------
(* The names of the readers, and names like them: models that end in what  *)
(* looks like an index or in a group of their own, serials that are none.  *)
MCWords == {"reader", "50", "51", "00", "01"}
MCHexPairs == {"50", "51", "00", "01"}
MCGroups == {"ICCD", "69988A87", "IM0O2C00"}
MCSerials == {"69988A87", "IM0O2C00"}

Unit(model, serial, first) == [model |-> model, serial |-> serial, first |-> first, second |-> "00"]

MCUnitOf == [n \in MCPortNames |->
    CASE n = contact     -> Unit(<<"reader">>, "69988A87", "00")
      [] n = contactless -> Unit(<<"reader">>, "69988A87", "01")
      [] n = former      -> Unit(<<"reader">>, "69988A87", "50")
      [] n = desk        -> Unit(<<"reader">>, "none", "00")]

MCUnits ==
    {[model |-> m, serial |-> s, first |-> i, second |-> j] :
        m \in {<<"reader">>, <<"reader", "50">>, <<"reader", "51">>, <<"reader", "ICCD">>,
               <<"reader", "ICCD", "50">>},
        s \in MCGroups \cup {"none"},
        i \in {"00", "01", "50"}, j \in {"00", "01"}}
=============================================================================
