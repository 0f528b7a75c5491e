--------------------------- MODULE MCProviderFlows ---------------------------
(***************************************************************************)
(* A feature with a risky and a harmless command, both with flows; screens *)
(* of each kind, three with one id, and three against the contract.        *)
(***************************************************************************)
EXTENDS ProviderFlows

Action(id, kind, disabled) == [id |-> id, kind |-> kind, disabled |-> disabled]
Choice(id, disabled) == [id |-> id, disabled |-> disabled]
Field(kind, id, disabled, choices, value, list) ==
  [kind |-> kind, id |-> id, disabled |-> disabled, repeatable |-> FALSE,
   choices |-> choices, value |-> value, list |-> list]
Text(id) == Field("text", id, FALSE, <<>>, <<>>, FALSE)
Form(id, fields, actions) == [kind |-> "form", id |-> id, fields |-> fields, actions |-> actions]
Row(id, disabled) == [id |-> id, disabled |-> disabled, cells |-> {"price"}]
Table(selection, selected) ==
  [kind |-> "table", id |-> "offers", columns |-> <<[id |-> "price"]>>,
   rows |-> <<Row("r1", FALSE), Row("r2", TRUE), Row("r3", FALSE)>>,
   selection |-> selection, selected |-> selected,
   actions |-> <<Action("back", "back", FALSE)>>]

MCScreen ==
  {Form("config",
        <<Text("name"), Field("multiple-choice", "disks", FALSE, <<Choice("d1", FALSE), Choice("d2", FALSE)>>, <<"d1">>, TRUE)>>,
        <<Action("next", "primary", FALSE)>>),
   Form("config",
        <<Field("multiple-choice", "disks", TRUE, <<Choice("d1", TRUE), Choice("d2", FALSE)>>, <<>>, TRUE),
          Field("integer", "count", FALSE, <<>>, <<"1">>, FALSE)>>,
        <<>>),
   Form("config",
        <<Field("single-choice", "disks", TRUE, <<Choice("d1", FALSE)>>, <<>>, FALSE)>>,
        <<Action("next", "primary", TRUE)>>),
   Form("choose",
        <<Field("single-choice", "tier", FALSE, <<Choice("t1", FALSE), Choice("t2", FALSE)>>, <<"t2">>, FALSE),
          Field("boolean", "spot", FALSE, <<>>, <<>>, FALSE)>>,
        <<Action("back", "back", FALSE)>>),
   Table("multiple", <<"r1">>), Table("single", <<>>),
   [kind |-> "review", id |-> "review", items |-> <<"price">>,
    actions |-> <<Action("submit", "submit", FALSE), Action("back", "back", TRUE)>>],
   Table("multiple", <<"r4">>),
   Form("config", <<Text("name"), Field("boolean", "name", FALSE, <<>>, <<>>, FALSE)>>, <<>>),
   [kind |-> "page", id |-> "page", actions |-> <<>>]}

Command(id, operation, risks) == [id |-> id, operation |-> operation, risks |-> risks]
Commands == <<Command("rent", "mutation", {"billable"}), Command("quote", "read", {})>>
Flow(id, to) == [id |-> id, command |-> to]

MCFeature ==
  {[commands |-> Commands, flows |-> <<Flow("wizard", "rent"), Flow("estimate", "quote")>>],
   [commands |-> Commands, flows |-> <<Flow("wizard", "rent"), Flow("again", "rent")>>],
   [commands |-> Commands, flows |-> <<Flow("wizard", "absent")>>]}

=============================================================================
