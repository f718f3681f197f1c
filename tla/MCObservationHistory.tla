------------------------ MODULE MCObservationHistory ------------------------
(***************************************************************************)
(* Documents and manifest lines for TLC.                                   *)
(***************************************************************************)
EXTENDS ObservationHistory

CONSTANTS t1, t2, t3

ATool(name, definition) ==
    [members |-> <<"name">>, nested |-> 0, name |-> name, definition |-> definition]

\* A description with a space in it, laid out in three ways.
Tight == <<Quote, "a", Space, "b", Quote>>
Loose == <<Space, Quote, "a", Space, "b", Quote, Newline>>
Changed == <<Quote, "a", "b", Quote>>

AnInventory(executable, lead, tools) ==
    [members |-> <<"inventory_version", "server", "tools">>, nested |-> 0,
     version |-> 1,
     server |-> [members |-> <<"downstream_executable">>, nested |-> 0], executable |-> executable,
     lead |-> lead, tools |-> tools]

ADocument(target, at, inventory) ==
    [members |-> WrittenMembers, nested |-> 0, version |-> 1,
     at |-> at, target |-> target, identity |-> 1,
     sensor |-> [members |-> <<"name", "version">>, nested |-> 0],
     inventory |-> inventory]

Base == ADocument(t1, 1, AnInventory("x", <<>>, <<ATool(1, Tight), ATool(2, Tight)>>))
Relaid == ADocument(t1, 2, AnInventory("x", <<Newline>>, <<ATool(1, Loose), ATool(3, Tight)>>))
Same == ADocument(t1, 2, AnInventory("y", <<>>, <<ATool(1, Changed)>>))
Other == ADocument(t2, 1, AnInventory("x", <<>>, <<>>))

\* Valid by the readers, with a quote alone in a scalar that is skipped.
Stray == ADocument(t1, 3, AnInventory("x", <<Quote, Newline>>, <<ATool(1, Tight)>>))

\* A newline in a string: a backslash before it makes the readers skip it.
Broken == ADocument(t2, 2, AnInventory("x", <<>>, <<ATool(1, <<Quote, Newline, Quote>>)>>))

\* Refused, each for one reason.
Unsorted == [Base EXCEPT !.inventory.tools = <<ATool(2, Tight), ATool(1, Tight)>>]
Twice == [Base EXCEPT !.members = Append(@, "target_id")]
\* Deep enough for the reader of inventories, too deep for the other.
Deep == [Base EXCEPT !.inventory.tools[2].nested = 1]
Undated == [Base EXCEPT !.at = 0]
Anonymous == [Base EXCEPT !.identity = 0]
Crowded == [Base EXCEPT !.inventory.tools =
                <<ATool(1, Tight), ATool(2, Tight), ATool(3, Tight)>>]
\* Accepted: an unknown member is dropped.
Unknown == [Base EXCEPT !.members = Append(@, "unknown"), !.target = t3]

AllDocuments == {Base, Relaid, Same, Other, Stray, Broken, Unsorted, Twice, Deep,
                 Undated, Anonymous, Crowded, Unknown}

Line(members, kind) ==
    [members |-> members, nested |-> 1, version |-> 1, identity |-> 1, kind |-> kind]
Whole == <<"schema_version", "target_id", "source_type", "kind">>
AllLines == {Line(<<>>, "none"), Line(Whole, "local_package"),
             Line(Append(Whole, "unknown"), "remote_endpoint"),
             Line(Append(Whole, "kind"), "local_package")}

=============================================================================
