---------------------------- MODULE MCCatalogue ----------------------------
(* A home with two devices and three entities, in a kitchen and, once it   *)
(* is created, a living room.  One device has no identifiers; a new name   *)
(* may be that of the kitchen in lower case.                               *)
EXTENDS Catalogue, TLC

CONSTANTS d1, d2, u1, u2, u3

(* 1 fan, 2 kitchen, 3 lamp, 4 living, 5 room *)
Title(words) == [words |-> words, style |-> "title"]
Snake(words) == [words |-> words, style |-> "snake"]

Kitchen    == Snake(<<2>>)
LivingRoom == Snake(<<4, 5>>)

DeviceAt(id, name, byUser, area, integration) ==
  [kind |-> "device", id |-> id, name |-> name, byUser |-> byUser, area |-> area, areaName |-> None,
   integration |-> integration, reappeared |-> FALSE]

EntityAt(uid, object, name, device, area, disabled) ==
  [kind |-> "entity", uid |-> uid, id |-> [domain |-> Snake(<<3>>), object |-> object],
   name |-> name, original |-> None, device |-> device, area |-> area, areaName |-> None,
   platform |-> Snake(<<1>>), disabled |-> disabled, hidden |-> FALSE, reappeared |-> FALSE]

MCHomes ==
  {[areas |-> [a \in {Kitchen} |-> Title(<<2>>)],
    devices |-> <<DeviceAt(d1, Title(<<3>>), byUser, Kitchen, Snake(<<1>>)), DeviceAt(d2, Snake(<<1>>), None, None, None)>>,
    entities |-> <<EntityAt(u1, Snake(<<2, 3>>), name, d1, own, FALSE),
                   EntityAt(u2, Snake(<<1>>), None, None, Kitchen, FALSE),
                   EntityAt(u3, Snake(<<3, 1>>), Title(<<3, 1>>), d2, None, TRUE)>>] :
     byUser \in {None, Title(<<2, 3>>), [words |-> <<2, 3>>, style |-> "spaced"]}, name \in {None, Title(<<3>>)},
     own \in {Kitchen, None}}

MCUnidentified == {d2}

MCNewAreas == [a \in {LivingRoom} |-> Title(<<4, 5>>)]
MCNewNames == {Title(<<4, 5, 3>>), [words |-> <<2>>, style |-> "spaced"]}
MCNewIds   == {Snake(<<4, 5, 3>>)}

Override(area, room, enabled, preset) ==
  [area |-> area, room |-> room, enabled |-> enabled, pattern |-> [preset |-> preset], startsWithRoom |-> None]

MCPolicies ==
  LET rule(id, type, scope, severity) ==
        [id |-> id, type |-> type, scope |-> scope, severity |-> severity, enabled |-> TRUE]
  IN <<rule("p1", "missing_area", "device", "warning"),
       rule("p2", "entity_missing_area", "entity", "warning") @@ [requireOwnArea |-> FALSE],
       rule("p3", "naming_convention", "device", "info") @@
         [pattern |-> [preset |-> "title-case"], startsWithRoom |-> TRUE, rooms |-> << >>],
       rule("p4", "naming_convention", "device", "info") @@
         [pattern |-> [preset |-> "snake_case"], startsWithRoom |-> FALSE,
          rooms |-> <<Override(None, Title(<<4, 5>>), TRUE, "kebab-case"), Override(Kitchen, None, FALSE, "snake_case")>>],
       rule("p5", "entity_naming_convention", "entity", "error") @@
         [pattern |-> [preset |-> "title-case"], startsWithRoom |-> TRUE,
          rooms |-> <<Override(None, Title(<<4, 5>>), TRUE, "title-case")>>,
          idStartsWithRoom |-> TRUE, idRooms |-> <<[area |-> LivingRoom, room |-> None, enabled |-> FALSE]>>],
       rule("p6", "reappeared_after_delete", "device", "error"),
       rule("p7", "reappeared_after_delete", "entity", "error"),
       rule("p8", "custom", "device", "info") @@ [when |-> "has room", assert |-> "returned"],
       [rule("p9", "custom", "entity", "info") EXCEPT !.enabled = FALSE] @@ [when |-> "true", assert |-> "same room"],
       rule("p10", "custom", "entity", "warning") @@ [when |-> "same room", assert |-> "has room"]>>

MCKept == {<< >>,
           <<<<"device", d2, "p1">>, <<"entity", [domain |-> Snake(<<3>>), object |-> Snake(<<1>>)], "p5">>,
             <<"device", d1, "p3">>>>}
=============================================================================
