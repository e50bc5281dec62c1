---------------------------- MODULE MCDevicePage ----------------------------
(* One home with two devices for the page, one of them with space around   *)
(* its name, and one with two entities for the other clients.              *)
EXTENDS DevicePage, TLC

CONSTANTS d1, d2, x, y, z, kitchen, plain, spaced, blank, c1, c2

MCDevice   == {d1, d2}
MCEntityId == {x, y, z}

MCTrim == [n \in Name |-> IF n = spaced THEN plain ELSE n]

It(uid, name, area) == [uid |-> uid, name |-> name, area |-> area]

HomeOf(items) == [i \in Item |-> IF i \in DOMAIN items THEN items[i] ELSE None]

OfDevices ==
  HomeOf((d1 :> (It(d1, plain, kitchen) @@ [entries |-> {c1}])) @@ (d2 :> (It(d2, spaced, None) @@ [entries |-> {c1}])))

OfEntities ==
  HomeOf((x :> (It(x, spaced, None) @@ [off |-> FALSE])) @@ (y :> (It(y, plain, kitchen) @@ [off |-> FALSE])))

MCHomes == {OfDevices, OfEntities}

(* One pattern gives the one name and moves entity_ids along, the other    *)
(* gives the other and moves the last id back.                             *)
Along == [name |-> [n \in Name |-> plain], id |-> (x :> y) @@ (y :> z) @@ (z :> z)]
Back  == [name |-> [n \in Name |-> spaced], id |-> (x :> x) @@ (y :> y) @@ (z :> x)]

MCSubs == {Along, Back}
=============================================================================
