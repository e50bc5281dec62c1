---------------------------- MODULE RuleEngine ----------------------------
(***************************************************************************)
(* The rule engine (rules/): how the policies of the file are compiled     *)
(* against the area registry, and what each rule reports of a device or    *)
(* an entity.  Everything here is a pure function of its arguments.        *)
(*                                                                         *)
(* A text is a record [words, style]: its words, which are numbers in      *)
(* alphabetical order with 0 standing for a numeral, and how they are      *)
(* written: "snake" (a_b), "kebab" (a-b), "title" (A B), "spaced" (a b),   *)
(* "joined" (ab) or "dotted" (an entity_id).  One lowercase word is        *)
(* written "snake".  A prefix is made of whole words, so "living_roomba"   *)
(* beside "living_room" is left out.                                       *)
(*                                                                         *)
(* A definition named M_... is a plausible bug in the definition of that   *)
(* name that follows it; PROJECT.json pairs it with the property it must   *)
(* break.                                                                  *)
(***************************************************************************)
EXTENDS Naturals, FiniteSets, SequencesExt

CONSTANT None   \* a field that is not set

Get(f, x) == IF x \in DOMAIN f THEN f[x] ELSE None

---------------------------------------------------------------------------
(***************************************************************************)
(* Texts and the presets of the naming rules.                              *)
(***************************************************************************)

Text == [words : Seq(Nat), style : {"snake", "kebab", "title", "spaced", "joined", "dotted"}]

Lower(t) == IF t.style = "title" THEN [t EXCEPT !.style = "spaced"] ELSE t

(* Only the characters of snake_case survive: a hyphen is dropped. *)
ToSnake(t) == [t EXCEPT !.style = IF t.style = "kebab" THEN "joined" ELSE "snake"]

ToKebab(t) == IF t.style \in {"title", "spaced"} THEN [t EXCEPT !.style = "kebab"] ELSE t

StartsWith(t, p) ==
  /\ IsPrefix(p.words, t.words)
  /\ \/ t.style = p.style
     \/ (Len(p.words) = 1 /\ "title" \notin {t.style, p.style})

(* A pattern is a preset, or the user's own: the set of styles it matches. *)
Accepts(pattern, t) ==
  CASE pattern.preset = "snake_case"    -> t.style = "snake"
    [] pattern.preset = "kebab-case"    -> t.style = "kebab" \/ (t.style = "snake" /\ Len(t.words) = 1)
    [] pattern.preset = "title-case"    -> t.style = "title" /\ t.words[1] # 0
    [] pattern.preset = "prefix-type-n" -> t.style = "snake" /\ Len(t.words) = 3 /\ t.words[3] = 0
    [] pattern.preset = "custom"        -> t.style \in pattern.own

(* What a name in a room has to start with; an area_id is a text itself.   *)
RoomPrefix(preset, area, name) ==
  CASE preset = "snake_case"    -> ToSnake(IF name = None THEN area ELSE name)
    [] preset = "kebab-case"    -> IF name = None THEN [area EXCEPT !.style = "kebab"] ELSE ToKebab(name)
    [] preset = "title-case"    -> name
    [] preset = "prefix-type-n" -> area
    [] preset = "custom"        -> None

---------------------------------------------------------------------------
(***************************************************************************)
(* What the schema lets through (policies/schema.py).  An override names   *)
(* its room or gives its area_id.                                          *)
(***************************************************************************)

ValidPattern(c) == (c.preset = "custom") = ("own" \in DOMAIN c)

ValidRef(o) == o.area # None \/ o.room # None

(* Unique among the area_ids, and among the names: not across them. *)
UniqueRooms(rooms) ==
  \A i, j \in DOMAIN rooms : i # j =>
    /\ rooms[i].area = None \/ rooms[i].area # rooms[j].area
    /\ {rooms[i].area, rooms[j].area} = {None} => Lower(rooms[i].room) # Lower(rooms[j].room)

ValidRooms(rooms) ==
  /\ \A o \in Range(rooms) : ValidRef(o) /\ (o.enabled => ValidPattern(o.pattern))
  /\ UniqueRooms(rooms)

Expression == {"true", "has room", "returned", "same room", "unparsable"}

ValidPolicy(p) ==
  /\ {"id", "type", "scope", "severity", "enabled"} \subseteq DOMAIN p
  /\ p.severity \in {"info", "warning", "error"}
  /\ p.scope \in {"device", "entity"} /\ p.enabled \in BOOLEAN
  /\ p.type \in {"missing_area", "naming_convention"} => p.scope = "device"
  /\ p.type \in {"entity_missing_area", "entity_naming_convention"} => p.scope = "entity"
  /\ p.type \in {"naming_convention", "entity_naming_convention"} =>
       ValidPattern(p.pattern) /\ ValidRooms(p.rooms)
  /\ p.type = "entity_naming_convention" =>
       (\A o \in Range(p.idRooms) : ValidRef(o)) /\ UniqueRooms(p.idRooms)
  /\ p.type = "custom" =>
       {"when", "assert"} \subseteq DOMAIN p /\ {p.when, p.assert} \subseteq Expression

---------------------------------------------------------------------------
(***************************************************************************)
(* Compiling.  A policy keeps its fields; a compiled rule adds the room    *)
(* overrides it could resolve and whether it is broken.  "names" is the    *)
(* area registry at the time, from area_ids to names.                      *)
(***************************************************************************)

ResolveArea(override, names) ==
  IF override.area # None THEN override.area
  ELSE IF \E a \in DOMAIN names : Lower(names[a]) = Lower(override.room)
         THEN CHOOSE a \in DOMAIN names : Lower(names[a]) = Lower(override.room)
         ELSE None

(* The last override of a room wins. *)
Overrides(rooms, names) ==
  LET area(i) == ResolveArea(rooms[i], names) IN
  [a \in {area(i) : i \in DOMAIN rooms} \ {None} |->
     rooms[Max({i \in DOMAIN rooms : area(i) = a})]]

Naming == {"naming_convention", "entity_naming_convention"}

Broken(p, names) ==
  \/ p.type = "naming_convention" /\ \E i \in DOMAIN p.rooms : ResolveArea(p.rooms[i], names) = None
  \/ p.type = "custom" /\ "unparsable" \in {p.when, p.assert}

CompileRule(p, names) ==
  [policy  |-> p,
   rooms   |-> IF p.type \in Naming THEN Overrides(p.rooms, names) ELSE << >>,
   idRooms |-> IF p.type = "entity_naming_convention" THEN Overrides(p.idRooms, names) ELSE << >>,
   broken  |-> Broken(p, names)]

Compile(policies, names) == [i \in DOMAIN policies |-> CompileRule(policies[i], names)]

---------------------------------------------------------------------------
(***************************************************************************)
(* Evaluating.  A context has the area names, the exceptions and, for the  *)
(* rules about entities, the devices by id.                                *)
(***************************************************************************)

DeviceName(d) == IF d.byUser = None THEN d.name ELSE d.byUser

Inherits(e) == e.name = None /\ e.original = None

EntityName(e) ==
  IF e.name # None THEN e.name
  ELSE IF e.original # None THEN e.original
  ELSE [words |-> e.id.object.words, style |-> "dotted"]

DisplayName(x) == IF x.kind = "device" THEN DeviceName(x) ELSE EntityName(x)

Owner(e, ctx) == Get(ctx.devices, e.device)

OptedOut(rooms, area) == area \in DOMAIN rooms /\ ~rooms[area].enabled

(* The pattern and starts_with_room in effect in a room. *)
InEffect(r, area) ==
  LET o == Get(r.rooms, area)
      p == r.policy
  IN  [pattern |-> IF o = None THEN p.pattern ELSE o.pattern,
       startsWithRoom |-> IF o = None \/ o.startsWithRoom = None
                            THEN p.startsWithRoom ELSE o.startsWithRoom]

NamingMessages(r, d) ==
  LET use    == InEffect(r, d.area)
      prefix == RoomPrefix(use.pattern.preset, d.area, d.areaName)
  IN  IF OptedOut(r.rooms, d.area) THEN << >>
      ELSE IF ~Accepts(use.pattern, DeviceName(d)) THEN <<"not the convention">>
      ELSE IF /\ use.startsWithRoom /\ d.area # None
              /\ prefix # None /\ ~StartsWith(DeviceName(d), prefix)
             THEN <<"not its room">>
      ELSE << >>

(* An entity_id is compared with its device's name, and left to the device *)
(* when that name does not start with the room.                            *)
EntityIdMessages(r, e, ctx) ==
  LET device == Owner(e, ctx)
      anchor == ToSnake(DeviceName(device))
      prefix == RoomPrefix("snake_case", e.area, Get(ctx.names, e.area))
  IN  IF OptedOut(r.idRooms, e.area) THEN << >>
      ELSE IF ~Accepts([preset |-> "snake_case"], e.id.object) THEN <<"id not the convention">>
      ELSE IF ~r.policy.idStartsWithRoom \/ e.area = None THEN << >>
      ELSE IF device = None
             THEN IF StartsWith(e.id.object, prefix) THEN << >> ELSE <<"id not its room">>
      ELSE IF StartsWith(e.id.object, anchor) \/ ~StartsWith(anchor, prefix) THEN << >>
      ELSE <<"id not its device">>

(* A name is left to the device, which the device rule reports.            *)
M_LeftToDevice(device, room) == FALSE
LeftToDevice(device, room) ==
  room # None /\ ~StartsWith(Lower(DeviceName(device)), Lower(room))

(* So is its name, unless it has none of its own. *)
EntityNameMessages(r, e, ctx) ==
  LET device == Owner(e, ctx)
      use    == InEffect(r, e.area)
      room   == Get(ctx.names, e.area)
      prefix == RoomPrefix(use.pattern.preset, e.area, room)
      anchor == IF device = None THEN prefix
                ELSE IF LeftToDevice(device, room) THEN None ELSE DeviceName(device)
  IN  IF (Inherits(e) /\ device # None) \/ OptedOut(r.rooms, e.area) THEN << >>
      ELSE IF ~Accepts(use.pattern, EntityName(e)) THEN <<"not the convention">>
      ELSE IF /\ use.startsWithRoom /\ e.area # None /\ ~Inherits(e)
              /\ anchor # None /\ ~StartsWith(EntityName(e), anchor)
             THEN <<IF device = None THEN "not its room" ELSE "not its device">>
      ELSE << >>

(* The expressions of the custom rules, by what they need: "returned"      *)
(* raises where the tracker set no state, "same room" where there is no    *)
(* device.  An entity is given the name of its own area only.              *)
Cel(expression, x, ctx) ==
  LET truth(b) == IF b THEN "true" ELSE "false"
      room     == IF x.kind = "device" THEN x.areaName ELSE Get(ctx.names, x.area)
  IN  CASE expression = "true"      -> "true"
        [] expression = "has room"  -> truth(room # None)
        [] expression = "returned"  -> IF x.reappeared THEN "true" ELSE "raises"
        [] expression = "same room" -> IF x.kind = "device" \/ Owner(x, ctx) = None THEN "raises"
                                       ELSE truth(room = Owner(x, ctx).areaName)

Outcome(p, x, ctx) ==
  LET when  == Cel(p.when, x, ctx)
      value == IF when = "true" THEN Cel(p.assert, x, ctx) ELSE when
  IN  IF when = "false" THEN "skipped"
      ELSE CASE value = "true" -> "passing" [] value = "false" -> "failing" [] value = "raises" -> "errored"

(* Without an area of its own, an entity has its device's. *)
LacksArea(p, e, ctx) ==
  e.area = None /\ (p.requireOwnArea \/ Owner(e, ctx) = None \/ Owner(e, ctx).area = None)

Messages(r, x, ctx) ==
  LET p == r.policy
      reported(b) == IF b THEN <<p.type>> ELSE << >>
  IN  CASE p.type = "missing_area"            -> reported(x.area = None)
        [] p.type = "entity_missing_area"     -> reported(LacksArea(p, x, ctx))
        [] p.type = "reappeared_after_delete" -> reported(x.reappeared)
        [] p.type = "naming_convention"       -> NamingMessages(r, x)
        [] p.type = "entity_naming_convention" ->
             EntityIdMessages(r, x, ctx) \o EntityNameMessages(r, x, ctx)
        [] p.type = "custom"                  -> reported(Outcome(p, x, ctx) = "failing")

(* A rule reports its first message, unless it is broken, disabled, about  *)
(* the other kind, or acknowledged.                                        *)
Reports(r, x, ctx) ==
  /\ ~r.broken
  /\ r.policy.scope = x.kind
  /\ r.policy.enabled
  /\ <<x.kind, x.id, r.policy.id>> \notin ctx.exceptions
  /\ Messages(r, x, ctx) # << >>

Evaluate(engine, x, ctx) ==
  {[policy |-> r.policy.id, type |-> r.policy.type, severity |-> r.policy.severity,
    message |-> Head(Messages(r, x, ctx))] : r \in {s \in Range(engine) : Reports(s, x, ctx)}}
===========================================================================
