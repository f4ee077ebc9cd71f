------------------------------- MODULE Migration -------------------------------
(***************************************************************************)
(* The area of interest through a change of its unit: settings of version 2 *)
(* hold it in model pixels, later ones in thousandths of the picture        *)
(* (main.c).  An area is one coordinate here.  The settings are items of    *)
(* cJSON and are kept as text between one process and the next.             *)
(***************************************************************************)
EXTENDS JsonText

CONSTANTS
  Scale,      \* thousandths per pixel: 1000 / modelWidth
  Areas,      \* areas a user draws, in thousandths
  MaxPosts    \* bound: areas drawn or cleared

VARIABLES
  phase,      \* the process: "down", "loaded" or "running"
  settings,   \* its settings
  text,       \* localdata/settings.json
  drawn,      \* history: the area the user drew last, in thousandths
  posts       \* areas drawn or cleared so far

vars == <<phase, settings, text, drawn, posts>>

Member(k, v) == [key |-> k, value |-> v]
Version == <<"v">>
Rectangle == <<"r">>
Polygon == <<"p">>

Document(version, rectangle, points) ==
  Object(<<Member(Version, Number(version)), Member(Rectangle, Number(rectangle)),
           Member(Polygon, Array([i \in DOMAIN points |-> Number(points[i])]))>>)

\* settings/settings.json: the whole picture.
Defaults == Document(3, 4, <<>>)

\* cJSON_GetObjectItem() and cJSON_ReplaceItemInObject(), for members there are.
Get(s, k) == (CHOOSE m \in In(s.items) : m.key = k).value
Put(s, k, v) ==
  [s EXCEPT !.items = [i \in DOMAIN s.items |->
                        IF s.items[i].key = k THEN Member(k, v) ELSE s.items[i]]]

\* A file of version 2, in pixels, or of version 3; the polygon has been drawn or not.
Init ==
  /\ phase = "down" /\ settings = Defaults /\ posts = 0
  /\ drawn \in Areas
  /\ \E version \in {2, 3}, hasPolygon \in BOOLEAN :
       LET area == IF version = 2 THEN drawn \div Scale ELSE drawn IN
       text = Text(Document(version, area, IF hasPolygon THEN <<area>> ELSE <<>>), TRUE)

\* ACAP(): what is saved replaces the defaults of the same name.
Load ==
  /\ phase = "down" /\ phase' = "loaded"
  /\ LET p == Parse(text) IN
     settings' = IF ~p.ok THEN Defaults
                 ELSE [Defaults EXCEPT !.items = [i \in DOMAIN @ |->
                        IF \E m \in In(p.value.items) : m.key = @[i].key
                        THEN Member(@[i].key, Get(p.value, @[i].key)) ELSE @[i]]]
  /\ UNCHANGED <<text, drawn, posts>>

\* migrate_box_to_normalized(), migrate_polygon_to_normalized(): the int is scaled.
Scaled(number) == [number EXCEPT !.int = ToInt(@ * Scale)]

\* migrate_settings_to_pixel_coordinates(): version 2 is scaled and called 3.
Migrated(s) ==
  LET p == Get(s, Polygon)
      scaled == Put(Put(s, Rectangle, Scaled(Get(s, Rectangle))), Polygon,
                    [p EXCEPT !.items = [i \in DOMAIN @ |-> Member(NoKey, Scaled(@[i].value))]])
  IN  IF Get(s, Version).int >= 3 THEN s
      ELSE Put(IF Get(s, Version).int = 2 THEN scaled ELSE s, Version,
               [Get(s, Version) EXCEPT !.int = 3])

\* migrate_legacy_regions_to_polygons(): a rectangle becomes a polygon, and is saved.
NeedsPolygon(s) == Get(s, Polygon).items = <<>> /\ Get(s, Rectangle).int > 0
WithPolygon(s) == Put(s, Polygon, Array(<<Number(Get(s, Rectangle).int)>>))

\* model_start().
Run ==
  /\ phase = "loaded" /\ phase' = "running"
  /\ LET m == Migrated(settings) IN
     IF NeedsPolygon(m)
     THEN settings' = WithPolygon(m) /\ text' = Text(WithPolygon(m), TRUE)
     ELSE settings' = m /\ UNCHANGED text
  /\ UNCHANGED <<drawn, posts>>

Stop == phase # "down" /\ phase' = "down" /\ UNCHANGED <<settings, text, drawn, posts>>

\* POST of settings: the page sends a polygon with its bounds, or no polygon.
Post ==
  /\ phase # "down"
  /\ posts < MaxPosts /\ posts' = posts + 1
  /\ \/ \E area \in Areas :
          /\ drawn' = area
          /\ settings' = Put(Put(settings, Rectangle, Number(area)), Polygon, Array(<<Number(area)>>))
     \/ settings' = Put(settings, Polygon, Array(<<>>)) /\ UNCHANGED drawn
  /\ text' = Text(settings', TRUE)
  /\ UNCHANGED phase

Next == Load \/ Run \/ Stop \/ Post

Spec == Init /\ [][Next]_vars

\* ImageProcess(): a polygon is read as doubles (point_in_polygon), the rectangle as ints.
Used ==
  IF Get(settings, Polygon).items # <<>> THEN Get(settings, Polygon).items[1].value.double
  ELSE Get(settings, Rectangle).int

\* The area detections are filtered with is the one that was drawn, whatever version of
\* the application saved it ("Version 2 stored AOI, size, exclude and polygons in model
\* pixels. Everything is now expressed in a resolution-independent 0..1000 space, so
\* scale those settings back.", main.c:553-555).
AreaIsKept == phase = "running" => Used = drawn
=============================================================================
