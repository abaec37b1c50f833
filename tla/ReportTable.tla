------------------------------ MODULE ReportTable ------------------------------
(***************************************************************************)
(* The table of reports esp_hidh_dev_open() leaves in a device: the report *)
(* characteristics found, completed from the report map of their service,  *)
(* and the classes device_usage_mask() reads off the table.                *)
(*                                                                         *)
(* Devices are opened one after the other by one worker; the parser's      *)
(* static variables are what passes from one open to the next, until the   *)
(* chip restarts.  pc is where the open is:                                *)
(*   "idle"     no open under way,                                         *)
(*   "service"  before the report map of a service,                        *)
(*   "parsing"  pos items of that map have been read,                      *)
(*   "merging"  the map is parsed, with this result.                       *)
(***************************************************************************)
EXTENDS ReportParser

CONSTANTS
  Devices,    \* what peripherals supply: [maps: sequence, chars: sequence]
  MaxOpens    \* bound on the opens of a run

MapItem   == [cmd : STRING, value : Nat]
ReportMap == [items : Seq(MapItem), whole : BOOLEAN]

\* A report characteristic, ref being its Report Reference, or NULL where that
\* cannot be read.
Char == [uuid    : {"BOOT_KBD_INP", "BOOT_KBD_OUT", "BOOT_MOUSE_INP", "RPT"},
         service : Nat,
         ref     : [id : Nat, type : STRING] \cup {NULL}]

\* A map that could not be read is NULL.
ASSUME DevicesAssumption ==
  \A d \in Devices : /\ d.maps \in Seq(ReportMap \cup {NULL})
                     /\ d.chars \in Seq(Char)
                     /\ \A i \in DOMAIN d.chars : d.chars[i].service \in DOMAIN d.maps

VARIABLES
  parser,     \* the parser's static variables
  pc,
  device,     \* the device being opened, or opened last
  service,    \* the service whose map is read: hidindex, from 1
  pos,
  result,     \* what the parse returned: a map, or NULL for one rejected
  reports,    \* dev->reports
  opens,
  \* history
  entry,      \* the parser when the map in hand was begun
  misled      \* since power-on a map has ended inside a collection

vars == <<parser, pc, device, service, pos, result, reports, opens, entry, misled>>

Map == device.maps[service]

---------------------------------------------------------------------------
(* What discovery makes of a report characteristic.                        *)

Characteristic(c) ==
  LET Boot(class, type) == [mode |-> "BOOT", type |-> type, usage |-> class,
                            id |-> 0, len |-> 8, service |-> c.service]
      found == CASE c.uuid = "BOOT_KBD_INP"   -> Boot("KEYBOARD", "INPUT")
                 [] c.uuid = "BOOT_KBD_OUT"   -> Boot("KEYBOARD", "OUTPUT")
                 [] c.uuid = "BOOT_MOUSE_INP" -> Boot("MOUSE", "INPUT")
                 [] c.uuid = "RPT" ->
                      [mode |-> "REPORT", type |-> "unknown", usage |-> "GENERIC",
                       id |-> 0, len |-> 0, service |-> c.service]
  IN IF c.ref = NULL THEN found
     ELSE [found EXCEPT !.id = c.ref.id, !.type = c.ref.type]

\* A boot characteristic learns its id, one of report mode its class.
MergeReport(report, r) ==
  LET same == report.mode = r.mode /\ report.type = r.type
  IN CASE same /\ report.mode = "BOOT" /\ report.usage = r.usage ->
            [report EXCEPT !.id = r.id, !.len = r.len]
       [] same /\ report.id = r.id /\ ~(report.mode = "BOOT" /\ report.usage = r.usage) ->
            [report EXCEPT !.usage = r.usage, !.len = r.len]
       [] OTHER -> report

\* A report completed from those of a map, one after the other.
Complete(report, list) ==
  LET upto[n \in 0..Len(list)] == IF n = 0 THEN report ELSE MergeReport(upto[n - 1], list[n])
  IN upto[Len(list)]

\* Mutant: a map completes the reports of every service.
MergeAll(table, map) == [i \in DOMAIN table |-> Complete(table[i], map.reports)]

Merge(table, map) ==
  [i \in DOMAIN table |->
     IF table[i].service = service THEN Complete(table[i], map.reports) ELSE table[i]]

device_usage_mask ==
  {reports[i].usage : i \in {j \in DOMAIN reports : reports[j].type = "INPUT"}}
    \ {"GENERIC"}

---------------------------------------------------------------------------
Init ==
  /\ parser = PowerOn
  /\ pc = "idle" /\ device = NULL /\ service = 0 /\ pos = 0
  /\ result = NULL /\ reports = <<>>
  /\ opens = 0 /\ entry = PowerOn /\ misled = FALSE

\* The attributes of the device have been discovered and read.
Open(d) ==
  /\ pc = "idle" /\ opens < MaxOpens
  /\ device' = d
  /\ reports' = [i \in DOMAIN d.chars |-> Characteristic(d.chars[i])]
  /\ service' = 1 /\ pc' = "service"
  /\ opens' = opens + 1
  /\ UNCHANGED <<parser, pos, result, entry, misled>>

\* A map that could not be read is passed over.
NextService ==
  /\ pc = "service"
  /\ \/ /\ service > Len(device.maps)
        /\ pc' = "idle"
        /\ UNCHANGED <<parser, service, pos, entry>>
     \/ /\ service <= Len(device.maps)
        /\ Map = NULL \/ reports = <<>>
        /\ service' = service + 1
        /\ UNCHANGED <<parser, pc, pos, entry>>
     \/ /\ service <= Len(device.maps)
        /\ Map # NULL /\ reports # <<>>
        /\ parser' = BeginMap(parser)
        /\ entry' = parser
        /\ pos' = 0
        /\ pc' = "parsing"
        /\ UNCHANGED service
  /\ UNCHANGED <<device, result, reports, opens, misled>>

EndParse(r) == result' = r /\ pc' = "merging"

ReadItem ==
  /\ pc = "parsing" /\ pos < Len(Map.items)
  /\ parser' = handle_cmd(parser, Map.items[pos + 1])
  /\ pos' = pos + 1
  /\ \/ parser'.ok /\ UNCHANGED <<result, pc>>
     \/ ~parser'.ok /\ EndParse(NULL)
  /\ UNCHANGED <<device, service, reports, opens, entry, misled>>

\* A map that breaks off is given up with the parser as it is.
EndOfData ==
  /\ pc = "parsing" /\ pos = Len(Map.items)
  /\ \/ ~Map.whole /\ EndParse(NULL) /\ UNCHANGED parser
     \/ /\ Map.whole /\ parser.temp # NULL
        /\ EndParse(Handed(parser.temp))
        /\ parser' = TakeMap(parser)
  /\ misled' = (misled \/ parser.step # "USAGE_PAGE")
  /\ UNCHANGED <<device, service, pos, reports, opens, entry>>

\* A map that lists no report: the null pointer restarts the chip.
Restart ==
  /\ pc = "parsing" /\ pos = Len(Map.items)
  /\ Map.whole /\ parser.temp = NULL
  /\ parser' = PowerOn
  /\ pc' = "idle" /\ device' = NULL /\ service' = 0 /\ pos' = 0
  /\ result' = NULL /\ reports' = <<>>
  /\ entry' = PowerOn /\ misled' = FALSE
  /\ UNCHANGED opens

MergeMap ==
  /\ pc = "merging"
  /\ reports' = IF result = NULL THEN reports ELSE Merge(reports, result)
  /\ service' = service + 1
  /\ pc' = "service"
  /\ UNCHANGED <<parser, device, pos, result, opens, entry, misled>>

Next ==
  \/ \E d \in Devices : Open(d)
  \/ NextService \/ ReadItem \/ EndOfData \/ Restart \/ MergeMap

Spec == Init /\ [][Next]_vars

---------------------------------------------------------------------------
(* What a descriptor declares by the HID specification, without the        *)
(* parser's states.                                                        *)

Nesting(items, k) ==
  LET Count(cmd) == Cardinality({i \in 1..k : items[i].cmd = cmd})
  IN Count("COLLECTION") - Count("END_COLLECTION")

\* The ends of the top-level collections, with 0 for the start of the map.
Ends(items) ==
  {0} \cup {k \in DOMAIN items : items[k].cmd = "END_COLLECTION" /\ Nesting(items, k) = 0}

\* The collection of an item is named by the end of the one before.
Before(items, k) == Max({e \in Ends(items) : e < k})

Mains(items) == {k \in DOMAIN items : items[k].cmd \in Types}

\* A global item holds from where it stands to the next of its kind, across
\* the ends of collections; 0 where there is none.  Push and Pop aside.
Value(items, k, cmd) ==
  LET at == {i \in 1..(k - 1) : items[i].cmd = cmd}
  IN IF at = {} THEN 0 ELSE items[Max(at)].value

\* The fields of one report: the main items of one kind and one id.
Fields(items, k) ==
  {j \in Mains(items) : /\ items[j].cmd = items[k].cmd
                        /\ Value(items, j, "REPORT_ID") = Value(items, k, "REPORT_ID")}

Bits(items, fields) ==
  LET Width(j) == IF j \in fields
                  THEN Value(items, j, "REPORT_SIZE") * Value(items, j, "REPORT_COUNT") ELSE 0
      upto[j \in 0..Len(items)] == IF j = 0 THEN 0 ELSE upto[j - 1] + Width(j)
  IN upto[Len(items)]

\* A report is of the application whose collection it is in, which the page
\* and the usage at its head name.
DeclaredClass(items, k) ==
  LET start == Before(items, k) IN ClassOf(items[start + 1].value, items[start + 2].value)

\* A table of reports does not list every report declared, and lists those of
\* keyboards and mice once more in boot protocol, of the length the HID
\* specification gives it.
Listed(class, type) ==
  CASE class = "KEYBOARD" -> type # "FEATURE"
    [] class = "MOUSE"    -> type = "INPUT"
    [] OTHER              -> TRUE

Modes(class) == IF class \in {"KEYBOARD", "MOUSE"} THEN {"REPORT", "BOOT"} ELSE {"REPORT"}

BootLength(class, type) ==
  CASE class = "MOUSE"  -> 3
    [] type  = "OUTPUT" -> 1
    [] OTHER            -> 8

\* A report of a kind and a length in bits, in each of its modes.
Entries(class, id, type, bits) ==
  IF bits = 0 \/ ~Listed(class, type) THEN {}
  ELSE {[usage |-> class, id |-> id, type |-> type, mode |-> mode,
         len |-> IF mode = "BOOT" THEN BootLength(class, type) ELSE bits \div 8] :
           mode \in Modes(class)}

DeclaredAt(items, k) ==
  Entries(DeclaredClass(items, k), Value(items, k, "REPORT_ID"), items[k].cmd,
          Bits(items, Fields(items, k)))

Declared(items) == UNION {DeclaredAt(items, k) : k \in Mains(items)}

\* The values the parser can hold: usages of two bytes, ids of one and not
\* zero, and as deep a nesting.
WithinWidths(items) ==
  \A k \in DOMAIN items :
    /\ items[k].cmd # "OTHER" => items[k].value < 65536
    /\ items[k].cmd = "REPORT_ID" => items[k].value \in 1..255
    /\ Nesting(items, k) < 256

\* Whole collections, each headed by page, usage and application, and no
\* application within another.
Headed(items) ==
  /\ Len(items) \in Ends(items) \ {0}
  /\ \A e \in Ends(items) \ {Len(items)} :
       /\ items[e + 1].cmd = "USAGE_PAGE"
       /\ items[e + 2].cmd = "USAGE"
       /\ items[e + 3].cmd = "COLLECTION" /\ items[e + 3].value = 1
  /\ \A k \in DOMAIN items :
       items[k].cmd = "COLLECTION" /\ items[k].value = 1 => k - 3 \in Ends(items)

\* No state of the global items is saved and restored.
NoStack(items) == \A k \in DOMAIN items : items[k].cmd \notin {"PUSH", "POP"}

\* Reports fill whole bytes, of a length the parser can hold.
WholeReports(items) ==
  \A k \in Mains(items) : /\ Bits(items, Fields(items, k)) % 8 = 0
                          /\ Bits(items, Fields(items, k)) < 65536

\* Each report is declared in one stretch: its id is taken up once, and a
\* collection has ids throughout or not at all.
IdsInOrder(items) ==
  /\ \A j, k \in Mains(items) :
       Value(items, j, "REPORT_ID") = Value(items, k, "REPORT_ID") =>
         /\ Before(items, j) = Before(items, k)
         /\ j < k => \A i \in j..k : items[i].cmd = "REPORT_ID" =>
                       items[i].value = Value(items, k, "REPORT_ID")
  /\ \A k \in Mains(items) : Value(items, k, "REPORT_ID") = 0 =>
       \A i \in DOMAIN items : items[i].cmd = "REPORT_ID" => Before(items, i) # Before(items, k)

\* A map laid out as the parser wants it.
Orderly(items) ==
  /\ WithinWidths(items) /\ Headed(items) /\ NoStack(items)
  /\ WholeReports(items) /\ IdsInOrder(items)
  /\ Cardinality(Declared(items)) <= MaxReports

\* The last value of a kind of item in the same collection, past its head:
\* all that the parser remembers.
OwnValue(items, k, cmd) ==
  LET at == {i \in (Before(items, k) + 4)..(k - 1) : items[i].cmd = cmd}
  IN IF at = {} THEN 0 ELSE items[Max(at)].value

\* No field depends on a size, a count or an id that an earlier collection
\* left behind.
Restated(items) ==
  \A k \in Mains(items) : \A cmd \in {"REPORT_SIZE", "REPORT_COUNT", "REPORT_ID"} :
    OwnValue(items, k, cmd) = Value(items, k, cmd)

\* Where a collection goes on to a further id,
Changes(items) ==
  {i \in DOMAIN items : /\ items[i].cmd = "REPORT_ID"
                        /\ OwnValue(items, i, "REPORT_ID") \notin {0, items[i].value}}

\* the usage named last in it is of its own class: the parser takes that for
\* the application of the reports that follow.
ClassesStay(items) ==
  \A i \in Changes(items) :
    ClassOf(OwnValue(items, i, "USAGE_PAGE"), OwnValue(items, i, "USAGE")) =
      DeclaredClass(items, i)

\* Orderly maps on which the parser's rules and the specification's agree.
WellFormed(items) == Orderly(items) /\ Restated(items) /\ ClassesStay(items)

\* A characteristic for boot protocol has no Report Reference, and is not
\* found beside reports without an id that are of the other class.
Consistent(c, items) ==
  c.uuid # "RPT" =>
    /\ c.ref = NULL
    /\ \A r \in Declared(items) :
         r.mode = "BOOT" /\ r.type = "INPUT" /\ r.id = 0 =>
           r.usage = IF c.uuid = "BOOT_MOUSE_INP" THEN "MOUSE" ELSE "KEYBOARD"

\* A device whose maps are all read, well-formed and at one with its
\* characteristics.
Proper(d) ==
  /\ \A s \in DOMAIN d.maps : d.maps[s] # NULL /\ d.maps[s].whole /\ WellFormed(d.maps[s].items)
  /\ \A i \in DOMAIN d.chars : Consistent(d.chars[i], d.maps[d.chars[i].service].items)

\* The classes a characteristic stands for as an input report.
InputClasses(c, items) ==
  IF c.ref = NULL
  THEN CASE c.uuid = "BOOT_KBD_INP"   -> {"KEYBOARD"}
         [] c.uuid = "BOOT_MOUSE_INP" -> {"MOUSE"}
         [] OTHER                     -> {}
  ELSE {r.usage : r \in {e \in Declared(items) :
                           e.type = "INPUT" /\ e.id = c.ref.id /\ e.type = c.ref.type}}

---------------------------------------------------------------------------
\* The reports a parse yields.
Parsed == IF result = NULL THEN <<>> ELSE result.reports

(* A well-formed map is read as declared: each report once, with its id,   *)
(* kind, length and class, and none besides, however many maps were read   *)
(* before, as long as none of them ended inside a collection.              *)
MapsAreReadAsDeclared ==
  pc = "merging" /\ ~misled /\ Map.whole /\ WellFormed(Map.items) =>
    ToSet(Parsed) = Declared(Map.items) /\ IsInjective(Parsed)

(* Earlier maps leave no trace: a map gives what it gives on a parser just *)
(* powered on, unless a map ended inside a collection, or this one         *)
(* completes no collection at all.                                         *)
EarlierMapsLeaveNoTrace ==
  pc = "merging" /\ entry.step = "USAGE_PAGE" =>
    Restarts(PowerOn, Map) \/ parse(PowerOn, Map) = result

(* The classes by which the bridge decides what a device is are those its  *)
(* input reports are declared with: a report takes neither the class of    *)
(* another id nor that of another service with the same id.                *)
MaskIsDeclared ==
  pc = "service" /\ service > Len(device.maps) /\ ~misled /\ Proper(device) =>
    device_usage_mask =
      (UNION {InputClasses(device.chars[i], device.maps[device.chars[i].service].items) :
                i \in DOMAIN device.chars}) \ {"GENERIC"}
================================================================================
