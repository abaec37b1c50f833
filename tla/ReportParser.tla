------------------------------ MODULE ReportParser -----------------------------
(***************************************************************************)
(* esp_hid_parse_report_map(): the HID descriptor a peripheral supplies,   *)
(* read item by item.  The parser works on static variables that outlive a *)
(* call: they are one record here, with the names of the source, except    *)
(* that the three lengths are one function and that                        *)
(*   temp  is s_temp_hid_report_map, NULL or a map being collected,        *)
(*   ok    is FALSE once handle_cmd() has returned an error.               *)
(* A descriptor is a sequence of items.  Items that the parser skips are   *)
(* "PUSH", "POP" or "OTHER"; values keep the widths of the variables they  *)
(* land in.                                                                *)
(***************************************************************************)
EXTENDS Integers, SequencesExt, FiniteSetsExt

CONSTANTS
  NULL,
  MaxReports   \* reports a map may hold; 64 in the source

ASSUME ReportParserAssumption == MaxReports \in Nat

W8(n)  == n % 256
W16(n) == n % 65536

Types   == {"INPUT", "OUTPUT", "FEATURE"}
Classes == {"KEYBOARD", "MOUSE", "JOYSTICK", "GAMEPAD", "CCONTROL", "VENDOR", "GENERIC"}

\* What a parse yields.
Report    == [usage : Classes, id : Nat, type : Types, mode : {"REPORT", "BOOT"}, len : Nat]
ParsedMap == [usages : SUBSET Classes, reports : Seq(Report)]

ASSUME NullAssumption == NULL \notin ParsedMap

GenericDesktop == 1
ConsumerDevice == 12
VendorPages    == 255     \* and every page above

PowerOn ==
  [step |-> "USAGE_PAGE", depth |-> 0,
   usagePage |-> 0, usage |-> 0, innerUsagePage |-> 0, innerUsage |-> 0,
   id |-> 0, len |-> [t \in Types |-> 0], size |-> 0, count |-> 0,
   newMap |-> FALSE, temp |-> NULL, ok |-> TRUE]

ClassOf(page, usage) ==
  CASE page = GenericDesktop /\ usage = 6 -> "KEYBOARD"
    [] page = GenericDesktop /\ usage = 2 -> "MOUSE"
    [] page = GenericDesktop /\ usage = 4 -> "JOYSTICK"
    [] page = GenericDesktop /\ usage = 5 -> "GAMEPAD"
    [] page = ConsumerDevice /\ usage = 1 -> "CCONTROL"
    [] page >= VendorPages                -> "VENDOR"
    [] OTHER                              -> "GENERIC"

---------------------------------------------------------------------------
(* One report, or the reports of one id, is complete. *)

\* Keyboards and mice also have their reports in boot protocol, of a fixed
\* length; their feature reports are not listed.
ReportsOf(p) ==
  LET class == ClassOf(p.usagePage, p.usage)
      Item(type, mode, length) ==
        [usage |-> class, id |-> p.id, type |-> type, mode |-> mode, len |-> length]
      Listed(type, boot) ==
        IF p.len[type] = 0 THEN <<>>
        ELSE <<Item(type, "REPORT", p.len[type] \div 8)>>
             \o (IF boot = 0 THEN <<>> ELSE <<Item(type, "BOOT", boot)>>)
  IN CASE class = "KEYBOARD" -> Listed("INPUT", 8) \o Listed("OUTPUT", 1)
       [] class = "MOUSE"    -> Listed("INPUT", 3)
       [] OTHER -> Listed("INPUT", 0) \o Listed("OUTPUT", 0) \o Listed("FEATURE", 0)

EmptyMap == [usages |-> {}, reports |-> <<>>]

\* A report too many is an error; those before it have been added.
handle_report(p) ==
  LET map == IF p.temp = NULL \/ p.newMap THEN EmptyMap ELSE p.temp
      all == map.reports \o ReportsOf(p)
      class == ClassOf(p.usagePage, p.usage)
      fits == Len(all) <= MaxReports
  IN [p EXCEPT !.temp = [usages  |-> map.usages \cup ({class} \ {"GENERIC"}),
                         reports |-> IF fits THEN all ELSE SubSeq(all, 1, MaxReports)],
               !.newMap = @ /\ ~fits,
               !.step   = IF fits THEN @ ELSE "USAGE_PAGE",
               !.ok     = fits]

WholeBytes(p) == \A t \in Types : p.len[t] % 8 = 0

---------------------------------------------------------------------------
(* One item; between and at the head of top-level collections an error    *)
(* ends the map.                                                           *)

Reject(p) == [p EXCEPT !.step = "USAGE_PAGE", !.ok = FALSE]

BeginCollection(p, value) ==
  [PowerOn EXCEPT !.step = "USAGE", !.usagePage = W16(value),
                  !.depth = p.depth, !.newMap = p.newMap, !.temp = p.temp]

\* Mutant: the new id inherits the fields of the old one.
ChangeIdKeeping(p, value) ==
  LET next == IF p.id # 0 /\ p.id # value /\ WholeBytes(p)
              THEN [handle_report(p) EXCEPT !.usage = p.innerUsage,
                                            !.usagePage = p.innerUsagePage]
              ELSE p
  IN IF next.ok THEN [next EXCEPT !.id = W8(value)] ELSE handle_report(p)

\* The reports of the id so far are listed; if they do not fill whole bytes
\* that is only logged, and they count for the new id.
ChangeId(p, value) ==
  LET next == IF p.id # 0 /\ p.id # value /\ WholeBytes(p)
              THEN [handle_report(p) EXCEPT !.len = [t \in Types |-> 0],
                                            !.usage = p.innerUsage,
                                            !.usagePage = p.innerUsagePage]
              ELSE p
  IN IF next.ok THEN [next EXCEPT !.id = W8(value)] ELSE handle_report(p)

AddMain(p, type) == [p EXCEPT !.len[type] = W16(@ + p.size * p.count)]

\* The top-level collection ends with the outermost END_COLLECTION.
EndCollection(p) ==
  LET next == [p EXCEPT !.depth = W8(@ + 255)]
  IN IF next.depth # 0 THEN next
     ELSE IF WholeBytes(p) THEN [handle_report(next) EXCEPT !.step = "USAGE_PAGE"]
     ELSE [next EXCEPT !.step = "USAGE_PAGE"]

InCollection(p, item) ==
  CASE item.cmd = "REPORT_ID"      -> ChangeId(p, item.value)
    [] item.cmd = "USAGE_PAGE"     -> [p EXCEPT !.innerUsagePage = W16(item.value)]
    [] item.cmd = "USAGE"          -> [p EXCEPT !.innerUsage = W16(item.value)]
    [] item.cmd = "REPORT_SIZE"    -> [p EXCEPT !.size = W16(item.value)]
    [] item.cmd = "REPORT_COUNT"   -> [p EXCEPT !.count = W16(item.value)]
    [] item.cmd \in Types          -> AddMain(p, item.cmd)
    [] item.cmd = "COLLECTION"     -> [p EXCEPT !.depth = W8(@ + 1)]
    [] item.cmd = "END_COLLECTION" -> EndCollection(p)
    [] OTHER                       -> p

handle_cmd(p, item) ==
  CASE p.step = "USAGE_PAGE" ->
         IF item.cmd = "USAGE_PAGE" THEN BeginCollection(p, item.value) ELSE Reject(p)
    [] p.step = "USAGE" ->
         IF item.cmd = "USAGE"
         THEN [p EXCEPT !.usage = W16(item.value), !.step = "COLLECTION"]
         ELSE Reject(p)
    [] p.step = "COLLECTION" ->
         IF item.cmd = "COLLECTION" /\ item.value = 1
         THEN [p EXCEPT !.id = 0, !.depth = 1, !.step = "END_COLLECTION"]
         ELSE Reject(p)
    [] p.step = "END_COLLECTION" -> InCollection(p, item)

---------------------------------------------------------------------------
(* A whole map: esp_hid_parse_report_map().  A map is [items, whole];      *)
(* unless it is whole its data ends in the middle of one more item.        *)

\* Mutant: what an abandoned map had collected stays.
BeginMapAgain(p) == [p EXCEPT !.ok = TRUE]

BeginMap(p) == [p EXCEPT !.newMap = TRUE, !.ok = TRUE]

\* What was collected is handed over, and the parser forgets it.  With
\* nothing collected the code reads through a null pointer.
TakeMap(p) == [p EXCEPT !.temp = NULL]

\* A map without a report is handed over as one rejected: there is no memory
\* of no bytes.
Handed(map) == IF map.reports = <<>> THEN NULL ELSE map

\* The parser after each of the items, from p on: it stops at the first error.
ParserAfter(p, items) ==
  LET Read(q, item) == IF q.ok THEN handle_cmd(q, item) ELSE q
      after[k \in 0..Len(items)] == IF k = 0 THEN p ELSE Read(after[k - 1], items[k])
  IN after

EndOfMap(p, map) == ParserAfter(BeginMap(p), map.items)[Len(map.items)]

Accepts(p, map) == map.whole /\ EndOfMap(p, map).ok

\* NULL for a map that is rejected.
parse(p, map) == IF Accepts(p, map) THEN Handed(EndOfMap(p, map).temp) ELSE NULL

Restarts(p, map) == Accepts(p, map) /\ EndOfMap(p, map).temp = NULL
================================================================================
