----------------------------- MODULE MCReportTable -----------------------------
(* Report maps as peripherals supply them, and devices that carry them.    *)
EXTENDS ReportTable

Item(cmd, value) == [cmd |-> cmd, value |-> value]

Head3(page, usage) ==
  <<Item("USAGE_PAGE", page), Item("USAGE", usage), Item("COLLECTION", 1)>>
Field(type, size, count) ==
  <<Item("REPORT_SIZE", size), Item("REPORT_COUNT", count), Item(type, 2)>>
Id(n) == <<Item("REPORT_ID", n)>>
End == <<Item("END_COLLECTION", 0)>>

\* A keyboard: modifiers and keys in, lamps and their padding out.
Keyboard(id) ==
  Head3(1, 6) \o id \o <<Item("USAGE_PAGE", 7)>> \o Field("INPUT", 1, 8) \o Field("INPUT", 8, 7)
    \o <<Item("USAGE_PAGE", 8)>> \o Field("OUTPUT", 1, 5) \o Field("OUTPUT", 3, 1) \o End

\* A mouse, with its physical collection: buttons, movement.
Mouse(id) ==
  Head3(1, 2) \o id \o <<Item("USAGE", 1), Item("COLLECTION", 0)>>
    \o Field("INPUT", 1, 8) \o Field("INPUT", 16, 2) \o End \o End

\* A mouse whose second id is in a collection of its own application too.
TwoPartMouse ==
  Head3(1, 2) \o Id(2) \o Field("INPUT", 8, 3)
    \o <<Item("USAGE_PAGE", 1), Item("USAGE", 2), Item("COLLECTION", 2)>>
    \o Id(6) \o Field("INPUT", 16, 1) \o End \o End

\* Media keys and system keys, two ids in one collection: the system keys are
\* not read as the consumer control's.
Consumer == Head3(12, 1) \o Id(3) \o Field("INPUT", 16, 1)
              \o <<Item("USAGE_PAGE", 1), Item("USAGE", 128)>> \o Id(4) \o Field("INPUT", 8, 1) \o End
Vendor == Head3(65280, 1) \o Id(5) \o Field("INPUT", 8, 4) \o Field("FEATURE", 8, 1) \o End

\* A mouse of three bytes, whose size the collection before it has set.
Brief == Head3(1, 2) \o Id(2) \o <<Item("REPORT_COUNT", 3), Item("INPUT", 2)>> \o End
\* A mouse that sets the width of its buttons aside.
Stacked ==
  Head3(1, 2) \o Id(2) \o <<Item("REPORT_SIZE", 8), Item("REPORT_COUNT", 2), Item("PUSH", 0),
                           Item("REPORT_SIZE", 1), Item("REPORT_COUNT", 8), Item("INPUT", 2),
                           Item("POP", 0), Item("INPUT", 2)>> \o End
\* A keyboard with nothing but a feature report, which is not listed.
Unlisted == Head3(1, 6) \o Id(7) \o Field("FEATURE", 8, 1) \o End

\* A field of five bits: the collection is logged and left out.
FiveBits == Head3(1, 2) \o Id(2) \o Field("INPUT", 1, 5) \o End
\* The page is not named first.
Headless == <<Item("OTHER", 0)>> \o Mouse(Id(2))
Physical == <<Item("USAGE_PAGE", 1), Item("USAGE", 2), Item("COLLECTION", 0)>>

Whole(items) == [items |-> items, whole |-> TRUE]
Cut(items, k) == [items |-> SubSeq(items, 1, k), whole |-> FALSE]

Rpt(srv, id, type) == [uuid |-> "RPT", service |-> srv, ref |-> [id |-> id, type |-> type]]
Boot(uuid, srv) == [uuid |-> uuid, service |-> srv, ref |-> NULL]
Unread(srv) == [uuid |-> "RPT", service |-> srv, ref |-> NULL]

Table ==
  <<Boot("BOOT_KBD_INP", 1), Rpt(1, 1, "INPUT"), Rpt(1, 1, "OUTPUT"), Rpt(1, 2, "INPUT"),
    Unread(1)>>

One(map) == [maps |-> <<map>>, chars |-> Table]

MCDevices ==
  {One(Whole(Keyboard(Id(1)))),
   One(Whole(Keyboard(Id(1)) \o Mouse(Id(2)))),
   One(Whole(Keyboard(Id(1)) \o Consumer)),
   One(Whole(Vendor \o Mouse(Id(2)))),
   One(Whole(Keyboard(Id(1)) \o FiveBits)),
   One(Whole(FiveBits)),
   One(Whole(Keyboard(Id(1)) \o Mouse(Id(2)) \o Vendor)),
   One(Whole(Headless)),
   One(Whole(TwoPartMouse)),
   One(Whole(Vendor \o Brief)),
   One(Whole(Stacked)),
   One(Whole(Unlisted)),
   One(Whole(Keyboard(Id(1)) \o Physical)),
   One(Whole(SubSeq(Consumer, 1, 11))),
   One(Cut(Keyboard(Id(1)) \o Mouse(Id(2)), Len(Keyboard(Id(1))))),
   One(Cut(Keyboard(Id(1)), 2)),
   One(Cut(Keyboard(Id(1)), 6)),
   One(NULL),
   \* no ids: one report of each kind
   [maps |-> <<Whole(Keyboard(<<>>))>>,
    chars |-> <<Rpt(1, 0, "INPUT"), Rpt(1, 0, "OUTPUT")>>],
   [maps |-> <<Whole(Mouse(<<>>))>>,
    chars |-> <<Boot("BOOT_MOUSE_INP", 1), Rpt(1, 0, "INPUT")>>],
   \* the same id in two services
   [maps |-> <<Whole(Keyboard(Id(1))), Whole(Mouse(Id(1)))>>,
    chars |-> <<Rpt(1, 1, "INPUT")>>],
   [maps |-> <<Whole(Vendor), Whole(Mouse(Id(1)))>>,
    chars |-> <<Rpt(1, 5, "INPUT"), Rpt(2, 1, "INPUT")>>]}

================================================================================
