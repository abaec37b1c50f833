------------------------------ MODULE LinkFramer ------------------------------
(***************************************************************************)
(* The bytes on the UART: frame_send() of chip_link.c makes a frame of an  *)
(* event, and the state machine of receiver_task() finds frames in         *)
(* whatever bytes arrive: the other chip's boot messages, the tail of a    *)
(* frame that was under way when this chip started, a frame with a byte    *)
(* missing.  The rest of the model takes a frame to arrive whole or not at *)
(* all (LinkWire); this module is where that is examined.                  *)
(*                                                                         *)
(* One action sends all the bytes of a frame: the parser is the only       *)
(* reader, and what it does depends on the bytes alone.                    *)
(***************************************************************************)
EXTENDS Integers, Sequences

CONSTANTS
  Crc(_),      \* the checksum of a sequence of bytes: crc8 of LinkCrc
  Events,      \* events the sender may have to send
  NoiseBytes,  \* bytes that noise may put on the wire
  PayloadMax,  \* LINK_PAYLOAD_MAX, 8
  MaxNoise,    \* bound on disturbances
  MaxMissed    \* where the count of frames missed in a row stops

ASSUME FramerAssumption ==
  /\ NoiseBytes \subseteq 0..255
  /\ PayloadMax \in Nat /\ MaxNoise \in Nat /\ MaxMissed \in Nat

\* What the senders of the link are called with: link_evt_t, before the
\* clamp for a mouse.
LinkEvents ==
  [type : {"mouse"}, buttons : 0..255, dx : Int, dy : Int, wheel : Int]
    \cup [type : {"keyboard"}, modifiers : 0..255, keys : [1..6 -> 0..255]]
    \cup [type : {"keepalive"}, present : 0..255]
    \cup [type : {"mode"}, passthrough : 0..255]

ASSUME EventsAssumption == Events \subseteq LinkEvents

Sync0 == 165   \* 0xA5
Sync1 == 90    \* 0x5A

---------------------------------------------------------------------------
(* From an event to bytes and back. *)

TypeByte == [mouse |-> 1, keepalive |-> 2, keyboard |-> 3, mode |-> 4]

clamp(v, lo, hi) == IF v > hi THEN hi ELSE IF v < lo THEN lo ELSE v

\* Two's complement, low byte first.
Bytes16(v) == <<v % 256, (v % 65536) \div 256>>

\* A field of 2 * half values read as a signed number.
Signed(v, half) == IF v >= half THEN v - 2 * half ELSE v

\* What chip_link_send_mouse() and sender_task() put into the payload.
Payload(e) ==
  CASE e.type = "mouse" ->
         <<e.buttons>> \o Bytes16(clamp(e.dx, -32768, 32767))
                       \o Bytes16(clamp(e.dy, -32768, 32767))
                       \o <<clamp(e.wheel, -128, 127) % 256>>
    [] e.type = "keyboard"  -> <<e.modifiers>> \o e.keys
    [] e.type = "keepalive" -> <<e.present>>
    [] e.type = "mode"      -> <<e.passthrough>>

\* The length handle_frame() insists on.
LengthOf == [mouse |-> 6, keyboard |-> 7, mode |-> 1, keepalive |-> 1]

\* Mutant: the high byte is taken for unsigned.
UnsignedEvent(type, p) ==
  CASE type = "mouse" ->
         [type |-> type, buttons |-> p[1], dx |-> p[2] + 256 * p[3],
          dy |-> p[4] + 256 * p[5], wheel |-> Signed(p[6], 128)]
    [] type = "keyboard"  -> [type |-> type, modifiers |-> p[1], keys |-> Tail(p)]
    [] type = "keepalive" -> [type |-> type, present |-> p[1]]
    [] type = "mode"      -> [type |-> type, passthrough |-> p[1]]

\* What handle_frame() reads out of a payload.
EventIn(type, p) ==
  CASE type = "mouse" ->
         [type |-> type, buttons |-> p[1],
          dx |-> Signed(p[2] + 256 * p[3], 32768),
          dy |-> Signed(p[4] + 256 * p[5], 32768), wheel |-> Signed(p[6], 128)]
    [] type = "keyboard"  -> [type |-> type, modifiers |-> p[1], keys |-> Tail(p)]
    [] type = "keepalive" -> [type |-> type, present |-> p[1]]
    [] type = "mode"      -> [type |-> type, passthrough |-> p[1]]

\* What the checksum covers: the type, the length and the payload.
Body(e) == <<TypeByte[e.type], Len(Payload(e))>> \o Payload(e)

frame_send(e) == <<Sync0, Sync1>> \o Body(e) \o <<Crc(Body(e))>>

\* The bytes of every event.
FrameOf == [e \in Events |-> frame_send(e)]

ASSUME CrcAssumption == \A e \in Events : Crc(Body(e)) \in 0..255

---------------------------------------------------------------------------
(* The parser. *)

\* type, len and payload hold what has been read since the last sync; they
\* are dead in the other states, and empty here.
Idle == [state |-> "s0", type |-> 0, len |-> 0, payload |-> <<>>]

\* Mutant: a second 0xA5 disarms.
AfterSync0Disarming(p, b) == IF b = Sync1 THEN [p EXCEPT !.state = "type"] ELSE Idle

\* "A second 0xA5 could be the start of a real frame, so stay armed."
AfterSync0(p, b) ==
  IF b = Sync1 THEN [p EXCEPT !.state = "type"]
  ELSE IF b = Sync0 THEN p ELSE Idle

\* Mutant: a payload of any length is collected.
AnyLength(p, b) ==
  [p EXCEPT !.len = b, !.state = IF b = 0 THEN "crc" ELSE "payload"]

\* More than the buffer holds is not a frame of ours.
AfterType(p, b) ==
  IF b > PayloadMax THEN Idle
  ELSE [p EXCEPT !.len = b, !.state = IF b = 0 THEN "crc" ELSE "payload"]

Collect(p, b) ==
  [p EXCEPT !.payload = Append(@, b),
            !.state = IF Len(p.payload) + 1 = p.len THEN "crc" ELSE @]

\* The state after one byte.
parse(p, b) ==
  CASE p.state = "s0"      -> IF b = Sync0 THEN [p EXCEPT !.state = "s1"] ELSE p
    [] p.state = "s1"      -> AfterSync0(p, b)
    [] p.state = "type"    -> [p EXCEPT !.type = b, !.state = "len"]
    [] p.state = "len"     -> AfterType(p, b)
    [] p.state = "payload" -> Collect(p, b)
    [] p.state = "crc"     -> Idle

Intact(p, b) == p.state = "crc" /\ Crc(<<p.type, p.len>> \o p.payload) = b

\* The events a byte completes: at most one.
Completed(p, b) ==
  {EventIn(t, p.payload) :
     t \in {u \in DOMAIN TypeByte :
              Intact(p, b) /\ TypeByte[u] = p.type /\ LengthOf[u] = p.len}}

---------------------------------------------------------------------------
VARIABLES
  parser,     \* the locals of receiver_task
  received,   \* the events handed on during the last step
  sent,       \* the event sent in that step, none in a disturbance
  clean,      \* the parser was between frames when that step began
  missed,     \* whole frames in a row that were sent and not received
  decoy,      \* since the last disturbance, an event whose bytes hold a
              \* sync word was sent
  noise       \* disturbances so far

vars == <<parser, received, sent, clean, missed, decoy, noise>>

Between(p) == p.state \in {"s0", "s1"}

Init ==
  /\ parser = Idle
  /\ received = {} /\ sent = {} /\ clean = TRUE
  /\ missed = 0 /\ decoy = FALSE /\ noise = 0

\* The parser after each of the bytes, from p on.
Parsed(p, bytes) ==
  LET after[i \in 0..Len(bytes)] ==
        IF i = 0 THEN p ELSE parse(after[i - 1], bytes[i])
  IN after

\* receiver_task() reads the bytes one at a time.
receiver_task(bytes) ==
  LET after == Parsed(parser, bytes)
  IN /\ parser' = after[Len(bytes)]
     /\ received' = UNION {Completed(after[i - 1], bytes[i]) : i \in DOMAIN bytes}
     /\ clean' = Between(parser)

\* What arrives of an event.
Sent(e) ==
  IF e.type = "mouse"
  THEN [e EXCEPT !.dx = clamp(@, -32768, 32767), !.dy = clamp(@, -32768, 32767),
                 !.wheel = clamp(@, -128, 127)]
  ELSE e

HasSync(s) == \E i \in 1..Len(s) - 1 : s[i] = Sync0 /\ s[i + 1] = Sync1

\* A whole frame arrives.
Frame(e) ==
  /\ receiver_task(FrameOf[e])
  /\ sent' = {Sent(e)}
  /\ missed' = IF Sent(e) \in received' THEN 0 ELSE clamp(missed + 1, 0, MaxMissed)
  /\ decoy' = (decoy \/ HasSync(Tail(FrameOf[e])))
  /\ UNCHANGED noise

\* A stray byte, or a part of a frame.
Noise(bytes) ==
  /\ noise < MaxNoise
  /\ noise' = noise + 1
  /\ receiver_task(bytes)
  /\ sent' = {}
  /\ missed' = 0
  /\ decoy' = FALSE

Stray == \E b \in NoiseBytes : Noise(<<b>>)

\* The beginning of a frame is lost, or its end.
Truncated ==
  \E e \in Events : LET f == FrameOf[e] IN
    \E i \in 1..Len(f) - 1 : Noise(SubSeq(f, 1, i)) \/ Noise(SubSeq(f, i + 1, Len(f)))

Next == (\E e \in Events : Frame(e)) \/ Stray \/ Truncated

Spec == Init /\ [][Next]_vars

---------------------------------------------------------------------------
(* Properties. *)

\* A frame that begins while the parser is between frames is received, whatever
\* its payload looks like and whatever came before it, and says what the
\* sender's callback was given, clamped to the width of its fields.
CleanFrameIsReceived == clean /\ sent # {} => received = sent

\* After any disturbance the parser is back in step after two frames at most,
\* unless the frames themselves hold sync words.
BackInStep == ~decoy => missed <= 2

===============================================================================
