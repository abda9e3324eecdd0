------------------------------- MODULE Mouse -------------------------------
(***************************************************************************)
(* The PS/2 mouse driver (kernel/mouse.c): the conversation of mouse_init  *)
(* with the controller and the device, interrupts off, and the packets     *)
(* that mouse_on_irq puts together from the bytes.                         *)
(*                                                                         *)
(* The device and the controller are external.  A reply may come after the *)
(* driver has stopped waiting for it, a key may be pressed while the       *)
(* driver polls the port it shares with the keyboard, and a byte of a      *)
(* packet may be lost.  With a byte goes, for the properties alone,        *)
(* whether it belongs to a quiet packet: one with bit 3 in its first byte  *)
(* only, which is how the driver tells a first byte from the others.       *)
(***************************************************************************)
EXTENDS Integers, Sequences, FiniteSetsExt

CONSTANTS
  Deltas,          \* wheel movements
  Moves,           \* movement bytes
  ScanCode,        \* the byte of a key
  FirmwareConfig,  \* the controller's configuration byte before mouse_init
  MaxPackets, MaxLost

ASSUME MouseAssumption ==
  /\ Deltas \subseteq -8 .. 7 /\ Moves \subseteq 0 .. 255
  /\ ScanCode \in 0 .. 255 /\ FirmwareConfig \in 0 .. 255
  /\ MaxPackets \in Nat /\ MaxLost \in Nat

VARIABLES
  device,       \* the mouse: kind, id, last rates, expects a rate, reports
  config,       \* the bits of the controller's configuration byte
  coming,       \* bytes the mouse has sent that have not arrived
  output,       \* bytes in the controller
  step,         \* where mouse_init is in Script; 0: before the configuration
  waiting,      \* it waits for an answer
  mouse_packet, mouse_packet_index, mouse_packet_size, mouse_has_wheel,
  packets_received, wheel_events, wheel_position,
  scrolled,     \* lines the console was asked to scroll down less those up
  disturbed,    \* history: a reply was late, or a key was pressed
  lost,         \* history: bytes lost
  sent,         \* history: the wheel movements of the packets sent
  quiet         \* history: bytes of quiet packets read in a row

mode == <<mouse_packet_size, mouse_has_wheel>>
packet == <<mouse_packet, mouse_packet_index>>
totals == <<packets_received, wheel_events, wheel_position, scrolled>>
faults == <<disturbed, lost>>
mouseVars == <<device, config, coming, output, step, waiting, mode, packet,
               totals, faults, sent, quiet>>

Bits(b) == {i \in 0 .. 7 : (b \div 2^i) % 2 = 1}
Bit3(b) == 3 \in Bits(b)
MouseByte(v, calm) == [value |-> v, calm |-> calm]
Reply(v) == MouseByte(v, FALSE)

ACK == 250
SET_DEFAULTS == 246
ENABLE_REPORTING == 244
SET_SAMPLE_RATE == 243
GET_DEVICE_ID == 242

\* The bytes mouse_init writes to the mouse; Listen writes none and reads the
\* device id.  "skips" counts the steps left out when a byte is not
\* acknowledged: the rate, or the reading of the id.
Tell(b, skips) == [byte |-> b, skips |-> skips]
Listen == Tell(-1, 0)
mouse_set_sample_rate(rate) == <<Tell(SET_SAMPLE_RATE, 1), Tell(rate, 0)>>
mouse_get_device_id == <<Tell(GET_DEVICE_ID, 1), Listen>>

mouse_try_enable_wheel ==
  mouse_set_sample_rate(200) \o mouse_set_sample_rate(100)
    \o mouse_set_sample_rate(80) \o mouse_get_device_id

Script == <<Tell(SET_DEFAULTS, 0)>> \o mouse_try_enable_wheel
            \o <<Tell(ENABLE_REPORTING, 0)>>
Running == Len(Script) + 1

\* Before mouse_init, with the driver's statics as it sets them first.
MouseInit ==
  /\ device \in [kind : {"none", "plain", "wheel"}, id : {0}, rates : {<<>>},
                 wantsRate : {FALSE}, reports : {FALSE}]
  /\ config = Bits(FirmwareConfig)
  /\ coming = <<>> /\ output = <<>>
  /\ step = 0 /\ waiting = FALSE
  /\ mouse_packet = [i \in 0 .. 3 |-> 0] /\ mouse_packet_index = 0
  /\ mouse_packet_size = 3 /\ mouse_has_wheel = FALSE
  /\ packets_received = 0 /\ wheel_events = 0 /\ wheel_position = 0 /\ scrolled = 0
  /\ disturbed = FALSE /\ lost = 0 /\ sent = <<>> /\ quiet = 0

----------------------------------------------------------------------------
(* The mouse and the controller.                                           *)

LastThree(s) == SubSeq(s, IF Len(s) > 3 THEN Len(s) - 2 ELSE 1, Len(s))

\* The mouse after a byte.  A wheel mouse takes the id 3 once it has been set
\* to the rates 200, 100 and 80 in this order.
Told(d, b) ==
  IF d.wantsRate
  THEN LET rates == LastThree(Append(d.rates, b))
       IN  [d EXCEPT !.rates = rates, !.wantsRate = FALSE,
                     !.id = IF d.kind = "wheel" /\ rates = <<200, 100, 80>>
                            THEN 3 ELSE @]
  ELSE [d EXCEPT !.wantsRate = (b = SET_SAMPLE_RATE),
                 !.reports = (b = ENABLE_REPORTING \/ (@ /\ b # SET_DEFAULTS))]

Replies(d, b) ==
  IF d.kind = "none" THEN <<>>
  ELSE <<Reply(ACK)>> \o (IF b = GET_DEVICE_ID /\ ~d.wantsRate
                          THEN <<Reply(d.id)>> ELSE <<>>)

ByteArrives ==
  /\ coming # <<>>
  /\ output' = Append(output, Head(coming))
  /\ coming' = Tail(coming)
  /\ UNCHANGED <<device, config, step, waiting, mode, packet, totals, faults,
                 sent, quiet>>

KeyInterferes ==
  /\ step < Running /\ ~disturbed
  /\ output' = Append(output, Reply(ScanCode))
  /\ disturbed' = TRUE
  /\ UNCHANGED <<device, config, coming, step, waiting, mode, packet, totals,
                 lost, sent, quiet>>

\* The mouse reports a movement; it sends one packet at a time.
Report(x, y, z) ==
  LET rest == <<x, y>> \o (IF device.id = 3 THEN <<z % 256>> ELSE <<>>)
      calm == \A i \in DOMAIN rest : ~Bit3(rest[i])
      bytes == <<8>> \o rest
  IN  /\ device.kind # "none" /\ device.reports /\ step = Running
      /\ Len(sent) < MaxPackets
      /\ coming = <<>> /\ output = <<>>
      /\ coming' = [i \in DOMAIN bytes |-> MouseByte(bytes[i], calm)]
      /\ sent' = Append(sent, IF device.id = 3 THEN z ELSE 0)
      /\ UNCHANGED <<device, config, output, step, waiting, mode, packet,
                     totals, faults, quiet>>

ByteLost ==
  /\ step = Running /\ coming # <<>> /\ lost < MaxLost
  /\ coming' = Tail(coming)
  /\ lost' = lost + 1
  /\ quiet' = 0
  /\ UNCHANGED <<device, config, output, step, waiting, mode, packet, totals,
                 disturbed, sent>>

----------------------------------------------------------------------------
(* mouse_init.                                                             *)

\* The configuration is read, gets the bit of the mouse's interrupt, loses the
\* bit that turns the mouse off, and is written back.
Configure ==
  /\ step = 0
  /\ LET bytes == Append(output, Reply(FirmwareConfig))
     IN  /\ config' = (Bits(Head(bytes).value) \cup {1}) \ {5}
         /\ output' = Tail(bytes)
  /\ step' = 1
  /\ UNCHANGED <<device, coming, waiting, mode, packet, totals, faults, sent, quiet>>

mouse_write ==
  /\ step \in DOMAIN Script /\ ~waiting
  /\ LET b == Script[step].byte
     IN  /\ device' = Told(device, b)
         /\ coming' = coming \o Replies(device, b)
  /\ waiting' = TRUE
  /\ UNCHANGED <<config, output, step, mode, packet, totals, faults, sent, quiet>>

\* What ps2_read_data has returned decides how mouse_init goes on.
Proceed(answer) ==
  /\ step' = step + 1 + (IF answer = ACK THEN 0 ELSE Script[step].skips)
  /\ waiting' = (Script[step].byte = GET_DEVICE_ID /\ answer = ACK)
  /\ IF Script[step] = Listen
     THEN /\ mouse_has_wheel' = (answer = 3)
          /\ mouse_packet_size' = IF answer = 3 THEN 4 ELSE 3
     ELSE UNCHANGED mode

HearsReply ==
  /\ waiting /\ output # <<>>
  /\ Proceed(Head(output).value)
  /\ output' = Tail(output)
  /\ UNCHANGED <<device, config, coming, packet, totals, faults, sent, quiet>>

\* ps2_wait_output_full gives up; with no mouse this is no disturbance.
HearsNothing ==
  /\ waiting /\ output = <<>>
  /\ Proceed(0)
  /\ disturbed' = (disturbed \/ device.kind # "none")
  /\ UNCHANGED <<device, config, coming, output, packet, totals, lost, sent, quiet>>

----------------------------------------------------------------------------
(* mouse_on_irq.                                                           *)

mouse_decode_wheel_Mutant(raw) == raw % 16

mouse_decode_wheel(raw) ==
  LET value == raw % 16
  IN  IF Bit3(value) THEN value - 16 ELSE value

Sign(n) == IF n > 0 THEN 1 ELSE IF n < 0 THEN -1 ELSE 0

\* mouse_handle_packet, with the bytes it finds in mouse_packet.
mouse_handle_packet(bytes) ==
  LET wheel == IF Bit3(bytes[0]) /\ mouse_has_wheel /\ mouse_packet_size >= 4
               THEN mouse_decode_wheel(bytes[3]) ELSE 0
  IN  /\ packets_received' = packets_received + 1
      /\ wheel_position' = wheel_position + wheel
      /\ wheel_events' = wheel_events + (IF wheel = 0 THEN 0 ELSE 1)
      /\ scrolled' = scrolled + Sign(wheel)

Dropped_Mutant(data) == FALSE

\* The byte cannot be the first of a packet.
Dropped(data) == mouse_packet_index = 0 /\ ~Bit3(data)

Stores(data) ==
  LET index == mouse_packet_index + 1
  IN  /\ mouse_packet' = [mouse_packet EXCEPT ![mouse_packet_index] = data]
      /\ IF index >= mouse_packet_size
         THEN mouse_packet_index' = 0 /\ mouse_handle_packet(mouse_packet')
         ELSE mouse_packet_index' = index /\ UNCHANGED totals

mouse_on_irq ==
  /\ step = Running /\ output # <<>>
  /\ output' = Tail(output)
  /\ IF Dropped(Head(output).value) THEN UNCHANGED <<packet, totals>>
     ELSE Stores(Head(output).value)
  /\ quiet' = IF Head(output).calm THEN quiet + 1 ELSE 0
  /\ UNCHANGED <<device, config, coming, step, waiting, mode, faults, sent>>

MouseNext ==
  \/ ByteArrives \/ KeyInterferes \/ ByteLost
  \/ \E x, y \in Moves, z \in Deltas : Report(x, y, z)
  \/ Configure \/ mouse_write \/ HearsReply \/ HearsNothing
  \/ mouse_on_irq

MouseSpec == MouseInit /\ [][MouseNext]_mouseVars

----------------------------------------------------------------------------
MouseTypeOK ==
  /\ config \subseteq 0 .. 7
  /\ step \in 0 .. Running /\ waiting \in BOOLEAN
  /\ mouse_packet \in [0 .. 3 -> 0 .. 255]
  /\ mouse_packet_size \in {3, 4} /\ mouse_packet_index \in 0 .. mouse_packet_size - 1
  /\ wheel_position \in Int /\ scrolled \in Int

AllRead == coming = <<>> /\ output = <<>>
PacketLength == IF device.id = 3 THEN 4 ELSE 3
SumOver(f(_)) == FoldSet(LAMBDA i, n : f(i) + n, 0, DOMAIN sent)

\* When every reply came in time, no key was pressed meanwhile and no byte was
\* lost, mouse_init leaves the driver with the packet length the mouse uses and
\* the other bits of the configuration as they were, and each wheel movement
\* reported is counted once, with its sign, by mouse_on_irq.
WheelExact ==
  /\ MouseTypeOK
  /\ step = Running /\ ~disturbed /\ lost = 0 =>
       /\ device.kind = "wheel" <=> mouse_has_wheel
       /\ device.kind # "none" => device.reports /\ mouse_packet_size = PacketLength
       /\ config = (Bits(FirmwareConfig) \cup {1}) \ {5}
       /\ AllRead =>
            /\ packets_received = Len(sent)
            /\ wheel_position = SumOver(LAMBDA i : sent[i])
            /\ wheel_events = SumOver(LAMBDA i : Sign(sent[i]) * Sign(sent[i]))
            /\ scrolled = SumOver(LAMBDA i : Sign(sent[i]))

\* Lost bytes and late replies put the driver out of step with the packets, but
\* not for good: while it uses the packet length of the mouse, the bytes of two
\* quiet packets less two bring it back, whatever was lost before.
FramingRecovers ==
  AllRead /\ quiet >= 2 * (PacketLength - 1) /\ mouse_packet_size = PacketLength
    => mouse_packet_index = 0
============================================================================
