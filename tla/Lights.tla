------------------------------- MODULE Lights -------------------------------
(***************************************************************************)
(* liblights/lights.c: the lights HAL.  The system server calls set_light  *)
(* of different lights from different threads, of one light from one at a  *)
(* time.  The notification light and the backlight of the buttons are the  *)
(* same LED (mx-led): blink_mx_led remembers in preStatus what it wrote    *)
(* last, the buttons write without telling it.                             *)
(*                                                                         *)
(* A critical section of g_lock is one action.  A light_state_t is an RGB  *)
(* triple for the backlight and, for the notification LED, one of          *)
(*   "off"    no colour,                                                   *)
(*   "clear"  a colour with alpha 0,                                       *)
(*   "solid"  a colour, not flashing,                                      *)
(*   a rate   a colour, LIGHT_FLASH_TIMED with two positive times.         *)
(***************************************************************************)
EXTENDS Naturals

CONSTANTS Colors,          \* colours of the backlight: triples over 0..255
          Rates,           \* pairs of flash times
          Attentions,      \* flashOnMS of the attention light, 7 among them
          g_haveTrackballLight

ASSUME ColorsAssumption == Colors \subseteq (0..255) \X (0..255) \X (0..255)
ASSUME RatesAssumption == {"off", "clear", "solid", "default"} \cap Rates = {}
ASSUME AttentionsAssumption == Attentions \subseteq Nat
ASSUME TrackballAssumption == g_haveTrackballLight \in BOOLEAN

States == {"off", "clear", "solid"} \union Rates

VARIABLES
  g_backlight, g_buttons, g_battery, g_notification, g_attention,
  preStatus,   \* static of blink_mx_led: 0 off, 1 blink, 2 no blink
  led,         \* mx-led: "timer" with a rate, or "none" with a brightness
  trackball,   \* the jogball file
  pc,          \* backlight thread: "idle", "test" or "sync" in set_light_backlight
  owner,       \* history: whether "speaker" or "buttons" wrote the LED last
  asked,       \* history: the last state set_light_buttons was called with
  raced        \* history: did that call fall between test and sync

vars == <<g_backlight, g_buttons, g_battery, g_notification, g_attention, preStatus,
          led, trackball, pc, owner, asked, raced>>

Steady(level) == [brightness |-> level]
Blinking(rate) == [timer |-> rate]

Init ==
  /\ g_backlight = 255 /\ g_buttons = FALSE
  /\ g_battery = "off" /\ g_notification = "off" /\ g_attention = 0
  /\ preStatus = 0 /\ led = Steady(0) /\ trackball = 0
  /\ pc = "idle" /\ owner = "speaker" /\ asked = FALSE /\ raced = FALSE

(***************************************************************************)
(* Helpers.                                                                *)
(***************************************************************************)

rgb_to_brightness(c) == (77 * c[1] + 150 * c[2] + 29 * c[3]) \div 256

is_lit(s) == s # "off"

\* nowStatus of blink_mx_led for what set_speaker_light_locked passes on.
Status(s) == CASE s \in {"off", "clear"} -> 0 [] s = "solid" -> 2 [] OTHER -> 1

\* What the LED shows of state s.  A flashing LED keeps the default rate if the
\* timer's files do not appear within ten retries.
Shows(s) == CASE Status(s) = 0 -> {Steady(0)}
              [] Status(s) = 2 -> {Steady(255)}
              [] OTHER -> {Blinking(s), Blinking("default")}

\* Faulty: the cache is forgotten.
set_speaker_light_locked_butForgets(s, pre, l, o) ==
  IF Status(s) = pre THEN {[pre |-> pre, led |-> l, owner |-> o]}
  ELSE {[pre |-> pre, led |-> x, owner |-> "speaker"] : x \in Shows(s)}

\* set_speaker_light_locked and blink_mx_led: nothing is written if the LED's
\* status is the remembered one.  The possible results for a cache pre and LED l.
set_speaker_light_locked(s, pre, l, o) ==
  IF Status(s) = pre THEN {[pre |-> pre, led |-> l, owner |-> o]}
  ELSE {[pre |-> Status(s), led |-> x, owner |-> "speaker"] : x \in Shows(s)}

\* Faulty: without the workaround.
handle_speaker_battery_locked_butOnce(bat, note) ==
  \E b \in set_speaker_light_locked(IF is_lit(bat) THEN bat ELSE note, preStatus, led, owner) :
     preStatus' = b.pre /\ led' = b.led /\ owner' = b.owner

\* handle_speaker_battery_locked: the battery light first; a battery light that
\* is off is written all the same, before the notification.
handle_speaker_battery_locked(bat, note) ==
  \E b \in set_speaker_light_locked(bat, preStatus, led, owner) :
  \E n \in IF is_lit(bat) THEN {b}
           ELSE set_speaker_light_locked(note, b.pre, b.led, b.owner) :
     preStatus' = n.pre /\ led' = n.led /\ owner' = n.owner

\* handle_trackball_light_locked.  g_trackball is never assigned, so the file
\* is written every time.
TrackballMode(attention, backlight) ==
  IF attention = 7 /\ backlight # 0 THEN 0 ELSE attention

handle_trackball_light_locked(attention, backlight) ==
  trackball' = IF g_haveTrackballLight THEN TrackballMode(attention, backlight)
                                       ELSE trackball

(***************************************************************************)
(* The lights.                                                             *)
(***************************************************************************)

\* set_light_backlight, the critical section (LCD_FILE gets the brightness
\* through a table).
set_light_backlight(c) ==
  /\ pc = "idle"
  /\ g_backlight' = rgb_to_brightness(c)
  /\ handle_trackball_light_locked(g_attention, rgb_to_brightness(c))
  /\ pc' = "test"
  /\ UNCHANGED <<g_buttons, g_battery, g_notification, g_attention, preStatus, led,
                 owner, asked, raced>>

\* ... then, without the lock, g_buttons is tested ...
TestButtons ==
  /\ pc = "test"
  /\ pc' = IF g_buttons THEN "sync" ELSE "idle"
  /\ UNCHANGED <<g_backlight, g_buttons, g_battery, g_notification, g_attention,
                 preStatus, led, trackball, owner, asked, raced>>

\* do_set_light_buttons: the LED is taken from the notification light.
do_set_light_buttons(on) ==
  /\ g_buttons' = on
  /\ led' = Steady(IF on THEN g_backlight ELSE 0)
  /\ owner' = "buttons"
  /\ UNCHANGED <<g_backlight, g_battery, g_notification, g_attention, preStatus,
                 trackball>>

\* ... and buttons that were on are switched on again with the new brightness.
SyncButtons ==
  /\ pc = "sync"
  /\ do_set_light_buttons(TRUE)
  /\ pc' = "idle"
  /\ UNCHANGED <<asked, raced>>

set_light_buttons(on) ==
  /\ do_set_light_buttons(on)
  /\ asked' = on
  /\ raced' = (pc = "sync")
  /\ UNCHANGED pc

\* set_light_battery.  With a trackball light the battery light is written once
\* more before, which changes nothing: the second time its status is cached.  In this
\* version open_lights refuses the battery light (lights.c:490): the action is what
\* the module can do once that is changed, and the program's behaviours are those
\* without it.
set_light_battery(s) ==
  /\ g_battery' = s
  /\ handle_speaker_battery_locked(s, g_notification)
  /\ UNCHANGED <<g_backlight, g_buttons, g_notification, g_attention, trackball, pc,
                 asked, raced>>

set_light_notifications(s) ==
  /\ g_notification' = s
  /\ handle_trackball_light_locked(g_attention, g_backlight)
  /\ handle_speaker_battery_locked(g_battery, s)
  /\ UNCHANGED <<g_backlight, g_buttons, g_battery, g_attention, pc, asked, raced>>

\* set_light_attention: flashOnMS of LIGHT_FLASH_HARDWARE, or 0; another mode
\* leaves the value.
set_light_attention(a) ==
  /\ g_attention' = a
  /\ handle_trackball_light_locked(a, g_backlight)
  /\ UNCHANGED <<g_backlight, g_buttons, g_battery, g_notification, preStatus, led,
                 pc, owner, asked, raced>>

Next ==
  \/ \E c \in Colors : set_light_backlight(c)
  \/ TestButtons \/ SyncButtons
  \/ \E on \in BOOLEAN : set_light_buttons(on)
  \/ \E s \in States : set_light_battery(s) \/ set_light_notifications(s)
  \/ \E a \in Attentions \union {0, g_attention} : set_light_attention(a)

Spec == Init /\ [][Next]_vars

(***************************************************************************)
(* Properties.                                                             *)
(***************************************************************************)

\* Types; a brightness is an index of BRIGHTNESS_MAP.
TypeOK ==
  /\ g_backlight \in 0..255 /\ g_buttons \in BOOLEAN
  /\ g_battery \in States /\ g_notification \in States
  /\ g_attention \in Attentions \union {0}
  /\ preStatus \in 0..2
  /\ \/ \E n \in 0..255 : led = Steady(n)
     \/ \E t \in Rates \union {"default"} : led = Blinking(t)
  /\ trackball \in Attentions \union {0}
  /\ pc \in {"idle", "test", "sync"}
  /\ owner \in {"speaker", "buttons"} /\ asked \in BOOLEAN /\ raced \in BOOLEAN

\* preStatus is right about an LED that the buttons have not taken, and that LED has
\* the status (off, steady or blinking) of the battery light, or of the notification
\* if the battery light is off.  Its rate may be an older one: a changed rate of a
\* lit battery light is not written (lights.c:213).
LedShowsSpeaker ==
  LET s == IF is_lit(g_battery) THEN g_battery ELSE g_notification IN
  owner = "speaker" => \E t \in States : /\ led \in Shows(t)
                                         /\ Status(t) = preStatus
                                         /\ Status(t) = Status(s)

\* While the battery light is off every call that changes the notification light to
\* a lit one takes the LED back from the buttons and sets its rate, too: the write of
\* the dark battery light, called a workaround in the code, clears the cached status.
NotificationTakesLed ==
  [][(g_notification' # g_notification /\ g_battery = "off" /\ Status(g_notification') # 0)
       => led' \in Shows(g_notification')]_vars

\* Once a call of the backlight has returned, buttons that are on and own the
\* LED have the brightness of the screen, however the calls overlapped.
ButtonsFollowBacklight ==
  pc = "idle" /\ g_buttons /\ owner = "buttons" => led = Steady(g_backlight)

\* The buttons are as they were last asked to be, unless that call came between
\* the unlocked test of g_buttons and the write of the backlight's thread.
ButtonsAsAsked == g_buttons = asked \/ raced

\* The trackball light breathes for an attention request only in the dark.
TrackballFollows ==
  g_haveTrackballLight => trackball = TrackballMode(g_attention, g_backlight)

\* The lights show what was asked last, although two of them share an LED and the
\* cached status is not the only way to it.
LightsConsistent == TypeOK /\ LedShowsSpeaker /\ ButtonsFollowBacklight /\ ButtonsAsAsked
    /\ TrackballFollows
=============================================================================
