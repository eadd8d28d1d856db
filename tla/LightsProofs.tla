---------------------------- MODULE LightsProofs ----------------------------
(***************************************************************************)
(* TLAPS proofs about Lights, for any colours, any flash rates and with or *)
(* without a trackball light.                                              *)
(***************************************************************************)
EXTENDS Lights, TLAPS

\* The backlight's thread is about to switch buttons on that it found on: they
\* were asked to be on, or the call that switched them off came in between.
SyncAsked == pc = "sync" => asked \/ raced

IInv == LightsConsistent /\ SyncAsked

\* What blink_mx_led distinguishes of the states of the speaker light.
LEMMA StatusCases ==
  ASSUME NEW s \in States
  PROVE  /\ Status(s) \in 0..2
         /\ Status(s) = 0 => Shows(s) = {Steady(0)}
         /\ Status(s) = 2 => Shows(s) = {Steady(255)}
         /\ Status(s) = 1 => s \in Rates /\ Shows(s) = {Blinking(s), Blinking("default")}
<1>1. CASE s \in {"off", "clear"}
  BY <1>1 DEF Status, Shows
<1>2. CASE s = "solid"
  BY <1>2 DEF Status, Shows
<1>3. CASE s \notin {"off", "clear", "solid"}
  BY <1>3 DEF Status, Shows, States
<1> QED  BY <1>1, <1>2, <1>3

\* The battery light that is off has status 0.
LEMMA StatusOff == Status("off") = 0 /\ "off" \in States
BY DEF Status, States

\* l is an LED file's content.
IsLed(l) == \/ \E n \in 0..255 : l = Steady(n)
            \/ \E t \in Rates \cup {"default"} : l = Blinking(t)

\* What a state shows is something the LED's files can hold.
LEMMA ShowsLed ==
  ASSUME NEW s \in States, NEW x \in Shows(s)
  PROVE  IsLed(x)
BY StatusCases DEF IsLed

\* pre is right about an LED l that the speaker light wrote last.
Cached(pre, l, o) ==
  o = "speaker" => \E t \in States : l \in Shows(t) /\ Status(t) = pre

\* blink_mx_led: the remembered status is that of the state asked for, and right
\* about the LED; an LED that is still the buttons' was not written at all.
LEMMA SpeakerLight ==
  ASSUME NEW s \in States, NEW pre, NEW l, NEW o \in {"speaker", "buttons"},
         Cached(pre, l, o), IsLed(l),
         NEW r \in set_speaker_light_locked(s, pre, l, o)
  PROVE  /\ r.pre = Status(s) /\ Cached(r.pre, r.led, r.owner) /\ IsLed(r.led)
         /\ r.owner \in {"speaker", "buttons"}
         /\ r.owner = "buttons" => o = "buttons" /\ r.led = l
         /\ Status(s) # pre => r.led \in Shows(s)
<1>1. CASE Status(s) = pre
  <2>1. r = [pre |-> pre, led |-> l, owner |-> o]
    BY <1>1 DEF set_speaker_light_locked
  <2> QED  BY <2>1, <1>1
<1>2. CASE Status(s) # pre
  <2>1. PICK x \in Shows(s) : r = [pre |-> Status(s), led |-> x, owner |-> "speaker"]
    BY <1>2 DEF set_speaker_light_locked
  <2>2. IsLed(x)
    BY ShowsLed
  <2> QED  BY <2>1, <2>2 DEF Cached
<1> QED  BY <1>1, <1>2

\* handle_speaker_battery_locked: whatever it found, the LED and its cache are
\* left in agreement with the battery light or else with the notification.
LEMMA SpeakerBattery ==
  ASSUME IInv, NEW bat \in States, NEW note \in States,
         handle_speaker_battery_locked(bat, note)
  PROVE  LET s == IF is_lit(bat) THEN bat ELSE note IN
         /\ preStatus' = Status(s) /\ Cached(preStatus', led', owner') /\ IsLed(led')
         /\ owner' \in {"speaker", "buttons"}
         /\ owner' = "buttons" => owner = "buttons" /\ led' = led
         /\ bat = "off" /\ Status(note) # 0 => led' \in Shows(note)
<1>0. Cached(preStatus, led, owner) /\ IsLed(led) /\ owner \in {"speaker", "buttons"}
  BY DEF IInv, LightsConsistent, TypeOK, LedShowsSpeaker, Cached, IsLed
<1>1. PICK b \in set_speaker_light_locked(bat, preStatus, led, owner) :
        \E n \in IF is_lit(bat) THEN {b}
                 ELSE set_speaker_light_locked(note, b.pre, b.led, b.owner) :
           preStatus' = n.pre /\ led' = n.led /\ owner' = n.owner
  BY DEF handle_speaker_battery_locked
<1>2. /\ b.pre = Status(bat) /\ Cached(b.pre, b.led, b.owner) /\ IsLed(b.led)
      /\ b.owner \in {"speaker", "buttons"}
      /\ b.owner = "buttons" => owner = "buttons" /\ b.led = led
  BY <1>0, SpeakerLight
<1>3. CASE is_lit(bat)
  <2>1. preStatus' = b.pre /\ led' = b.led /\ owner' = b.owner
    BY <1>1, <1>3
  <2> QED  BY <2>1, <1>2, <1>3 DEF is_lit
<1>4. CASE ~is_lit(bat)
  <2>1. PICK n \in set_speaker_light_locked(note, b.pre, b.led, b.owner) :
          preStatus' = n.pre /\ led' = n.led /\ owner' = n.owner
    BY <1>1, <1>4
  <2>2. /\ n.pre = Status(note) /\ Cached(n.pre, n.led, n.owner) /\ IsLed(n.led)
        /\ n.owner \in {"speaker", "buttons"}
        /\ n.owner = "buttons" => b.owner = "buttons" /\ n.led = b.led
        /\ Status(note) # b.pre => n.led \in Shows(note)
    BY <1>2, SpeakerLight
  <2> QED  BY <2>1, <2>2, <1>2, <1>4, StatusOff DEF is_lit
<1> QED  BY <1>3, <1>4

\* A colour's brightness is an index of BRIGHTNESS_MAP.
LEMMA BrightnessRange == ASSUME NEW c \in Colors PROVE rgb_to_brightness(c) \in 0..255
<1>1. c[1] \in 0..255 /\ c[2] \in 0..255 /\ c[3] \in 0..255
  BY ColorsAssumption
<1>2. ASSUME NEW x \in 0..255, NEW y \in 0..255, NEW z \in 0..255
      PROVE  (77 * x + 150 * y + 29 * z) \div 256 \in 0..255
  OBVIOUS
<1> QED  BY <1>1, <1>2 DEF rgb_to_brightness

\* The lights are consistent at boot.
LEMMA InitIInv == Init => IInv
<1> SUFFICES ASSUME Init PROVE IInv
  OBVIOUS
<1>1. TypeOK
  <2>1. 0 \in 0..255 /\ led = Steady(0) /\ "off" \in States
    BY DEF Init, States
  <2>2. \E n \in 0..255 : led = Steady(n)
    BY <2>1, Zenon
  <2>3. g_backlight \in 0..255 /\ preStatus \in 0..2
    BY DEF Init
  <2>4. g_buttons \in BOOLEAN /\ asked \in BOOLEAN /\ raced \in BOOLEAN
    BY Zenon DEF Init
  <2>5. /\ g_battery \in States /\ g_notification \in States
        /\ g_attention \in Attentions \cup {0} /\ trackball \in Attentions \cup {0}
        /\ pc \in {"idle", "test", "sync"} /\ owner \in {"speaker", "buttons"}
    BY <2>1 DEF Init
  <2> QED  BY <2>2, <2>3, <2>4, <2>5, Zenon DEF TypeOK
<1>2. LedShowsSpeaker
  <2>1. Steady(0) \in Shows("off")
    BY StatusOff, StatusCases
  <2> QED  BY <2>1, StatusOff DEF Init, LedShowsSpeaker, is_lit
<1>3. ButtonsFollowBacklight /\ ButtonsAsAsked /\ TrackballFollows /\ SyncAsked
  BY DEF Init, ButtonsFollowBacklight, ButtonsAsAsked, TrackballFollows, TrackballMode,
     SyncAsked
<1> QED  BY <1>1, <1>2, <1>3 DEF IInv, LightsConsistent

\* The trackball's mode is a value that may be written to the jogball file.
LEMMA TrackballRange ==
  ASSUME NEW a \in Attentions \cup {0}, NEW b
  PROVE  TrackballMode(a, b) \in Attentions \cup {0}
BY DEF TrackballMode

\* handle_trackball_light_locked leaves the jogball file as the arguments say.
LEMMA TrackballLight ==
  ASSUME IInv, NEW a \in Attentions \cup {0}, NEW b, handle_trackball_light_locked(a, b)
  PROVE  /\ trackball' \in Attentions \cup {0}
         /\ g_haveTrackballLight => trackball' = TrackballMode(a, b)
BY TrackballRange
   DEF handle_trackball_light_locked, IInv, LightsConsistent, TypeOK

\* A call of the battery or of the notification light keeps the lights consistent.
LEMMA SpeakerIInv ==
  ASSUME IInv, NEW s \in States, set_light_battery(s) \/ set_light_notifications(s)
  PROVE  IInv'
<1>0. TypeOK /\ ButtonsFollowBacklight /\ ButtonsAsAsked /\ TrackballFollows /\ SyncAsked
  BY DEF IInv, LightsConsistent
<1>1. /\ g_battery' \in States /\ g_notification' \in States
      /\ handle_speaker_battery_locked(g_battery', g_notification')
      /\ UNCHANGED <<g_backlight, g_buttons, g_attention, pc, asked, raced>>
  BY <1>0 DEF set_light_battery, set_light_notifications, TypeOK,
     handle_speaker_battery_locked
<1>2. /\ trackball' \in Attentions \cup {0}
      /\ g_haveTrackballLight => trackball' = TrackballMode(g_attention, g_backlight)
  BY <1>0, TrackballLight
     DEF set_light_battery, set_light_notifications, TypeOK, TrackballFollows
<1>3. /\ preStatus' = Status(IF is_lit(g_battery') THEN g_battery' ELSE g_notification')
      /\ Cached(preStatus', led', owner') /\ IsLed(led')
      /\ owner' \in {"speaker", "buttons"}
      /\ owner' = "buttons" => owner = "buttons" /\ led' = led
  BY <1>1, SpeakerBattery
<1>4. preStatus' \in 0..2
  BY <1>1, <1>3, StatusCases
<1>5. TypeOK'
  BY <1>0, <1>1, <1>2, <1>3, <1>4 DEF TypeOK, IsLed
<1>6. LedShowsSpeaker'
  BY <1>1, <1>3 DEF LedShowsSpeaker, Cached
<1>7. ButtonsFollowBacklight'
  BY <1>0, <1>1, <1>3 DEF ButtonsFollowBacklight
<1>8. ButtonsAsAsked' /\ TrackballFollows' /\ SyncAsked'
  BY <1>0, <1>1, <1>2 DEF ButtonsAsAsked, TrackballFollows, SyncAsked
<1> QED  BY <1>5, <1>6, <1>7, <1>8 DEF IInv, LightsConsistent

\* A write of the buttons, asked for or repeated by the backlight, keeps the
\* lights consistent.
LEMMA ButtonsIInv ==
  ASSUME IInv, SyncButtons \/ \E on \in BOOLEAN : set_light_buttons(on)
  PROVE  IInv'
<1>0. TypeOK /\ LedShowsSpeaker /\ ButtonsFollowBacklight /\ ButtonsAsAsked
      /\ TrackballFollows /\ SyncAsked
  BY DEF IInv, LightsConsistent
<1>1. PICK on \in BOOLEAN : do_set_light_buttons(on)
  BY DEF SyncButtons, set_light_buttons
<1>2. /\ g_buttons' = on /\ led' = Steady(IF on THEN g_backlight ELSE 0)
      /\ owner' = "buttons"
      /\ UNCHANGED <<g_backlight, g_battery, g_notification, g_attention, preStatus,
                     trackball>>
  BY <1>1 DEF do_set_light_buttons
<1>3. \E n \in 0..255 : led' = Steady(n)
  BY <1>0, <1>2 DEF TypeOK
<1>4. pc' \in {"idle", "test", "sync"} /\ asked' \in BOOLEAN /\ raced' \in BOOLEAN
  BY <1>0 DEF TypeOK, SyncButtons, set_light_buttons
<1>5. TypeOK'
  BY <1>0, <1>2, <1>3, <1>4 DEF TypeOK
<1>6. LedShowsSpeaker' /\ ButtonsFollowBacklight' /\ TrackballFollows'
  BY <1>0, <1>2 DEF LedShowsSpeaker, ButtonsFollowBacklight, TrackballFollows
<1>7. ButtonsAsAsked' /\ SyncAsked'
  <2>1. CASE SyncButtons
    BY <1>0, <2>1 DEF SyncButtons, do_set_light_buttons, ButtonsAsAsked, SyncAsked, TypeOK
  <2>2. ASSUME NEW b \in BOOLEAN, set_light_buttons(b) PROVE ButtonsAsAsked' /\ SyncAsked'
    BY <1>0, <2>2 DEF set_light_buttons, do_set_light_buttons, ButtonsAsAsked, SyncAsked
  <2> QED  BY <2>1, <2>2
<1> QED  BY <1>5, <1>6, <1>7 DEF IInv, LightsConsistent

\* Every step preserves the inductive invariant.
LEMMA NextIInv == IInv /\ [Next]_vars => IInv'
<1> SUFFICES ASSUME IInv, [Next]_vars PROVE IInv'
  OBVIOUS
<1>0. TypeOK /\ LedShowsSpeaker /\ ButtonsFollowBacklight /\ ButtonsAsAsked
      /\ TrackballFollows /\ SyncAsked
  BY DEF IInv, LightsConsistent
<1>1. ASSUME NEW c \in Colors, set_light_backlight(c) PROVE IInv'
  <2>1. g_backlight' \in 0..255 /\ g_backlight' = rgb_to_brightness(c)
    BY <1>1, BrightnessRange DEF set_light_backlight
  <2>2. /\ pc' = "test" /\ handle_trackball_light_locked(g_attention, g_backlight')
        /\ UNCHANGED <<g_buttons, g_battery, g_notification, g_attention, preStatus, led,
                       owner, asked, raced>>
    BY <1>1, <2>1 DEF set_light_backlight
  <2>3. /\ trackball' \in Attentions \cup {0}
        /\ g_haveTrackballLight => trackball' = TrackballMode(g_attention, g_backlight')
    BY <1>0, <2>2, TrackballLight DEF TypeOK
  <2>4. TypeOK'
    BY <1>0, <2>1, <2>2, <2>3 DEF TypeOK
  <2>5. LedShowsSpeaker'
    BY <1>0, <2>2 DEF LedShowsSpeaker
  <2>6. ButtonsFollowBacklight' /\ ButtonsAsAsked' /\ TrackballFollows' /\ SyncAsked'
    BY <1>0, <2>2, <2>3
       DEF ButtonsFollowBacklight, ButtonsAsAsked, TrackballFollows, SyncAsked
  <2> QED  BY <2>4, <2>5, <2>6 DEF IInv, LightsConsistent
<1>2. CASE TestButtons
  <2>1. /\ pc = "test" /\ pc' = IF g_buttons THEN "sync" ELSE "idle"
        /\ UNCHANGED <<g_backlight, g_buttons, g_battery, g_notification, g_attention,
                       preStatus, led, trackball, owner, asked, raced>>
    BY <1>2 DEF TestButtons
  <2>2. TypeOK'
    BY <1>0, <2>1 DEF TypeOK
  <2>3. LedShowsSpeaker'
    BY <1>0, <2>1 DEF LedShowsSpeaker
  <2>4. ButtonsFollowBacklight' /\ ButtonsAsAsked' /\ TrackballFollows' /\ SyncAsked'
    BY <1>0, <2>1
       DEF ButtonsFollowBacklight, ButtonsAsAsked, TrackballFollows, SyncAsked, TypeOK
  <2> QED  BY <2>2, <2>3, <2>4 DEF IInv, LightsConsistent
<1>3. ASSUME NEW a \in Attentions \cup {0, g_attention}, set_light_attention(a) PROVE IInv'
  <2>1. a \in Attentions \cup {0}
    BY <1>0 DEF TypeOK
  <2>2. /\ g_attention' = a /\ handle_trackball_light_locked(a, g_backlight)
        /\ UNCHANGED <<g_backlight, g_buttons, g_battery, g_notification, preStatus, led,
                       pc, owner, asked, raced>>
    BY <1>3 DEF set_light_attention
  <2>3. /\ trackball' \in Attentions \cup {0}
        /\ g_haveTrackballLight => trackball' = TrackballMode(a, g_backlight)
    BY <2>1, <2>2, TrackballLight
  <2>4. TypeOK'
    BY <1>0, <2>1, <2>2, <2>3 DEF TypeOK
  <2>5. LedShowsSpeaker'
    BY <1>0, <2>2 DEF LedShowsSpeaker
  <2>6. ButtonsFollowBacklight' /\ ButtonsAsAsked' /\ TrackballFollows' /\ SyncAsked'
    BY <1>0, <2>2, <2>3
       DEF ButtonsFollowBacklight, ButtonsAsAsked, TrackballFollows, SyncAsked
  <2> QED  BY <2>4, <2>5, <2>6 DEF IInv, LightsConsistent
<1>4. CASE UNCHANGED vars
  BY <1>0, <1>4 DEF vars, IInv, LightsConsistent, TypeOK, LedShowsSpeaker,
     ButtonsFollowBacklight, ButtonsAsAsked, TrackballFollows, SyncAsked
<1> QED  BY <1>1, <1>2, <1>3, <1>4, SpeakerIInv, ButtonsIInv DEF Next

\* The lights HAL shows what was asked for last: the shared LED and the status
\* that blink_mx_led remembers of it agree with the battery or the notification
\* light unless the buttons have the LED, the buttons have the brightness of the
\* screen, and are as asked but for the one unlocked test in set_light_backlight.
THEOREM LightsAlwaysConsistent == Spec => []LightsConsistent
<1>1. IInv => LightsConsistent
  BY DEF IInv
<1> QED  BY InitIInv, NextIInv, <1>1, PTL DEF Spec

\* With the battery light off a call that changes the notification light to a lit one
\* is never swallowed by the cached status (set_speaker_light_locked), even if the
\* buttons have overwritten the LED since.
THEOREM NotificationAlwaysTakesLed == Spec => NotificationTakesLed
<1>1. IInv /\ [Next]_vars =>
        [(g_notification' # g_notification /\ g_battery = "off" /\ Status(g_notification') # 0)
           => led' \in Shows(g_notification')]_vars
  <2> SUFFICES ASSUME IInv, Next, g_notification' # g_notification, g_battery = "off",
                      Status(g_notification') # 0
               PROVE  led' \in Shows(g_notification')
    OBVIOUS
  <2>1. PICK s \in States : set_light_notifications(s)
    BY DEF Next, set_light_backlight, TestButtons, SyncButtons, set_light_buttons,
       do_set_light_buttons, set_light_battery, set_light_attention
  <2>2. g_notification' = s /\ handle_speaker_battery_locked("off", s)
    BY <2>1 DEF set_light_notifications
  <2> QED  BY <2>2, StatusOff, SpeakerBattery
<1> QED  BY InitIInv, NextIInv, <1>1, PTL DEF Spec, NotificationTakesLed
=============================================================================
