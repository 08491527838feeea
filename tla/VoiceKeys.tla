----------------------------- MODULE VoiceKeys -----------------------------
(***************************************************************************)
(* How a key switches the voice mode (voice_modes.c).  The key poller      *)
(* samples the keyboard; TeamSpeak reports the hotkeys that are bound in   *)
(* its own settings to the callback thread (ts3_entry.c).  When the player *)
(* has bound the same key in both places, the event tells the poller by a  *)
(* request flag to leave the press alone.  The key here is the toggle key, *)
(* the one that does not mean the same when it is answered twice.          *)
(*                                                                         *)
(* A poll is as many steps as it has accesses to what others write: the    *)
(* reset flag, the notify flag, and the key, which it asks twice           *)
(* (GetAsyncKeyState, GetKeyState).  Both answers are taken to be the      *)
(* key's state at that moment.                                             *)
(*                                                                         *)
(* vkMode   g_currentMode                                                  *)
(* vkKey    the key: down, and the number of the press                     *)
(* vkAsk    the request flags of other threads: reset, notify              *)
(* vkPoll   the poller's own state (armed, polls of suppression left),     *)
(*          where it is, what it has read: the key and the mode; told: the *)
(*          presses whose event had run when it last took the flag         *)
(* vkEvent  the callback thread in ts3plugin_onHotkeyEvent; done: the      *)
(*          presses whose event has told the poller                        *)
(* vkBy     history: how the poller has answered each press                *)
(* vkSwaps, vkWon  history: changes of the mode, callers told "changed"    *)
(***************************************************************************)
EXTENDS Naturals

CONSTANTS
  VkBound,             \* the key is bound in TeamSpeak too
  VkSuppress,          \* VOICE_POLL_SUPPRESS_MS in polls
  VkPresses,           \* bound: presses
  VkResets             \* bound: resets of the key tracking

VkAssumption ==
  VkBound \in BOOLEAN /\ VkSuppress \in Nat /\ VkPresses \in Nat /\ VkResets \in Nat

VARIABLES vkMode, vkKey, vkAsk, vkPoll, vkEvent, vkBy, vkResets, vkSwaps, vkWon

vkvars == <<vkMode, vkKey, vkAsk, vkPoll, vkEvent, vkBy, vkResets, vkSwaps, vkWon>>

VkModes == {"whisper", "normal", "shout"}

\* The answers of the poller to a press: how many; whether one came although the
\* poller had been told of the press; whether a reset armed the key again after
\* the press had been answered; whether the key went up between the two reads.
VkAnswers == [polls : Nat, told : BOOLEAN, rearmed : BOOLEAN, slipped : BOOLEAN]
NoAnswer == [polls |-> 0, told |-> FALSE, rearmed |-> FALSE, slipped |-> FALSE]

VkTypeOK ==
  /\ vkMode \in VkModes
  /\ vkKey \in [down : BOOLEAN, press : 0..VkPresses]
  /\ vkAsk \in [reset : BOOLEAN, notify : BOOLEAN]
  /\ vkPoll \in [at : {"idle", "reset", "notified", "sampled", "pressed", "read"},
                 down : BOOLEAN, read : VkModes, armed : BOOLEAN, quiet : 0..VkSuppress,
                 told : 0..VkPresses]
  /\ vkEvent \in [at : {"idle", "notified", "read"}, read : VkModes, done : 0..VkPresses]
  /\ vkBy \in [1..VkPresses -> VkAnswers]
  /\ vkResets \in 0..VkResets
  /\ vkSwaps \in Nat /\ vkWon \in Nat

VkInit ==
  /\ vkMode = "normal"
  /\ vkKey = [down |-> FALSE, press |-> 0]
  /\ vkAsk = [reset |-> FALSE, notify |-> FALSE]
  /\ vkPoll = [at |-> "idle", down |-> FALSE, read |-> "normal", armed |-> FALSE,
               quiet |-> 0, told |-> 0]
  /\ vkEvent = [at |-> "idle", read |-> "normal", done |-> 0]
  /\ vkBy = [p \in 1..VkPresses |-> NoAnswer]
  /\ vkResets = 0 /\ vkSwaps = 0 /\ vkWon = 0
-----------------------------------------------------------------------------
NextMode(m) == CASE m = "whisper" -> "normal"
                 [] m = "normal"  -> "shout"
                 [] m = "shout"   -> "whisper"

\* Mutant: the old mode is looked up before, not exchanged.
AppliedToRead(old, m) ==
  /\ vkMode' = m
  /\ vkSwaps' = IF vkMode = m THEN vkSwaps ELSE vkSwaps + 1
  /\ vkWon' = IF old = m THEN vkWon ELSE vkWon + 1

\* voice_mode_apply: one exchange decides who reports the change.
Applied(old, m) ==
  /\ vkMode' = m
  /\ vkSwaps' = IF vkMode = m THEN vkSwaps ELSE vkSwaps + 1
  /\ vkWon' = IF vkMode = m THEN vkWon ELSE vkWon + 1

Press ==
  /\ ~vkKey.down /\ vkKey.press < VkPresses
  /\ vkKey' = [down |-> TRUE, press |-> vkKey.press + 1]
  /\ UNCHANGED <<vkMode, vkAsk, vkPoll, vkEvent, vkBy, vkResets, vkSwaps, vkWon>>

Release ==
  /\ vkKey.down
  /\ vkKey' = [vkKey EXCEPT !.down = FALSE]
  /\ UNCHANGED <<vkMode, vkAsk, vkPoll, vkEvent, vkBy, vkResets, vkSwaps, vkWon>>

\* voice_mode_reset_key_tracking, by the callback thread (defaults of a server)
\* or a dialog (keys, presets), at any time.
AskReset ==
  /\ vkResets < VkResets
  /\ vkResets' = vkResets + 1
  /\ vkAsk' = [vkAsk EXCEPT !.reset = TRUE]
  /\ UNCHANGED <<vkMode, vkKey, vkPoll, vkEvent, vkBy, vkSwaps, vkWon>>
-----------------------------------------------------------------------------
(* The callback thread.  The events come in the order of the presses, each *)
(* some time after its press.                                              *)

EventNotifies ==
  /\ VkBound
  /\ vkEvent.at = "idle" /\ vkEvent.done < vkKey.press
  /\ vkAsk' = [vkAsk EXCEPT !.notify = TRUE]
  /\ vkEvent' = [vkEvent EXCEPT !.at = "notified", !.done = @ + 1]
  /\ UNCHANGED <<vkMode, vkKey, vkPoll, vkBy, vkResets, vkSwaps, vkWon>>

EventReads ==
  /\ vkEvent.at = "notified"
  /\ vkEvent' = [vkEvent EXCEPT !.at = "read", !.read = vkMode]
  /\ UNCHANGED <<vkMode, vkKey, vkAsk, vkPoll, vkBy, vkResets, vkSwaps, vkWon>>

EventToggles ==
  /\ vkEvent.at = "read"
  /\ Applied(vkEvent.read, NextMode(vkEvent.read))
  /\ vkEvent' = [vkEvent EXCEPT !.at = "idle"]
  /\ UNCHANGED <<vkKey, vkAsk, vkPoll, vkBy, vkResets>>
-----------------------------------------------------------------------------
(* The poller.                                                             *)

\* The press that is held has been answered, by whichever thread.
HeldAnswered ==
  vkKey.down /\ (vkBy[vkKey.press].polls > 0 \/ vkEvent.done = vkKey.press)

\* The start of voice_mode_hotkey_poll: a reset arms all keys.
PollResets ==
  /\ vkPoll.at = "idle"
  /\ vkAsk' = [vkAsk EXCEPT !.reset = FALSE]
  /\ \/ /\ vkAsk.reset
        /\ vkPoll' = [vkPoll EXCEPT !.at = "reset", !.armed = TRUE, !.quiet = 0]
        /\ vkBy' = IF HeldAnswered THEN [vkBy EXCEPT ![vkKey.press].rearmed = TRUE] ELSE vkBy
     \/ /\ ~vkAsk.reset
        /\ vkPoll' = [vkPoll EXCEPT !.at = "reset"]
        /\ UNCHANGED vkBy
  /\ UNCHANGED <<vkMode, vkKey, vkEvent, vkResets, vkSwaps, vkWon>>

\* Mutant: the request suppresses the key for a while, but leaves it armed.
AtNotifyArmed(poll) ==
  IF vkAsk.notify THEN [poll EXCEPT !.quiet = VkSuppress] ELSE poll

\* What the notify flag does to the poller's state.
AtNotify(poll) ==
  IF vkAsk.notify THEN [poll EXCEPT !.armed = FALSE, !.quiet = VkSuppress] ELSE poll

\* voice_key_pressed_vk takes the notify flag and looks whether it is suppressed.
PollTakesNotify ==
  LET poll == [AtNotify(vkPoll) EXCEPT !.told = vkEvent.done]
  IN /\ vkPoll.at = "reset"
     /\ vkAsk' = [vkAsk EXCEPT !.notify = FALSE]
     /\ \/ poll.quiet > 0 /\ vkPoll' = [poll EXCEPT !.at = "idle", !.quiet = @ - 1]
        \/ poll.quiet = 0 /\ vkPoll' = [poll EXCEPT !.at = "notified"]
     /\ UNCHANGED <<vkMode, vkKey, vkEvent, vkBy, vkResets, vkSwaps, vkWon>>

\* GetAsyncKeyState.
PollSamples ==
  /\ vkPoll.at = "notified"
  /\ vkPoll' = [vkPoll EXCEPT !.at = "sampled", !.down = vkKey.down]
  /\ UNCHANGED <<vkMode, vkKey, vkAsk, vkEvent, vkBy, vkResets, vkSwaps, vkWon>>

\* GetKeyState: a key that is up is armed; a press is answered that either read
\* has seen, if the key is armed.
PollDecides ==
  LET armed == vkPoll.armed \/ ~vkKey.down
      hit == armed /\ (vkPoll.down \/ vkKey.down)
  IN /\ vkPoll.at = "sampled"
     /\ \/ /\ ~hit
           /\ vkPoll' = [vkPoll EXCEPT !.at = "idle", !.armed = armed]
           /\ UNCHANGED vkBy
        \/ /\ hit
           /\ vkPoll' = [vkPoll EXCEPT !.at = "pressed", !.armed = FALSE, !.quiet = VkSuppress]
           /\ vkBy' = [vkBy EXCEPT ![vkKey.press] =
                          [polls |-> @.polls + 1,
                           told |-> @.told \/ vkPoll.told = vkKey.press,
                           rearmed |-> @.rearmed,
                           slipped |-> @.slipped \/ ~vkKey.down]]
     /\ UNCHANGED <<vkMode, vkKey, vkAsk, vkEvent, vkResets, vkSwaps, vkWon>>

\* voice_mode_toggle.
PollReads ==
  /\ vkPoll.at = "pressed"
  /\ vkPoll' = [vkPoll EXCEPT !.at = "read", !.read = vkMode]
  /\ UNCHANGED <<vkMode, vkKey, vkAsk, vkEvent, vkBy, vkResets, vkSwaps, vkWon>>

PollToggles ==
  /\ vkPoll.at = "read"
  /\ Applied(vkPoll.read, NextMode(vkPoll.read))
  /\ vkPoll' = [vkPoll EXCEPT !.at = "idle"]
  /\ UNCHANGED <<vkKey, vkAsk, vkEvent, vkBy, vkResets>>

VkNext ==
  \/ Press \/ Release \/ AskReset
  \/ EventNotifies \/ EventReads \/ EventToggles
  \/ PollResets \/ PollTakesNotify \/ PollSamples \/ PollDecides
  \/ PollReads \/ PollToggles

VkSpec == VkInit /\ [][VkNext]_vkvars
-----------------------------------------------------------------------------
\* From the moment it has taken the flag of TeamSpeak's event for a press, the
\* poller leaves that press alone, however long the key is held after it, and it
\* answers no press twice itself; unless a reset arms the key that is held after
\* its answer (ResetAwaitsRelease), or the key goes up between the two reads.
EventSilencesPoll ==
  \A p \in 1..VkPresses :
    \/ vkBy[p].rearmed \/ vkBy[p].slipped
    \/ vkBy[p].polls <= 1 /\ ~vkBy[p].told

\* Every change of the mode is reported to the chat and to the other players by
\* exactly one of the threads that asked for it (voice_modes.c: "Exactly one
\* caller wins the exchange").
OneReportPerChange == vkWon = vkSwaps

\* Poller and hotkey event together.
KeyIsAnsweredOnce == EventSilencesPoll /\ OneReportPerChange

\* The toggle key changes the mode no more often than it is pressed
\* (003-ui-recompute-und-hotkey-owner.md: the mode changes exactly once per press).
OnePressOneSwitch == vkSwaps <= vkKey.press

\* The same where no key goes up between the two reads of a poll.
OneOwnerOneSwitch ==
  (\A p \in 1..VkPresses : ~vkBy[p].slipped) => vkSwaps <= vkKey.press

\* After a reset, too, a key is armed when it is seen released: the poller does
\* not answer the press that is held during a reset again (voice_modes.c: "The
\* first poll after start/reset arms keys as soon as they are seen released").
ResetAwaitsRelease ==
  \A p \in 1..VkPresses : vkBy[p].rearmed /\ ~vkBy[p].slipped => vkBy[p].polls <= 1
=============================================================================
