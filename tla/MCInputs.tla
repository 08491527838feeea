------------------------------ MODULE MCInputs ------------------------------
(***************************************************************************)
(* The components that take what the game, the user and the other clients  *)
(* give, and the thread that wakes the callback thread for them, checked   *)
(* by one run: a behaviour is one of the component that part names, and    *)
(* the others stay as they began.                                          *)
(***************************************************************************)
EXTENDS ConfigFile, Settings, PositionFeed, HttpListener, PositionSend, Heartbeat,
        VoiceKeys, HudSync, Wakeup

CONSTANT Inputs           \* the components to check

VARIABLE part

allvars == <<part, cfgvars, setvars, posvars, hlvars, psvars, hbvars, vkvars, hudvars,
             vars>>

ASSUME MCInputsAssumption ==
  /\ CfgAssumption /\ SetAssumption /\ PosAssumption /\ HlAssumption /\ PsAssumption
  /\ HbAssumption /\ VkAssumption /\ HudAssumption

-----------------------------------------------------------------------------
\* Only the component named p moves.
Others(p) ==
  /\ UNCHANGED part
  /\ p # "config" => UNCHANGED cfgvars
  /\ p # "settings" => UNCHANGED setvars
  /\ p # "position" => UNCHANGED posvars
  /\ p # "http" => UNCHANGED hlvars
  /\ p # "send" => UNCHANGED psvars
  /\ p # "heartbeat" => UNCHANGED hbvars
  /\ p # "keys" => UNCHANGED vkvars
  /\ p # "hud" => UNCHANGED hudvars
  /\ p # "wakeup" => UNCHANGED vars

MCInit ==
  /\ part \in Inputs
  /\ CfgInit /\ (part # "config" => cfgDisk = NoFile)
  /\ SetInit
  /\ PosInit /\ (part # "position" => posFile = NoPosFile)
  /\ HlInit
  /\ PsInit
  /\ HbInit /\ (part # "heartbeat" => hbSelf.from = 0)
  /\ VkInit
  /\ HudInit
  /\ Init /\ (part # "wakeup" => env.named /\ visible = CHOOSE c \in Conns : TRUE)

MCNext ==
  \/ part = "config" /\ CfgNext /\ Others("config")
  \/ part = "settings" /\ SetNext /\ Others("settings")
  \/ part = "position" /\ PosNext /\ Others("position")
  \/ part = "http" /\ HlNext /\ Others("http")
  \/ part = "send" /\ PsNext /\ Others("send")
  \/ part = "heartbeat" /\ HbNext /\ Others("heartbeat")
  \/ part = "keys" /\ VkNext /\ Others("keys")
  \/ part = "hud" /\ HudNext /\ Others("hud")
  \/ part = "wakeup" /\ Next /\ Others("wakeup")

MCSpec == MCInit /\ [][MCNext]_allvars
=============================================================================
