------------------------------ MODULE MCPlugin ------------------------------
(***************************************************************************)
(* The components that follow the TeamSpeak client, its server and the     *)
(* texts that others wrote, the channels and nicknames included, checked   *)
(* by one run: a behaviour is one of the component that part names, and    *)
(* the others stay as they began.                                          *)
(***************************************************************************)
EXTENDS CaveSlots, VersionMap, RenderSession, ServerProfile, HubDescription, LibraryScan,
        ChannelMove, NickTabs

CONSTANT Parts           \* the components to check

VARIABLE part

allvars == <<part, pvars, vars, vmvars, cavevars, hdvars, lsvars, cvars, nvars>>

\* Two descriptions list the races in different orders, and one is none.
TwoRaces == [a |-> <<"elf", "orc">>, b |-> <<"orc", "elf">>]
OrcOrElf == [a |-> 1, b |-> 2]

ASSUME MCPluginAssumption ==
  /\ ProfileAssumption /\ RenderAssumption /\ VmAssumption
  /\ HdAssumption /\ LsAssumption /\ ChannelAssumption /\ NickAssumption

-----------------------------------------------------------------------------
\* Only the component named p moves.
Others(p) ==
  /\ UNCHANGED part
  /\ p # "profile" => UNCHANGED pvars
  /\ p # "block" => UNCHANGED vars
  /\ p # "versions" => UNCHANGED vmvars
  /\ p # "cave" => UNCHANGED cavevars
  /\ p # "hub" => UNCHANGED hdvars
  /\ p # "library" => UNCHANGED lsvars
  /\ p # "channel" => UNCHANGED cvars
  /\ p # "nick" => UNCHANGED nvars

MCInit ==
  /\ part \in Parts
  /\ HdInit
  /\ LsInit /\ (part # "library" => steam = "none" /\ library = <<>>)
  /\ ProfInit /\ (part # "profile" => rooms = {"root"} /\ text = [r \in RootRooms |-> "a"])
  /\ Init
  /\ VmInit
  /\ CaveInit
  /\ ChanInit /\ (part # "channel" => coords = FALSE)
  /\ NickInit

MCNext ==
  \/ part = "hub" /\ HdNext /\ Others("hub")
  \/ part = "library" /\ LsNext /\ Others("library")
  \/ part = "profile" /\ ProfNext /\ Others("profile")
  \/ part = "block" /\ Next /\ Others("block")
  \/ part = "versions" /\ VmNext /\ Others("versions")
  \/ part = "cave" /\ CaveNext /\ Others("cave")
  \/ part = "channel" /\ ChanNext /\ Others("channel")
  \/ part = "nick" /\ NickNext /\ Others("nick")

MCSpec == MCInit /\ [][MCNext]_allvars
=============================================================================
