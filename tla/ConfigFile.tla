---------------------------- MODULE ConfigFile ----------------------------
(***************************************************************************)
(* The configuration of the plugin and its file plugin.cfg                 *)
(* (core/config/config.c, core/config/config_text.h).                      *)
(*                                                                         *)
(* Three threads change g_config: the settings dialog ("ui"), the          *)
(* TeamSpeak callback thread ("cb": the defaults of a server profile) and   *)
(* the position watcher ("pos": the automatic path).  Each change          *)
(* is one step under the configuration lock (config_modify); the save that *)
(* follows is not: it takes the save lock, copies, writes a temporary file *)
(* and moves it over plugin.cfg, and may fail or be cut by a crash between *)
(* any two of these steps.  Two changes have no save: the live preview of  *)
(* the voice display in the open dialog, and its undoing when the dialog   *)
(* is closed.  The save of another thread takes what it finds.             *)
(*                                                                         *)
(* Of the text only what a reader can get wrong is kept: a distance        *)
(* (centimetres in memory, tenths of a metre in the file), the code page   *)
(* in which the two paths were written, and the look of the display.       *)
(***************************************************************************)
EXTENDS Integers, FiniteSets

CONSTANTS CfgThreads,    \* the threads that change the configuration
          CfgDists,      \* distances a user, a server or the file may give
          CfgPaths,      \* paths, named by what the code pages make of them
          CfgMaxChanges, \* bound on the changes
          CfgMaxKills,   \* bound on crashes
          CfgMaxErrors   \* bound on failing reads and writes

CfgAssumption ==
    /\ CfgThreads \subseteq {"ui", "cb", "pos"}
    /\ CfgDists \subseteq Nat
    /\ CfgPaths \subseteq {"none", "ascii", "latin", "twin", "foreign"}
    /\ {"none", "ascii"} \subseteq CfgPaths      \* no path; that of the file of CfgInit
    /\ CfgMaxChanges \in Nat

VARIABLES cfgMem,     \* g_config
          cfgPc,      \* where each thread is
          cfgSeen,    \* the automatic path the watcher's detection started from
          saveLock,   \* holder of g_cfgSaveLock, or "free"
          saveSnap,   \* the text each config_save has formatted
          cfgTmp,     \* plugin.cfg.tmp
          cfgDisk,    \* plugin.cfg
          cfgVersion, \* changes so far (bookkeeping)
          memVersion, \* the changes g_config holds (bookkeeping)
          cfgHud,     \* the dialog and the look of the voice display
          cfgUp,      \* the plugin runs and has loaded its configuration
          cfgAstray,  \* why memory and file differ: "no" reason, the last save "failed",
                      \* or the file was "unread"
          cfgKills,
          cfgErrors

cfgvars == <<cfgMem, cfgPc, cfgSeen, saveLock, saveSnap, cfgTmp, cfgDisk,
             cfgVersion, memVersion, cfgHud, cfgUp, cfgAstray, cfgKills, cfgErrors>>

\* Two looks of the voice display (theme, position and size).
Looks == 0..1

Configs == [dist : Nat, man : CfgPaths, auto : CfgPaths, find : BOOLEAN,
            served : {"none", "s1"}, hud : Looks]

\* The dialog is open; the look it goes back to (s_hudSaved*); the look has been
\* changed since the last text was formatted (bookkeeping).
Huds == [open : BOOLEAN, kept : Looks, unsaved : BOOLEAN]
NoDialog == [open |-> FALSE, kept |-> 0, unsaved |-> FALSE]

Defaults == [dist |-> 300, man |-> "none", auto |-> "none", find |-> TRUE,
             served |-> "none", hud |-> 0]

\* 0.5 to 500 metres.
Nearest  == 50
Farthest == 50000
ClampDist(d) == IF d < Nearest THEN Nearest ELSE IF d > Farthest THEN Farthest ELSE d
ClampConfig(c) == [c EXCEPT !.dist = ClampDist(@)]

(***************************************************************************)
(* The text.  "latin" has other bytes in the ANSI page and in UTF-8 and is *)
(* no valid UTF-8 in its ANSI form; the ANSI form of "twin" also happens   *)
(* to be valid UTF-8; "foreign" cannot be written in the ANSI page.        *)
(***************************************************************************)
NonAscii(p) == p \notin {"none", "ascii"}
AnsiFits(p) == p # "foreign"
AnsiUnambiguous(p) == p # "twin"

(* Mutant: the reader's choice is not considered. *)
CodePageGuesses(c) ==
    IF /\ NonAscii(c.man) \/ NonAscii(c.auto)
       /\ \A p \in {c.man, c.auto} : AnsiFits(p)
    THEN "ansi" ELSE "utf8"

CodePage(c) ==
    IF /\ NonAscii(c.man) \/ NonAscii(c.auto)
       /\ \A p \in {c.man, c.auto} : AnsiFits(p) /\ AnsiUnambiguous(p)
    THEN "ansi" ELSE "utf8"

Tenths(d) == ((d + 5) \div 10) * 10

Printed(c) == [c EXCEPT !.dist = Tenths(@)]

\* cfg_serialize.
Serialize(c) == [cfg |-> Printed(c), page |-> CodePage(c),
                 whole |-> TRUE, version |-> memVersion]
\* The same file cut short by a crash, and no file at all.
Torn(t) == [t EXCEPT !.whole = FALSE]
NoFile == [cfg |-> Defaults, page |-> "missing", whole |-> TRUE, version |-> 0]
\* What an earlier run may have left.
OldFile == [cfg |-> [dist |-> 1300, man |-> "ascii", auto |-> "none", find |-> TRUE,
                     served |-> "none", hud |-> 0],
            page |-> "utf8", whole |-> TRUE, version |-> 0]

ValidUtf8(t) == \/ t.page = "utf8"
                \/ \A p \in {t.cfg.man, t.cfg.auto} : p # "latin"

\* A path read in another page than it was written in is some other path; it is
\* written "none" here, which no test of the model confuses with the path itself.
ReadPath(t, p) ==
    LET page == IF ValidUtf8(t) THEN "utf8" ELSE "ansi"
    IN IF NonAscii(p) /\ page # t.page THEN "none" ELSE p

\* cfg_decode_text and cfg_parse_text, on top of the defaults.
ParseText(t) == [t.cfg EXCEPT !.man = ReadPath(t, @), !.auto = ReadPath(t, @)]

-----------------------------------------------------------------------------
CfgInit ==
    /\ cfgMem = Defaults
    /\ cfgPc = [t \in CfgThreads |-> "idle"]
    /\ cfgSeen = "none"
    /\ saveLock = "free"
    /\ saveSnap = [t \in CfgThreads |-> NoFile]
    /\ cfgTmp = NoFile
    /\ cfgDisk \in {NoFile, OldFile}
    /\ cfgVersion = 0
    /\ memVersion = 0
    /\ cfgHud = NoDialog
    /\ cfgUp = FALSE
    /\ cfgAstray = "no"
    /\ cfgKills = 0
    /\ cfgErrors = 0

\* The other threads are started after config_load, and so after the save of the
\* defaults that follows where there was no file.
Started == cfgUp /\ (cfgDisk # NoFile \/ cfgAstray = "failed")

Fault == cfgErrors < CfgMaxErrors /\ cfgErrors' = cfgErrors + 1

\* config_load finds a file it can read.
LoadFile ==
    /\ ~cfgUp
    /\ cfgDisk # NoFile
    /\ cfgMem' = ClampConfig(ParseText(cfgDisk))
    /\ memVersion' = cfgDisk.version
    /\ cfgUp' = TRUE
    /\ cfgAstray' = IF ParseText(cfgDisk) = Printed(cfgMem') THEN "no" ELSE "failed"
    /\ UNCHANGED <<cfgPc, cfgSeen, saveLock, saveSnap, cfgTmp, cfgDisk, cfgVersion,
                   cfgKills, cfgErrors, cfgHud>>

\* There is no file: the thread that loads, the callback thread, saves the
\* defaults.
LoadMissing ==
    /\ "cb" \in CfgThreads
    /\ ~cfgUp
    /\ cfgDisk = NoFile
    /\ cfgMem' = Defaults
    /\ cfgUp' = TRUE
    /\ cfgPc' = [cfgPc EXCEPT !["cb"] = "save"]
    /\ cfgAstray' = "no"
    /\ UNCHANGED <<cfgSeen, saveLock, saveSnap, cfgTmp, cfgDisk, cfgVersion, memVersion,
                   cfgKills, cfgErrors, cfgHud>>

\* The file exists but cannot be read, after four attempts: defaults in memory.
LoadUnreadable ==
    /\ ~cfgUp
    /\ cfgDisk # NoFile
    /\ Fault
    /\ cfgMem' = Defaults
    /\ memVersion' = 0
    /\ cfgUp' = TRUE
    /\ cfgAstray' = "unread"
    /\ UNCHANGED <<cfgPc, cfgSeen, saveLock, saveSnap, cfgTmp, cfgDisk, cfgVersion, cfgKills,
                   cfgHud>>

\* config_modify: one change of g_config under its lock, then the values are
\* clamped.  The thread goes on to config_save.
Modify(t, new) ==
    /\ cfgUp
    /\ cfgVersion < CfgMaxChanges
    /\ cfgVersion' = cfgVersion + 1
    /\ memVersion' = cfgVersion + 1
    /\ cfgMem' = ClampConfig(new)
    /\ cfgPc' = [cfgPc EXCEPT ![t] = "save"]
    /\ cfgSeen' = IF t = "pos" THEN "none" ELSE cfgSeen
    /\ UNCHANGED <<saveLock, saveSnap, cfgTmp, cfgDisk, cfgUp, cfgAstray,
                   cfgKills, cfgErrors>>

\* The user is in the dialog.
AtDialog == "ui" \in CfgThreads /\ Started /\ cfgPc["ui"] = "idle" /\ cfgHud.open

\* config_modify of the look alone, without a save.
Look(look, fields) ==
    /\ cfgMem' = ClampConfig([fields EXCEPT !.hud = look])
    /\ UNCHANGED <<cfgPc, cfgSeen, saveLock, saveSnap, cfgTmp, cfgDisk, cfgVersion,
                   memVersion, cfgUp, cfgAstray, cfgKills, cfgErrors>>

\* ui_cfg_dialog_begin: the look to go back to is that of the memory.
DialogOpens ==
    /\ "ui" \in CfgThreads
    /\ Started
    /\ cfgPc["ui"] = "idle"
    /\ ~cfgHud.open
    /\ cfgHud' = [cfgHud EXCEPT !.open = TRUE, !.kept = cfgMem.hud]
    /\ UNCHANGED <<cfgMem, cfgPc, cfgSeen, saveLock, saveSnap, cfgTmp, cfgDisk, cfgVersion,
                   memVersion, cfgUp, cfgAstray, cfgKills, cfgErrors>>

(* Mutant: the preview merges the whole working copy. *)
DialogPreviewsAll ==
    /\ AtDialog
    /\ \E look \in Looks \ {cfgMem.hud}, d \in CfgDists : Look(look, [cfgMem EXCEPT !.dist = d])
    /\ cfgHud' = [cfgHud EXCEPT !.unsaved = TRUE]

\* ui_cfg_hud_preview, of another look than the one that is live.
DialogPreviews ==
    /\ AtDialog
    /\ \E look \in Looks \ {cfgMem.hud} : Look(look, cfgMem)
    /\ cfgHud' = [cfgHud EXCEPT !.unsaved = TRUE]

\* ui_cfg_commit: the fields of the dialog, whatever the user made of them; the
\* look is the one last previewed, and closing the dialog leaves it now.
DialogCommits ==
    /\ AtDialog
    /\ cfgHud' = [cfgHud EXCEPT !.kept = cfgMem.hud]
    /\ \E d \in CfgDists, m \in CfgPaths, f \in BOOLEAN :
          Modify("ui", [cfgMem EXCEPT !.dist = d, !.man = m, !.find = f])

\* ui_cfg_dialog_end: a look that was not committed is undone, in the memory only.
DialogCloses ==
    /\ AtDialog
    /\ Look(cfgHud.kept, cfgMem)
    /\ cfgHud' = [cfgHud EXCEPT !.open = FALSE,
                               !.unsaved = IF cfgMem.hud = cfgHud.kept THEN @ ELSE TRUE]

\* profile_defaults_mutator: once for a server, keys and distances.
ServerDefaults ==
    /\ "cb" \in CfgThreads
    /\ cfgPc["cb"] = "idle"
    /\ cfgMem.served # "s1"
    /\ \E d \in CfgDists : Modify("cb", [cfgMem EXCEPT !.dist = d, !.served = "s1"])
    /\ UNCHANGED cfgHud

\* pos_autodetect_saved_path reads the configuration ...
DetectStarts ==
    /\ "pos" \in CfgThreads
    /\ Started
    /\ cfgPc["pos"] = "idle"
    /\ cfgMem.find
    /\ cfgVersion < CfgMaxChanges
    /\ cfgSeen' = cfgMem.auto
    /\ cfgPc' = [cfgPc EXCEPT !["pos"] = "detect"]
    /\ UNCHANGED <<cfgMem, saveLock, saveSnap, cfgTmp, cfgDisk, cfgVersion, memVersion, cfgUp,
                   cfgAstray, cfgKills, cfgErrors, cfgHud>>

\* ... and stores what it found, if the field still holds what it saw.
DetectStores ==
    /\ "pos" \in CfgThreads
    /\ cfgPc["pos"] = "detect"
    /\ \E p \in CfgPaths :
          /\ p # "none" \/ cfgSeen # "none"
          /\ cfgMem.auto = cfgSeen
          /\ Modify("pos", [cfgMem EXCEPT !.auto = p])
    /\ UNCHANGED cfgHud

\* It found nothing and had nothing, or the field has changed meanwhile.
DetectGivesUp ==
    /\ "pos" \in CfgThreads
    /\ cfgPc["pos"] = "detect"
    /\ cfgSeen = "none" \/ cfgMem.auto # cfgSeen
    /\ cfgPc' = [cfgPc EXCEPT !["pos"] = "idle"]
    /\ cfgSeen' = "none"
    /\ UNCHANGED <<cfgMem, saveLock, saveSnap, cfgTmp, cfgDisk, cfgVersion, memVersion,
                   cfgUp, cfgAstray, cfgKills, cfgErrors, cfgHud>>

-----------------------------------------------------------------------------
(* Mutant: no save lock. *)
SaveBeginsUnlocked(t) ==
    /\ cfgPc[t] = "save"
    /\ saveLock' = t
    /\ saveSnap' = [saveSnap EXCEPT ![t] = Serialize(cfgMem)]
    /\ cfgPc' = [cfgPc EXCEPT ![t] = "create"]
    /\ cfgHud' = [cfgHud EXCEPT !.unsaved = FALSE]
    /\ UNCHANGED <<cfgMem, cfgSeen, cfgTmp, cfgDisk, cfgVersion, memVersion, cfgUp, cfgAstray,
                   cfgKills, cfgErrors>>

(***************************************************************************)
(* config_save: the copy is taken inside the save lock.                    *)
(***************************************************************************)
SaveBegins(t) ==
    /\ cfgPc[t] = "save"
    /\ saveLock = "free"
    /\ saveLock' = t
    /\ saveSnap' = [saveSnap EXCEPT ![t] = Serialize(cfgMem)]
    /\ cfgPc' = [cfgPc EXCEPT ![t] = "create"]
    /\ cfgHud' = [cfgHud EXCEPT !.unsaved = FALSE]
    /\ UNCHANGED <<cfgMem, cfgSeen, cfgTmp, cfgDisk, cfgVersion, memVersion, cfgUp, cfgAstray,
                   cfgKills, cfgErrors>>

(* Mutant: plugin.cfg itself is opened for writing. *)
CreateInPlace(t) ==
    /\ cfgPc[t] = "create"
    /\ cfgDisk' = Torn(saveSnap[t])
    /\ cfgPc' = [cfgPc EXCEPT ![t] = "write"]
    /\ UNCHANGED <<cfgMem, cfgSeen, saveLock, saveSnap, cfgTmp, cfgVersion, memVersion, cfgUp,
                   cfgAstray, cfgKills, cfgErrors, cfgHud>>

\* The temporary file exists, its content does not yet.
CreateTmp(t) ==
    /\ cfgPc[t] = "create"
    /\ cfgTmp' = Torn(saveSnap[t])
    /\ cfgPc' = [cfgPc EXCEPT ![t] = "write"]
    /\ UNCHANGED <<cfgMem, cfgSeen, saveLock, saveSnap, cfgDisk, cfgVersion, memVersion, cfgUp,
                   cfgAstray, cfgKills, cfgErrors, cfgHud>>

\* Written and flushed.
WriteTmp(t) ==
    /\ cfgPc[t] = "write"
    /\ cfgTmp' = saveSnap[t]
    /\ cfgPc' = [cfgPc EXCEPT ![t] = "swap"]
    /\ UNCHANGED <<cfgMem, cfgSeen, saveLock, saveSnap, cfgDisk, cfgVersion, memVersion, cfgUp,
                   cfgAstray, cfgKills, cfgErrors, cfgHud>>

\* MoveFileExW over plugin.cfg.
Swap(t) ==
    /\ cfgPc[t] = "swap"
    /\ cfgDisk' = cfgTmp
    /\ cfgTmp' = NoFile
    /\ saveLock' = "free"
    /\ saveSnap' = [saveSnap EXCEPT ![t] = NoFile]
    /\ cfgAstray' = "no"
    /\ cfgPc' = [cfgPc EXCEPT ![t] = "idle"]
    /\ UNCHANGED <<cfgMem, cfgSeen, cfgVersion, memVersion, cfgUp, cfgKills, cfgErrors, cfgHud>>

\* Creating, writing or all five attempts to move fail: the old file is kept.
SaveFails(t) ==
    /\ cfgPc[t] \in {"create", "write", "swap"}
    /\ Fault
    /\ cfgTmp' = NoFile
    /\ saveLock' = "free"
    /\ saveSnap' = [saveSnap EXCEPT ![t] = NoFile]
    /\ cfgAstray' = "failed"
    /\ cfgPc' = [cfgPc EXCEPT ![t] = "idle"]
    /\ UNCHANGED <<cfgMem, cfgSeen, cfgDisk, cfgVersion, memVersion, cfgUp, cfgKills, cfgHud>>

-----------------------------------------------------------------------------
\* TeamSpeak dies: the memory is gone, the files stay as they are.
Kill ==
    /\ cfgUp
    /\ cfgKills < CfgMaxKills
    /\ cfgKills' = cfgKills + 1
    /\ cfgUp' = FALSE
    /\ cfgPc' = [t \in CfgThreads |-> "idle"]
    /\ saveLock' = "free"
    /\ saveSnap' = [t \in CfgThreads |-> NoFile]
    /\ cfgSeen' = "none"
    /\ cfgMem' = Defaults
    /\ memVersion' = 0
    /\ cfgHud' = NoDialog
    /\ UNCHANGED <<cfgTmp, cfgDisk, cfgVersion, cfgAstray, cfgErrors>>

\* The user edits the file by hand while the plugin does not run.
UserEdits ==
    /\ ~cfgUp
    /\ cfgVersion < CfgMaxChanges
    /\ cfgDisk # NoFile
    /\ cfgVersion' = cfgVersion + 1
    /\ \E d \in CfgDists : cfgDisk' = [cfgDisk EXCEPT !.cfg.dist = d, !.version = cfgVersion + 1]
    /\ UNCHANGED <<cfgMem, cfgPc, cfgSeen, saveLock, saveSnap, cfgTmp, memVersion, cfgUp,
                   cfgAstray, cfgKills, cfgErrors, cfgHud>>

Save(t) == SaveBegins(t) \/ CreateTmp(t) \/ WriteTmp(t) \/ Swap(t) \/ SaveFails(t)

CfgNext ==
    \/ LoadFile
    \/ LoadMissing
    \/ LoadUnreadable
    \/ DialogOpens
    \/ DialogPreviews
    \/ DialogCommits
    \/ DialogCloses
    \/ ServerDefaults
    \/ DetectStarts
    \/ DetectStores
    \/ DetectGivesUp
    \/ \E t \in CfgThreads : Save(t)
    \/ Kill
    \/ UserEdits

CfgSpec == CfgInit /\ [][CfgNext]_cfgvars

-----------------------------------------------------------------------------
Texts == [cfg : Configs, page : {"missing", "utf8", "ansi"}, whole : BOOLEAN,
          version : 0..CfgMaxChanges]

\* Types; in memory every distance is inside 0.5 .. 500 metres, whatever the
\* file, the server or the dialog gave.
CfgTypeOK ==
    /\ cfgMem \in Configs /\ cfgMem.dist \in Nearest..Farthest
    /\ cfgPc \in [CfgThreads -> {"idle", "detect", "save", "create", "write", "swap"}]
    /\ cfgSeen \in CfgPaths
    /\ saveLock \in CfgThreads \cup {"free"}
    /\ saveSnap \in [CfgThreads -> Texts] /\ cfgTmp \in Texts /\ cfgDisk \in Texts
    /\ {cfgVersion, memVersion} \subseteq 0..CfgMaxChanges
    /\ cfgHud \in Huds /\ cfgUp \in BOOLEAN /\ cfgAstray \in {"no", "failed", "unread"}

\* plugin.cfg is never a half-written file, at whatever moment TeamSpeak dies.
FileWhole == cfgDisk.whole

\* No save is under way or to come, and the last one worked.
CfgAtRest == /\ cfgUp /\ cfgAstray = "no"
             /\ \A t \in CfgThreads : cfgPc[t] \in {"idle", "detect"}

\* At rest a restart would read what is in memory, paths in any code page
\* included; only a distance is rounded to a tenth of a metre, and the look of
\* the display may be another one if it was previewed or undone since the file's
\* text was formatted.
RestIsCurrent ==
    CfgAtRest => LET file == ParseText(cfgDisk)
                 IN /\ [file EXCEPT !.hud = cfgMem.hud] = Printed(cfgMem)
                    /\ cfgHud.unsaved \/ file.hud = cfgMem.hud

\* plugin.cfg over the crashes and the failing writes of config_save: whole at
\* any moment, and at rest what the memory holds.
FileIsCurrent == FileWhole /\ RestIsCurrent

\* ui_config.md of the preview of the display: in memory, "keine Datei", and
\* undone by Cancel: with the dialog closed and no save under way, the file
\* does not have another look than the memory.
PreviewNotStored == CfgAtRest /\ ~cfgHud.open => cfgDisk.cfg.hud = cfgMem.hud

\* config.c on a file that exists but cannot be read: "run with defaults in
\* memory and do NOT overwrite the user's file with them".
UnreadableFileKept ==
    [][cfgUp /\ cfgAstray = "unread" => cfgDisk' = cfgDisk]_cfgvars

=============================================================================
