--------------------------- MODULE Settings_proofs --------------------------
(***************************************************************************)
(* Proofs about what the user configures: the file it is kept in           *)
(* (ConfigFile) and the dialog that changes it (Settings).                 *)
(***************************************************************************)
EXTENDS ConfigFile, Settings, TLAPS

-----------------------------------------------------------------------------
(* ConfigFile: the text.                                                   *)

(* What config_save writes is read back as it was, up to the rounding of   *)
(* the distance, whatever code pages the two paths need.                   *)
LEMMA CfgRoundTrip ==
  ASSUME CfgAssumption, NEW c \in Configs
  PROVE  ParseText(Serialize(c)) = Printed(c)
<1> DEFINE t == Serialize(c)
<1>1. /\ t.cfg \in Configs /\ t.cfg = Printed(c) /\ t.page = CodePage(c)
      /\ t.cfg.man = c.man /\ t.cfg.auto = c.auto
  BY DEF Serialize, Printed, Configs, Tenths
<1>2. c.man \in CfgPaths /\ c.auto \in CfgPaths
  BY DEF Configs
<1>3. CASE t.page = "utf8"
  <2>1. \A p : ReadPath(t, p) = p
    BY <1>3 DEF ReadPath, ValidUtf8
  <2>2. QED BY <1>1, <2>1 DEF ParseText, Configs
<1>4. CASE t.page # "utf8"
  <2>1. /\ t.page = "ansi" /\ c.man \in {"none", "ascii", "latin"} /\ c.auto \in {"none", "ascii", "latin"}
        /\ c.man = "latin" \/ c.auto = "latin"
    BY <1>1, <1>2, <1>4 DEF CodePage, NonAscii, AnsiFits, AnsiUnambiguous, CfgAssumption
  <2>2. ~ValidUtf8(t)
    BY <1>1, <2>1 DEF ValidUtf8
  <2>3. \A p : ReadPath(t, p) = p
    BY <2>1, <2>2 DEF ReadPath
  <2>4. QED BY <1>1, <2>3 DEF ParseText, Configs
<1>5. QED BY <1>3, <1>4

LEMMA CfgRange == Nearest \in Nat /\ Farthest \in Nat /\ Nearest <= Farthest
BY DEF Nearest, Farthest

(* Types of the operators.                                                 *)
LEMMA CfgClampType ==
  ASSUME NEW c \in Configs
  PROVE  ClampConfig(c) \in Configs /\ ClampConfig(c).dist \in Nearest..Farthest
<1>1. c.dist \in Nat
  BY DEF Configs
<1>2. ClampDist(c.dist) \in Nat /\ ClampDist(c.dist) \in Nearest..Farthest
  BY <1>1, CfgRange DEF ClampDist
<1>3. ClampConfig(c) = [c EXCEPT !.dist = ClampDist(c.dist)]
  BY DEF ClampConfig
<1> HIDE DEF ClampDist, ClampConfig
<1>4. QED BY <1>2, <1>3 DEF Configs

LEMMA CfgSerializeType ==
  ASSUME NEW c \in Configs, memVersion \in 0..CfgMaxChanges
  PROVE  Serialize(c) \in Texts /\ Serialize(c).whole
<1>1. Tenths(c.dist) \in Nat
  BY DEF Tenths, Configs
<1>2. Printed(c) \in Configs
  BY <1>1 DEF Printed, Configs
<1>3. CodePage(c) \in {"utf8", "ansi"}
  BY DEF CodePage
<1>4. QED BY <1>2, <1>3 DEF Serialize, Texts

LEMMA CfgParseType ==
  ASSUME CfgAssumption, NEW t \in Texts
  PROVE  ParseText(t) \in Configs
<1>1. t.cfg \in Configs
  BY DEF Texts
<1>2. \A p \in CfgPaths : ReadPath(t, p) \in CfgPaths
  BY DEF ReadPath, CfgAssumption
<1>3. QED BY <1>1, <1>2 DEF ParseText, Configs

LEMMA CfgConstantTypes ==
  ASSUME CfgAssumption
  PROVE  /\ Defaults \in Configs /\ Defaults.dist \in Nearest..Farthest
         /\ NoFile \in Texts /\ NoFile.whole /\ OldFile \in Texts /\ OldFile.whole
         /\ NoDialog \in Huds
<1>1. Defaults \in Configs /\ Defaults.dist \in Nearest..Farthest
  BY DEF CfgAssumption, Defaults, Configs, Looks, Nearest, Farthest
<1>2. 0 \in 0..CfgMaxChanges
  BY DEF CfgAssumption
<1>3. NoFile \in Texts /\ NoFile.whole
  BY <1>1, <1>2 DEF NoFile, Texts
<1>4. OldFile \in Texts /\ OldFile.whole
  <2>1. OldFile.cfg \in Configs
    BY DEF CfgAssumption, OldFile, Configs, Looks
  <2>2. QED BY <1>2, <2>1 DEF OldFile, Texts
<1>5. NoDialog \in Huds
  BY DEF NoDialog, Huds, Looks
<1>6. QED BY <1>1, <1>3, <1>4, <1>5

(* Who saves holds the lock, its text is whole, and what it moves over the *)
(* file is its text.                                                       *)
Saving(t) == cfgPc[t] \in {"create", "write", "swap"}
SaveInv ==
  /\ ~cfgUp => \A t \in CfgThreads : cfgPc[t] = "idle"
  /\ \A t \in CfgThreads : Saving(t) => saveLock = t /\ saveSnap[t].whole
  /\ \A t \in CfgThreads : cfgPc[t] = "swap" => cfgTmp = saveSnap[t]
  /\ FileWhole

(* The text of a save is the memory's, or another save is still to come.   *)
SomeSave == \E t \in CfgThreads : cfgPc[t] = "save"
Current(text) ==
  /\ [ParseText(text) EXCEPT !.hud = cfgMem.hud] = Printed(cfgMem)
  /\ cfgHud.unsaved \/ ParseText(text).hud = cfgMem.hud
CurrentInv ==
  /\ \A t \in CfgThreads : Saving(t) => SomeSave \/ Current(saveSnap[t])
  /\ cfgUp /\ cfgAstray = "no" =>
       Current(cfgDisk) \/ SomeSave \/ \E t \in CfgThreads : Saving(t)

(* Types.                                                                  *)
LEMMA ModifyTypes ==
  ASSUME CfgAssumption, CfgTypeOK, NEW t \in CfgThreads, NEW new \in Configs, Modify(t, new),
         cfgHud' \in Huds
  PROVE  CfgTypeOK'
<1>1. cfgMem' \in Configs /\ cfgMem'.dist \in Nearest..Farthest
  BY CfgClampType DEF Modify
<1>2. {cfgVersion', memVersion'} \subseteq 0..CfgMaxChanges
  BY DEF Modify, CfgTypeOK, CfgAssumption
<1>3. cfgPc' \in [CfgThreads -> {"idle", "detect", "save", "create", "write", "swap"}]
  BY DEF Modify, CfgTypeOK
<1>4. cfgSeen' \in CfgPaths
  BY DEF Modify, CfgTypeOK, CfgAssumption
<1>5. QED BY <1>1, <1>2, <1>3, <1>4 DEF Modify, CfgTypeOK

LEMMA LookTypes ==
  ASSUME CfgTypeOK, NEW l \in Looks, NEW c \in Configs, Look(l, c), cfgHud' \in Huds
  PROVE  CfgTypeOK'
<1>1. [c EXCEPT !.hud = l] \in Configs
  BY DEF Configs
<1>2. cfgMem' \in Configs /\ cfgMem'.dist \in Nearest..Farthest
  BY <1>1, CfgClampType DEF Look
<1>3. QED BY <1>2 DEF Look, CfgTypeOK

LEMMA CfgTypeStep ==
  ASSUME CfgAssumption, CfgTypeOK, CfgNext
  PROVE  CfgTypeOK'
<1>1. /\ cfgMem \in Configs /\ cfgDisk \in Texts /\ cfgTmp \in Texts
      /\ saveSnap \in [CfgThreads -> Texts]
      /\ memVersion \in 0..CfgMaxChanges /\ cfgVersion \in 0..CfgMaxChanges
      /\ cfgHud \in Huds /\ cfgHud.kept \in Looks /\ cfgMem.hud \in Looks
  BY DEF CfgTypeOK, Huds, Configs
<1>2. \A d \in CfgDists : d \in Nat
  BY DEF CfgAssumption
<1>3. CASE LoadFile
  <2>1. cfgMem' \in Configs /\ cfgMem'.dist \in Nearest..Farthest
    BY <1>1, <1>3, CfgParseType, CfgClampType DEF LoadFile
  <2>2. cfgDisk.version \in 0..CfgMaxChanges
    BY <1>1 DEF Texts
  <2>3. QED BY <1>3, <2>1, <2>2 DEF LoadFile, CfgTypeOK
<1>4. CASE LoadMissing
  BY <1>4, CfgConstantTypes DEF LoadMissing, CfgTypeOK
<1>5. CASE LoadUnreadable
  <2>1. 0 \in 0..CfgMaxChanges
    BY DEF CfgAssumption
  <2>2. QED BY <1>5, <2>1, CfgConstantTypes DEF LoadUnreadable, CfgTypeOK
<1>6. CASE DialogCommits
  <2>1. PICK d \in CfgDists, m \in CfgPaths, f \in BOOLEAN :
          Modify("ui", [cfgMem EXCEPT !.dist = d, !.man = m, !.find = f])
    BY <1>6 DEF DialogCommits
  <2>2. [cfgMem EXCEPT !.dist = d, !.man = m, !.find = f] \in Configs
    BY <1>1, <1>2 DEF Configs
  <2>3. cfgHud' \in Huds
    BY <1>1, <1>6 DEF DialogCommits, Huds
  <2>4. QED BY <1>6, <2>1, <2>2, <2>3, ModifyTypes DEF DialogCommits, AtDialog
<1>7. CASE ServerDefaults
  <2>1. PICK d \in CfgDists : Modify("cb", [cfgMem EXCEPT !.dist = d, !.served = "s1"])
    BY <1>7 DEF ServerDefaults
  <2>2. [cfgMem EXCEPT !.dist = d, !.served = "s1"] \in Configs
    BY <1>1, <1>2 DEF Configs
  <2>3. QED BY <1>1, <1>7, <2>1, <2>2, ModifyTypes DEF ServerDefaults
<1>8. CASE DialogOpens
  <2>1. cfgHud' \in Huds
    BY <1>1, <1>8 DEF DialogOpens, Huds
  <2>2. QED BY <1>8, <2>1 DEF DialogOpens, CfgTypeOK
<1>9. CASE DialogPreviews
  <2>1. PICK l \in Looks : Look(l, cfgMem)
    BY <1>9 DEF DialogPreviews
  <2>2. cfgHud' \in Huds
    BY <1>1, <1>9 DEF DialogPreviews, Huds
  <2>3. QED BY <1>1, <2>1, <2>2, LookTypes
<1>10. CASE DialogCloses
  <2>1. cfgHud' \in Huds
    BY <1>1, <1>10 DEF DialogCloses, Huds
  <2>2. QED BY <1>1, <1>10, <2>1, LookTypes DEF DialogCloses
<1>11. CASE DetectStarts
  <2>1. cfgMem.auto \in CfgPaths
    BY <1>1 DEF Configs
  <2>2. QED BY <1>11, <2>1 DEF DetectStarts, CfgTypeOK
<1>12. CASE DetectStores
  <2>1. PICK p \in CfgPaths : Modify("pos", [cfgMem EXCEPT !.auto = p])
    BY <1>12 DEF DetectStores
  <2>2. [cfgMem EXCEPT !.auto = p] \in Configs
    BY <1>1 DEF Configs
  <2>3. QED BY <1>1, <1>12, <2>1, <2>2, ModifyTypes DEF DetectStores
<1>13. CASE DetectGivesUp
  BY <1>13 DEF DetectGivesUp, CfgTypeOK, CfgAssumption
<1>14. ASSUME NEW t \in CfgThreads, Save(t) PROVE CfgTypeOK'
  <2>1. CASE SaveBegins(t)
    <3>1. Serialize(cfgMem) \in Texts
      BY <1>1, CfgSerializeType
    <3>2. cfgHud' \in Huds
      BY <1>1, <2>1 DEF SaveBegins, Huds
    <3>3. QED BY <1>14, <2>1, <3>1, <3>2 DEF SaveBegins, CfgTypeOK
  <2>2. CASE CreateTmp(t)
    <3>1. Torn(saveSnap[t]) \in Texts
      BY <1>1 DEF Torn, Texts
    <3>2. QED BY <2>2, <3>1 DEF CreateTmp, CfgTypeOK
  <2>3. CASE WriteTmp(t)
    BY <2>3 DEF WriteTmp, CfgTypeOK
  <2>4. CASE Swap(t)
    BY <2>4, CfgConstantTypes DEF Swap, CfgTypeOK
  <2>5. CASE SaveFails(t)
    BY <2>5, CfgConstantTypes DEF SaveFails, CfgTypeOK
  <2>6. QED BY <1>14, <2>1, <2>2, <2>3, <2>4, <2>5 DEF Save
<1>15. CASE Kill
  <2>1. 0 \in 0..CfgMaxChanges /\ "none" \in CfgPaths
    BY DEF CfgAssumption
  <2>2. QED BY <1>15, <2>1, CfgConstantTypes DEF Kill, CfgTypeOK
<1>16. CASE UserEdits
  <2>1. cfgVersion' \in 0..CfgMaxChanges /\ cfgVersion' = cfgVersion + 1
    BY <1>1, <1>16 DEF UserEdits, CfgAssumption
  <2>2. PICK d \in CfgDists :
          cfgDisk' = [cfgDisk EXCEPT !.cfg.dist = d, !.version = cfgVersion + 1]
    BY <1>16 DEF UserEdits
  <2>3. [cfgDisk.cfg EXCEPT !.dist = d] \in Configs
    BY <1>1, <1>2 DEF Texts, Configs
  <2>4. cfgDisk' \in Texts
    BY <1>1, <2>1, <2>2, <2>3 DEF Texts
  <2>5. QED BY <1>16, <2>1, <2>4 DEF UserEdits, CfgTypeOK
<1>17. QED
  BY <1>3, <1>4, <1>5, <1>6, <1>7, <1>11, <1>12, <1>13, <1>14, <1>15, <1>16,
     <1>8, <1>9, <1>10 DEF CfgNext

LEMMA ModifySave ==
  ASSUME CfgAssumption, CfgTypeOK, SaveInv, CurrentInv, NEW t \in CfgThreads, NEW new,
         Modify(t, new), ~Saving(t)
  PROVE  SaveInv' /\ CurrentInv'
<1>1. SomeSave'
  BY DEF SomeSave, Modify, CfgTypeOK
<1>2. \A u \in CfgThreads : Saving(u)' => Saving(u) /\ cfgPc'[u] = cfgPc[u]
  BY DEF Saving, Modify, CfgTypeOK
<1>3. SaveInv'
  BY <1>2 DEF SaveInv, Saving, Modify, FileWhole, CfgTypeOK
<1>4. QED BY <1>1, <1>3 DEF CurrentInv

(* A change of the look alone leaves a text as current as it was, once it  *)
(* is remembered that the look has been changed.                           *)
LEMMA LookCurrent ==
  ASSUME CfgAssumption, CfgTypeOK, NEW l \in Looks, Look(l, cfgMem),
         cfgHud'.unsaved \/ (cfgHud'.unsaved = cfgHud.unsaved /\ l = cfgMem.hud),
         NEW text \in Texts, Current(text)
  PROVE  /\ [ParseText(text) EXCEPT !.hud = cfgMem'.hud] = Printed(cfgMem')
         /\ cfgHud'.unsaved \/ ParseText(text).hud = cfgMem'.hud
<1>1. ParseText(text) \in Configs
  BY CfgParseType
<1>2. cfgMem \in Configs /\ ClampDist(cfgMem.dist) = cfgMem.dist
  <2>1. cfgMem \in Configs /\ cfgMem.dist \in Nearest..Farthest /\ Nearest \in Nat /\ Farthest \in Nat
    BY CfgRange DEF CfgTypeOK
  <2>2. QED BY <2>1 DEF ClampDist
<1>3. cfgMem' = [cfgMem EXCEPT !.hud = l]
  <2>1. [cfgMem EXCEPT !.hud = l].dist = cfgMem.dist
    BY <1>2 DEF Configs
  <2>2. QED BY <1>2, <2>1 DEF Look, ClampConfig, Configs
<1>4. Printed(cfgMem') = [Printed(cfgMem) EXCEPT !.hud = l] /\ cfgMem'.hud = l
  BY <1>2, <1>3 DEF Printed, Configs
<1>5. [ParseText(text) EXCEPT !.hud = cfgMem.hud] = Printed(cfgMem)
  BY DEF Current
<1>6. [[ParseText(text) EXCEPT !.hud = cfgMem.hud] EXCEPT !.hud = l]
        = [ParseText(text) EXCEPT !.hud = l]
  BY <1>1 DEF Configs
<1>7. cfgHud'.unsaved \/ ParseText(text).hud = cfgMem'.hud
  BY <1>4 DEF Current
<1>8. QED BY <1>4, <1>5, <1>6, <1>7

LEMMA LookSave ==
  ASSUME CfgAssumption, CfgTypeOK, SaveInv, CurrentInv, NEW l \in Looks, Look(l, cfgMem),
         cfgHud'.unsaved \/ (cfgHud'.unsaved = cfgHud.unsaved /\ l = cfgMem.hud)
  PROVE  SaveInv' /\ CurrentInv'
<1>1. UNCHANGED <<cfgPc, saveLock, saveSnap, cfgTmp, cfgDisk, cfgUp, cfgAstray>>
  BY DEF Look
<1>2. \A text \in Texts : Current(text) =>
        /\ [ParseText(text) EXCEPT !.hud = cfgMem'.hud] = Printed(cfgMem')
        /\ cfgHud'.unsaved \/ ParseText(text).hud = cfgMem'.hud
  BY LookCurrent
<1>3. cfgDisk \in Texts /\ \A t \in CfgThreads : saveSnap[t] \in Texts
  BY DEF CfgTypeOK
<1>4. Current(cfgDisk) => Current(cfgDisk)'
  BY <1>1, <1>2, <1>3 DEF Current
<1>5. \A t \in CfgThreads : Current(saveSnap[t]) => Current(saveSnap[t])'
  BY <1>1, <1>2, <1>3 DEF Current
<1>6. SaveInv'
  BY <1>1 DEF SaveInv, Saving, FileWhole
<1>7. CurrentInv'
  BY <1>1, <1>4, <1>5 DEF CurrentInv, SomeSave, Saving
<1>8. QED BY <1>6, <1>7

LEMMA SaveStep ==
  ASSUME CfgAssumption, CfgTypeOK, SaveInv, CurrentInv, CfgNext
  PROVE  SaveInv' /\ CurrentInv'
<1> USE DEF Saving
<1>1. CASE LoadFile
  <2>1. SaveInv'
    BY <1>1 DEF LoadFile, SaveInv, FileWhole
  <2>2. ParseText(cfgDisk) \in Configs /\ cfgMem' \in Configs
    BY <1>1, CfgParseType, CfgClampType DEF LoadFile, CfgTypeOK
  <2>3. ASSUME cfgAstray' = "no" PROVE Current(cfgDisk)'
    <3>1. ParseText(cfgDisk) = Printed(cfgMem') /\ cfgDisk' = cfgDisk
      BY <1>1, <2>3 DEF LoadFile
    <3>2. ParseText(cfgDisk).hud = cfgMem'.hud
      BY <2>2, <3>1 DEF Printed, Configs
    <3>3. [ParseText(cfgDisk) EXCEPT !.hud = cfgMem'.hud] = ParseText(cfgDisk)
      BY <2>2, <3>2 DEF Configs
    <3>4. QED BY <3>1, <3>2, <3>3 DEF Current
  <2>4. \A t \in CfgThreads : ~Saving(t)'
    BY <1>1 DEF LoadFile, SaveInv
  <2>5. QED BY <2>1, <2>3, <2>4 DEF CurrentInv
<1>2. CASE LoadMissing
  BY <1>2 DEF LoadMissing, SaveInv, CurrentInv, SomeSave, Current, FileWhole, CfgTypeOK
<1>3. CASE LoadUnreadable
  BY <1>3 DEF LoadUnreadable, SaveInv, CurrentInv, SomeSave, Current, FileWhole, CfgTypeOK
<1>4. CASE DialogCommits
  BY <1>4, ModifySave DEF DialogCommits, AtDialog
<1>5. CASE ServerDefaults
  BY <1>5, ModifySave DEF ServerDefaults
<1>6. CASE DetectStarts
  <2>1. /\ UNCHANGED <<cfgMem, saveLock, saveSnap, cfgTmp, cfgDisk, cfgUp, cfgAstray, cfgHud>>
        /\ cfgUp /\ cfgPc' = [cfgPc EXCEPT !["pos"] = "detect"] /\ cfgPc["pos"] = "idle"
    BY <1>6 DEF DetectStarts, Started
  <2>2. /\ \A t \in CfgThreads : Saving(t)' => Saving(t)
        /\ \A t \in CfgThreads : Saving(t) => Saving(t)' /\ cfgPc'[t] = cfgPc[t]
        /\ \A t \in CfgThreads : (cfgPc'[t] = "save") <=> (cfgPc[t] = "save")
        /\ \A t \in CfgThreads : (cfgPc'[t] = "swap") <=> (cfgPc[t] = "swap")
    BY <2>1 DEF CfgTypeOK
  <2>3. SaveInv'
    BY <2>1, <2>2 DEF SaveInv, FileWhole
  <2>4. CurrentInv'
    BY <2>1, <2>2 DEF CurrentInv, SomeSave, Current
  <2>5. QED BY <2>3, <2>4
<1>7. CASE DetectStores
  BY <1>7, ModifySave DEF DetectStores
<1>8. CASE DetectGivesUp
  BY <1>8 DEF DetectGivesUp, SaveInv, CurrentInv, SomeSave, Current, FileWhole, CfgTypeOK
<1>9. ASSUME NEW t \in CfgThreads, SaveBegins(t) PROVE SaveInv' /\ CurrentInv'
  <2>1. \A u \in CfgThreads : ~Saving(u)
    BY <1>9 DEF SaveBegins, SaveInv, CfgAssumption
  <2>2. saveSnap'[t].whole /\ Current(saveSnap[t])'
    <3>1. /\ cfgMem \in Configs /\ cfgMem' = cfgMem /\ saveSnap'[t] = Serialize(cfgMem)
          /\ Serialize(cfgMem).whole /\ ParseText(Serialize(cfgMem)) = Printed(cfgMem)
      BY <1>9, CfgSerializeType, CfgRoundTrip DEF SaveBegins, CfgTypeOK
    <3>2. Printed(cfgMem).hud = cfgMem.hud
          /\ [Printed(cfgMem) EXCEPT !.hud = cfgMem.hud] = Printed(cfgMem)
      BY <3>1 DEF Printed, Configs
    <3>3. QED BY <3>1, <3>2 DEF Current
  <2>3. cfgUp /\ \A u \in CfgThreads : Saving(u)' <=> u = t
    BY <1>9, <2>1 DEF SaveBegins, SaveInv, CfgTypeOK
  <2>4. SaveInv'
    BY <1>9, <2>2, <2>3 DEF SaveBegins, SaveInv, FileWhole, CfgTypeOK
  <2>5. CurrentInv'
    BY <2>2, <2>3 DEF CurrentInv
  <2>6. QED BY <2>4, <2>5
<1>10. ASSUME NEW t \in CfgThreads, CreateTmp(t) \/ WriteTmp(t) PROVE SaveInv' /\ CurrentInv'
  <2>1. /\ \A u \in CfgThreads : Saving(u)' <=> Saving(u)
        /\ \A u \in CfgThreads : cfgPc'[u] = "save" <=> cfgPc[u] = "save"
        /\ UNCHANGED <<cfgMem, saveSnap, saveLock, cfgDisk, cfgUp, cfgAstray, cfgHud>>
    BY <1>10 DEF CreateTmp, WriteTmp, CfgTypeOK
  <2>2. CurrentInv'
    BY <2>1 DEF CurrentInv, Current, SomeSave
  <2>3. \A u \in CfgThreads : cfgPc'[u] = "swap" => u = t /\ cfgTmp' = saveSnap'[u]
    <3>1. \A u \in CfgThreads \ {t} : ~Saving(u) /\ cfgPc'[u] = cfgPc[u]
      BY <1>10 DEF CreateTmp, WriteTmp, SaveInv, CfgTypeOK
    <3>2. QED BY <1>10, <3>1 DEF CreateTmp, WriteTmp, CfgTypeOK
  <2>4. SaveInv'
    BY <1>10, <2>1, <2>3 DEF SaveInv, FileWhole, CreateTmp, WriteTmp, CfgTypeOK
  <2>5. QED BY <2>2, <2>4
<1>11. ASSUME NEW t \in CfgThreads, Swap(t) \/ SaveFails(t) PROVE SaveInv' /\ CurrentInv'
  <2>1. \A u \in CfgThreads : ~Saving(u)'
    BY <1>11 DEF Swap, SaveFails, SaveInv, CfgTypeOK
  <2>2. cfgDisk' = cfgDisk \/ (Swap(t) /\ cfgDisk' = saveSnap[t])
    BY <1>11 DEF Swap, SaveFails, SaveInv
  <2>3. SaveInv'
    BY <1>11, <2>1, <2>2 DEF Swap, SaveFails, SaveInv, FileWhole, CfgTypeOK
  <2>4. CASE SaveFails(t)
    BY <2>1, <2>3, <2>4 DEF SaveFails, CurrentInv
  <2>5. CASE Swap(t)
    <3>1. cfgDisk' = saveSnap[t] /\ cfgMem' = cfgMem /\ cfgHud' = cfgHud
      BY <2>5 DEF Swap, SaveInv
    <3>2. SomeSave \/ Current(saveSnap[t])
      BY <2>5 DEF Swap, CurrentInv
    <3>3. SomeSave => SomeSave'
      BY <2>5 DEF Swap, SomeSave, CfgTypeOK
    <3>4. QED BY <2>1, <2>3, <3>1, <3>2, <3>3 DEF CurrentInv, Current
  <2>6. QED BY <1>11, <2>3, <2>4, <2>5
<1>12. CASE Kill
  BY <1>12 DEF Kill, SaveInv, CurrentInv, FileWhole, CfgTypeOK
<1>13. CASE UserEdits
  <2>1. cfgDisk'.whole = cfgDisk.whole
    BY <1>13 DEF UserEdits, CfgTypeOK, Texts
  <2>2. QED BY <1>13, <2>1 DEF UserEdits, SaveInv, CurrentInv, FileWhole
<1>14. CASE DialogOpens
  <2>1. /\ UNCHANGED <<cfgMem, cfgPc, saveLock, saveSnap, cfgTmp, cfgDisk, cfgUp, cfgAstray>>
        /\ cfgHud'.unsaved = cfgHud.unsaved
    BY <1>14 DEF DialogOpens, CfgTypeOK, Huds
  <2>2. QED BY <2>1 DEF SaveInv, CurrentInv, SomeSave, Current, FileWhole
<1>15. CASE DialogPreviews
  <2>1. PICK l \in Looks : Look(l, cfgMem)
    BY <1>15 DEF DialogPreviews
  <2>2. cfgHud'.unsaved
    BY <1>15 DEF DialogPreviews, CfgTypeOK, Huds
  <2>3. QED BY <2>1, <2>2, LookSave
<1>16. CASE DialogCloses
  <2>1. Look(cfgHud.kept, cfgMem) /\ cfgHud.kept \in Looks
    BY <1>16 DEF DialogCloses, CfgTypeOK, Huds
  <2>2. cfgHud'.unsaved = IF cfgMem.hud = cfgHud.kept THEN cfgHud.unsaved ELSE TRUE
    BY <1>16 DEF DialogCloses, CfgTypeOK, Huds
  <2>3. cfgHud'.unsaved \/ (cfgHud'.unsaved = cfgHud.unsaved /\ cfgHud.kept = cfgMem.hud)
    BY <2>2 DEF CfgTypeOK, Huds
  <2>4. QED BY <2>1, <2>3, LookSave
<1>17. QED
  BY <1>1, <1>2, <1>3, <1>4, <1>5, <1>6, <1>7, <1>8, <1>9, <1>10, <1>11, <1>12, <1>13,
     <1>14, <1>15, <1>16 DEF CfgNext, Save

LEMMA CfgStart ==
  ASSUME CfgAssumption, CfgInit
  PROVE  CfgTypeOK /\ SaveInv /\ CurrentInv
<1>1. cfgDisk \in Texts /\ cfgDisk.whole
  BY CfgConstantTypes DEF CfgInit
<1>2. CfgTypeOK
  <2>1. 0 \in 0..CfgMaxChanges /\ "none" \in CfgPaths
    BY DEF CfgAssumption
  <2>2. QED BY <1>1, <2>1, CfgConstantTypes DEF CfgInit, CfgTypeOK
<1>3. SaveInv /\ CurrentInv
  BY <1>1 DEF CfgInit, SaveInv, CurrentInv, Saving, FileWhole
<1>4. QED BY <1>2, <1>3

(* The variables keep their types, and every distance in memory is inside  *)
(* the range, whatever the file, the server or the dialog gave.            *)
THEOREM ConfigTypes ==
  ASSUME CfgAssumption
  PROVE  CfgSpec => []CfgTypeOK
<1>1. CfgTypeOK /\ [CfgNext]_cfgvars => CfgTypeOK'
  <2>1. CASE UNCHANGED cfgvars
    BY <2>1 DEF cfgvars, CfgTypeOK
  <2>2. QED BY <2>1, CfgTypeStep
<1>2. QED BY <1>1, CfgStart, PTL DEF CfgSpec

(* plugin.cfg is whole at whatever moment TeamSpeak dies, and at rest it   *)
(* reads as what is in memory but for a look of the display that was       *)
(* previewed or undone since, for any threads, distances and paths, any    *)
(* number of changes, crashes and failing writes.                          *)
THEOREM ConfigFileIsSafe ==
  ASSUME CfgAssumption
  PROVE  CfgSpec => []FileIsCurrent
<1>1. SaveInv /\ CurrentInv /\ CfgTypeOK /\ [CfgNext]_cfgvars => SaveInv' /\ CurrentInv'
  <2>1. CASE UNCHANGED cfgvars
    BY <2>1 DEF cfgvars, SaveInv, CurrentInv, Saving, SomeSave, Current, FileWhole
  <2>2. QED BY <2>1, SaveStep
<1>2. SaveInv /\ CurrentInv => FileIsCurrent
  BY DEF SaveInv, CurrentInv, FileIsCurrent, RestIsCurrent, CfgAtRest, Current, SomeSave, Saving
<1>3. CfgSpec => []CfgTypeOK
  BY ConfigTypes
<1>4. QED BY <1>1, <1>2, <1>3, CfgStart, PTL DEF CfgSpec

-----------------------------------------------------------------------------
(* Settings: the numbers of a distance field are whole, whatever they are. *)

LEMMA RangeTypes ==
  ASSUME SetAssumption, NEW mm \in Int, NEW u \in 0..1
  PROVE  /\ Shown(mm, u) \in Int /\ ToMm(mm, u) \in Int /\ Transport(mm, u) \in Int
         /\ CorrectToLimits(mm, u, HubLo, HubHi) \in Int
         /\ LimitsOnDisplay(HubLo, HubHi, u) \in [lo : Int, hi : Int]
<1>1. Step(u) \in Int /\ Step(u) > 0 /\ Step(0) \in Int /\ Step(0) > 0
  BY DEF Step
<1>2. HubLo \in Int /\ HubHi \in Int
  BY DEF SetAssumption
<1>3. \A x, s \in Int : s > 0 => x \div s \in Int /\ x % s \in Int
  OBVIOUS
<1>4. \A x \in Int : Shown(x, u) \in Int /\ Shown(x, 0) \in Int
  BY <1>1, <1>3 DEF Shown
<1>5. \A x \in Int : ToMm(x, u) \in Int /\ ToMm(x, 0) \in Int
  BY <1>1 DEF ToMm
<1>6. Transport(mm, u) \in Int
  BY <1>4, <1>5 DEF Transport
<1>7. \A x \in Int : MinOnDisplay(x, u) \in Int /\ MaxOnDisplay(x, u) \in Int
  BY <1>1, <1>3 DEF MinOnDisplay, MaxOnDisplay
<1>8. \A x, y, z \in Int : ClampMm(x, y, z) \in Int
  BY DEF ClampMm
<1>9. LimitsOnDisplay(HubLo, HubHi, u) \in [lo : Int, hi : Int]
  BY <1>1, <1>2, <1>4, <1>5, <1>7 DEF LimitsOnDisplay
<1>10. CorrectToLimits(mm, u, HubLo, HubHi) \in Int
  BY <1>2, <1>8, <1>9 DEF CorrectToLimits
<1>11. QED BY <1>4, <1>5, <1>6, <1>9, <1>10

LEMMA ReadFieldType ==
  ASSUME SetAssumption, NEW n \in Int, NEW u \in 0..1, NEW old \in Int, NEW limits \in BOOLEAN
  PROVE  ReadField(n, u, old, limits, HubLo, HubHi) \in Int
<1>1. HubLo \in Int /\ HubHi \in Int /\ Refused \in Int
  BY DEF SetAssumption, Refused
<1>2. \A x, y, z \in Int : ClampMm(x, y, z) \in Int
  BY DEF ClampMm
<1>3. ToMm(n, u) \in Int
  BY RangeTypes
<1>4. QED BY <1>1, <1>2, <1>3 DEF ReadField

DialogOf == [work : SettingsOf(Int), unit : 0..1, field : Int, fieldUnit : 0..1, hudSaved : 0..1]
SlotOf == [used : BOOLEAN, dist : Int, key : Keys]

SetShape ==
  /\ live \in SettingsOf(Int) /\ stored \in SettingsOf(Int) /\ dlg \in DialogOf
  /\ preset \in SlotOf /\ presetFile \in SlotOf
  /\ strict \in BOOLEAN /\ inZone \in BOOLEAN

(* While the dialog is there it remembers the display that is stored.      *)
SetInv ==
  /\ OnlyStoredIsLive /\ UnitAgrees
  /\ phase # "closed" => dlg.hudSaved = stored.hud

(* A change of the dialog that keeps the field in the unit of the display  *)
(* and remembers the saved display.                                        *)
Keeps(d, e) ==
  /\ e \in DialogOf /\ e.hudSaved = d.hudSaved
  /\ d.fieldUnit = d.unit => e.fieldUnit = e.unit

LEMMA KeepsTwice ==
  ASSUME NEW c, NEW d, NEW e, Keeps(c, d), Keeps(d, e)
  PROVE  Keeps(c, e)
BY DEF Keeps

LEMMA ShowKeeps ==
  ASSUME SetAssumption, NEW d \in DialogOf, NEW mm \in Int
  PROVE  /\ Show(d, mm) \in DialogOf /\ Show(d, mm).fieldUnit = Show(d, mm).unit
         /\ Show(d, mm).hudSaved = d.hudSaved /\ Show(d, mm).unit = d.unit
         /\ Show(d, mm).work = d.work
<1>1. Shown(mm, d.unit) \in Int
  BY RangeTypes DEF DialogOf
<1>2. QED BY <1>1 DEF DialogOf, Show

LEMMA WorkKeeps ==
  ASSUME NEW d \in DialogOf
  PROVE  /\ \A x \in Int : Keeps(d, [d EXCEPT !.work.dist = x])
         /\ \A x \in 0..1 : Keeps(d, [d EXCEPT !.work.unit = x]) /\ Keeps(d, [d EXCEPT !.work.hud = x])
         /\ \A x \in BOOLEAN : Keeps(d, [d EXCEPT !.work.muting = x]) /\ Keeps(d, [d EXCEPT !.work.find = x])
         /\ \A x \in Stored : Keeps(d, [d EXCEPT !.work.auto = x])
         /\ \A x \in Keys : Keeps(d, [d EXCEPT !.work.key = x])
BY DEF DialogOf, SettingsOf, Keeps

(* Any page, any refresh; one that is urgent writes the field again.       *)
LEMMA DynamicKeeps ==
  ASSUME SetAssumption, SetShape, NEW d \in DialogOf, NEW c, NEW typing \in BOOLEAN,
         NEW urgent \in BOOLEAN
  PROVE  /\ Keeps(d, Dynamic(d, c, typing, urgent))
         /\ c = 2 /\ urgent =>
              Dynamic(d, c, typing, urgent).fieldUnit = Dynamic(d, c, typing, urgent).unit
<1>1. CASE c # 2
  BY <1>1 DEF Dynamic, Keeps
<1>2. CASE c = 2
  <2> DEFINE changed == UnitNow(d) # d.unit \/ urgent
             e == [d EXCEPT !.unit = UnitNow(d), !.work.muting = @ \/ strict]
             value == IF inZone THEN ZoneDist
                      ELSE IF strict THEN CorrectToLimits(e.work.dist, e.unit, HubLo, HubHi)
                      ELSE e.work.dist
             f == IF typing /\ ~changed THEN e ELSE Show(e, value)
             g == [f EXCEPT !.work.dist = value]
  <2>1. UnitNow(d) \in 0..1
    BY DEF UnitNow, Effective
  <2>2. /\ e \in DialogOf /\ e.hudSaved = d.hudSaved /\ e.unit = UnitNow(d)
        /\ e.fieldUnit = d.fieldUnit
    BY <2>1 DEF DialogOf, SettingsOf, SetShape
  <2>3. Dynamic(d, c, typing, urgent) = IF inZone THEN f ELSE g
    BY <1>2 DEF Dynamic
  <2>4. value \in Int
    <3> HIDE DEF e
    <3>1. e.work.dist \in Int /\ e.unit \in 0..1
      BY <2>2 DEF DialogOf, SettingsOf
    <3>2. ZoneDist \in Int
      BY DEF SetAssumption
    <3>3. QED BY <3>1, <3>2, RangeTypes
  <2> HIDE DEF e, value
  <2>5. /\ Keeps(d, f) /\ f \in DialogOf
        /\ urgent => f.fieldUnit = f.unit
    BY <2>2, <2>4, ShowKeeps DEF Keeps
  <2> HIDE DEF f
  <2>6. Keeps(f, g) /\ g.fieldUnit = f.fieldUnit /\ g.unit = f.unit
    BY <2>4, <2>5, WorkKeeps DEF DialogOf
  <2>7. Keeps(d, g)
    BY <2>5, <2>6, KeepsTwice
  <2>8. QED BY <2>3, <2>5, <2>6, <2>7
<1>3. QED BY <1>1, <1>2

LEMMA TypedKeeps ==
  ASSUME SetAssumption, SetShape, NEW d \in DialogOf, NEW n \in Typed, NEW e \in TypedInto(d, n)
  PROVE  /\ e \in DialogOf /\ e.hudSaved = d.hudSaved /\ e.fieldUnit = e.unit
<1> DEFINE x == [d EXCEPT !.field = n, !.fieldUnit = d.unit]
           onDisplay == IF strict THEN LimitsOnDisplay(HubLo, HubHi, d.unit) ELSE [lo |-> 0, hi |-> 0]
           corrected == ClampMm(ToMm(n, d.unit), onDisplay.lo, onDisplay.hi)
           f == IF corrected = ToMm(n, d.unit) THEN x ELSE Show(x, corrected)
           new == IF strict /\ d.unit = 1 THEN ClampMm(corrected, HubLo, HubHi) ELSE corrected
           g == [f EXCEPT !.work.dist = new]
<1>1. n \in Int /\ d.unit \in 0..1 /\ HubLo \in Int /\ HubHi \in Int
  BY DEF SetAssumption, DialogOf
<1>2. x \in DialogOf /\ x.fieldUnit = x.unit /\ x.hudSaved = d.hudSaved
  BY <1>1 DEF DialogOf
<1>3. corrected \in Int /\ new \in Int
  <2>1. ToMm(n, d.unit) \in Int
    BY <1>1, RangeTypes
  <2>2. onDisplay.lo \in Int /\ onDisplay.hi \in Int
    <3>1. LimitsOnDisplay(HubLo, HubHi, d.unit) \in [lo : Int, hi : Int]
      BY <1>1, RangeTypes
    <3>2. QED BY <3>1
  <2>3. \A a, b, c \in Int : ClampMm(a, b, c) \in Int
    BY DEF ClampMm
  <2> HIDE DEF onDisplay
  <2>4. QED BY <1>1, <2>1, <2>2, <2>3
<1>4. \/ e = x
      \/ e \in Refreshed(g, category, TRUE)
  BY DEF TypedInto
<1> HIDE DEF corrected, new, x
<1>5. f \in DialogOf /\ f.fieldUnit = f.unit /\ f.hudSaved = d.hudSaved
  BY <1>2, <1>3, ShowKeeps
<1> HIDE DEF f
<1>6. g \in DialogOf /\ g.fieldUnit = g.unit /\ g.hudSaved = d.hudSaved
  BY <1>3, <1>5, WorkKeeps DEF Keeps
<1> HIDE DEF g
<1>7. e \in Refreshed(g, category, TRUE) => Keeps(g, e)
  <2>1. Keeps(g, g)
    BY <1>6 DEF Keeps
  <2>2. Keeps(g, Dynamic(g, category, TRUE, FALSE))
    BY <1>6, DynamicKeeps
  <2>3. QED BY <2>1, <2>2 DEF Refreshed
<1>8. QED BY <1>2, <1>4, <1>6, <1>7 DEF Keeps

(* A commit makes live and stored the same, and remembers their display.   *)
LEMMA CommitKeeps ==
  ASSUME SetShape, SetInv, NEW d \in DialogOf, Commit(d)
  PROVE  /\ live' = stored' /\ live' \in SettingsOf(Int)
         /\ dlg' \in DialogOf /\ dlg'.hudSaved = stored'.hud
         /\ dlg'.unit = d.unit /\ dlg'.fieldUnit = d.fieldUnit
<1> DEFINE w == ClampWork(d.work)
<1>1. w \in SettingsOf(Int) /\ w.hud \in 0..1
  BY DEF ClampWork, DialogOf, SettingsOf
<1>2. live.auto = stored.auto /\ live.served = stored.served
  BY DEF SetInv, OnlyStoredIsLive, SetShape, SettingsOf
<1>3. live' = Merge(live, w) /\ stored' = StoreOwned(w) /\ dlg' = [d EXCEPT !.work = w, !.hudSaved = w.hud]
  BY DEF Commit
<1> HIDE DEF w
<1>4. live' = stored' /\ live' \in SettingsOf(Int) /\ stored'.hud = w.hud
  BY <1>1, <1>2, <1>3 DEF Merge, StoreOwned, SetShape, SettingsOf
<1>5. QED BY <1>1, <1>3, <1>4 DEF DialogOf

LEMMA WriteKeeps ==
  ASSUME SetAssumption, SetShape, SetInv, NEW d \in DialogOf, NEW path \in Stored, NEW mm \in Int,
         WriteFull(d, path, mm)
  PROVE  /\ live' = stored' /\ live' \in SettingsOf(Int)
         /\ dlg' \in DialogOf /\ dlg'.hudSaved = stored'.hud
         /\ dlg'.unit = d.unit /\ dlg'.fieldUnit = d.fieldUnit
<1> DEFINE w == [d.work EXCEPT !.dist = Transport(mm, d.unit)]
           folder == IF path = "none" THEN "label" ELSE path
           x == IF w.find THEN [w EXCEPT !.auto = folder] ELSE [w EXCEPT !.man = folder]
           e == [d EXCEPT !.work = x]
<1>1. Transport(mm, d.unit) \in Int /\ folder \in Stored
  BY RangeTypes DEF DialogOf, Stored
<1>2. w \in SettingsOf(Int)
  BY <1>1 DEF DialogOf, SettingsOf
<1> HIDE DEF w, folder
<1>3. x \in SettingsOf(Int)
  BY <1>1, <1>2 DEF SettingsOf
<1>4. Commit(e)
  BY DEF WriteFull, w, folder
<1> HIDE DEF x
<1>5. e \in DialogOf /\ e.unit = d.unit /\ e.fieldUnit = d.fieldUnit
  BY <1>3 DEF DialogOf
<1> HIDE DEF e
<1>6. QED BY <1>4, <1>5, CommitKeeps

(* The steps.                                                              *)
SetOK == SetShape /\ SetInv

(* A step that only changes the dialog, keeping the field's unit.          *)
LEMMA DialogOnly ==
  ASSUME SetOK, Keeps(dlg, dlg'), UNCHANGED <<live, stored, phase, preset, presetFile, strict, inZone>>
  PROVE  SetOK'
BY DEF SetOK, SetShape, SetInv, OnlyStoredIsLive, UnitAgrees, Keeps

LEMMA UnitChangedKeeps ==
  ASSUME SetAssumption, SetShape, NEW d \in DialogOf, category = 2
  PROVE  UnitChanged(d) \in DialogOf /\ UnitChanged(d).hudSaved = d.hudSaved
         /\ UnitChanged(d).fieldUnit = UnitChanged(d).unit
<1> DEFINE e == [d EXCEPT !.unit = UnitNow(d)]
<1>1. UnitNow(d) \in 0..1
  BY DEF UnitNow, Effective
<1>2. e \in DialogOf /\ e.hudSaved = d.hudSaved
  BY <1>1 DEF DialogOf
<1>3. UnitChanged(d) = Dynamic(e, 2, FALSE, TRUE)
  BY DEF UnitChanged
<1> HIDE DEF e
<1>4. e \in DialogOf
  BY <1>2
<1>5. /\ Keeps(e, Dynamic(e, 2, FALSE, TRUE))
      /\ Dynamic(e, 2, FALSE, TRUE).fieldUnit = Dynamic(e, 2, FALSE, TRUE).unit
  BY <1>4, DynamicKeeps
<1>6. QED BY <1>2, <1>3, <1>5 DEF Keeps

LEMMA EditStep ==
  ASSUME SetAssumption, SetOK,
         \/ \E n \in Typed : Type(n)
         \/ ToggleMuting \/ ToggleUnit \/ ToggleFind \/ \E k \in Keys : CaptureKey(k)
  PROVE  SetOK'
<1> SUFFICES Keeps(dlg, dlg') /\ UNCHANGED <<live, stored, phase, preset, presetFile, strict, inZone>>
  BY DialogOnly
<1>1. dlg \in DialogOf /\ SetShape
  BY DEF SetOK, SetShape
<1>2. ASSUME NEW e, Edit(e)
      PROVE  dlg' = e /\ UNCHANGED <<live, stored, phase, preset, presetFile, strict, inZone>>
             /\ dlg.fieldUnit = dlg.unit
  BY <1>2 DEF Edit, Window, SetOK, SetInv, UnitAgrees
<1>3. ASSUME NEW n \in Typed, Type(n)
      PROVE  Keeps(dlg, dlg') /\ UNCHANGED <<live, stored, phase, preset, presetFile, strict, inZone>>
  <2>1. [dlg EXCEPT !.field = n] \in DialogOf /\ [dlg EXCEPT !.field = n].hudSaved = dlg.hudSaved
    BY <1>1 DEF DialogOf, SetAssumption
  <2>2. CASE UnitNow(dlg) # dlg.unit
    <3>1. Edit(UnitChanged([dlg EXCEPT !.field = n])) /\ category = 2
      BY <1>3, <2>2 DEF Type
    <3>2. dlg' = UnitChanged([dlg EXCEPT !.field = n])
      BY <3>1, <1>2
    <3>3. Keeps(dlg, dlg')
      BY <1>1, <2>1, <3>1, <3>2, UnitChangedKeeps DEF Keeps
    <3>4. QED BY <1>2, <3>1, <3>3
  <2>3. CASE UnitNow(dlg) = dlg.unit
    <3>1. PICK e \in TypedInto(dlg, n) : Edit(e)
      BY <1>3, <2>3 DEF Type
    <3>2. Keeps(dlg, e)
      BY <1>1, TypedKeeps DEF Keeps
    <3>3. QED BY <1>2, <3>1, <3>2
  <2>4. QED BY <2>2, <2>3
<1>4. ASSUME ToggleMuting
      PROVE  Keeps(dlg, dlg') /\ UNCHANGED <<live, stored, phase, preset, presetFile, strict, inZone>>
  <2>1. CASE strict
    <3>1. Edit([dlg EXCEPT !.work.muting = TRUE])
      BY <1>4, <2>1 DEF ToggleMuting
    <3>2. Keeps(dlg, [dlg EXCEPT !.work.muting = TRUE])
      BY <1>1, WorkKeeps
    <3>3. QED BY <1>2, <3>1, <3>2
  <2>2. CASE ~strict
    <3> DEFINE g == [dlg EXCEPT !.work.muting = ~@]
    <3>1. PICK e \in Refreshed(g, 2, FALSE) : Edit(e)
      BY <1>4, <2>2 DEF ToggleMuting
    <3>2. Keeps(dlg, g)
      BY <1>1 DEF DialogOf, SettingsOf, Keeps
    <3> HIDE DEF g
    <3>3. Keeps(g, g) /\ Keeps(g, Dynamic(g, 2, FALSE, FALSE))
      BY <1>1, <3>2, DynamicKeeps DEF Keeps
    <3>4. Keeps(g, e)
      BY <3>1, <3>3 DEF Refreshed
    <3>5. Keeps(dlg, e)
      BY <3>2, <3>4, KeepsTwice
    <3>6. QED BY <1>2, <3>1, <3>5
  <2>3. QED BY <2>1, <2>2
<1>5. ASSUME ToggleUnit
      PROVE  Keeps(dlg, dlg') /\ UNCHANGED <<live, stored, phase, preset, presetFile, strict, inZone>>
  <2> DEFINE g == [dlg EXCEPT !.work.unit = 1 - @]
  <2>1. Edit(UnitChanged(g)) /\ category = 2
    BY <1>5 DEF ToggleUnit
  <2>2. g \in DialogOf /\ g.hudSaved = dlg.hudSaved
    BY <1>1 DEF DialogOf, SettingsOf
  <2> HIDE DEF g
  <2>3. Keeps(dlg, UnitChanged(g))
    BY <1>1, <2>1, <2>2, UnitChangedKeeps DEF Keeps
  <2>4. QED BY <1>2, <2>1, <2>3
<1>6. ASSUME ToggleFind
      PROVE  Keeps(dlg, dlg') /\ UNCHANGED <<live, stored, phase, preset, presetFile, strict, inZone>>
  <2>1. Edit([dlg EXCEPT !.work.find = ~@])
    BY <1>6 DEF ToggleFind
  <2>2. Keeps(dlg, [dlg EXCEPT !.work.find = ~@])
    BY <1>1 DEF DialogOf, SettingsOf, Keeps
  <2>3. QED BY <1>2, <2>1, <2>2
<1>7. ASSUME NEW k \in Keys, CaptureKey(k)
      PROVE  Keeps(dlg, dlg') /\ UNCHANGED <<live, stored, phase, preset, presetFile, strict, inZone>>
  <2>1. Edit([dlg EXCEPT !.work.key = k])
    BY <1>7 DEF CaptureKey
  <2>2. Keeps(dlg, [dlg EXCEPT !.work.key = k])
    BY <1>1, WorkKeeps
  <2>3. QED BY <1>2, <2>1, <2>2
<1>8. QED BY <1>3, <1>4, <1>5, <1>6, <1>7

(* A step that commits.                                                    *)
LEMMA CommitStep ==
  ASSUME SetOK, live' = stored', live' \in SettingsOf(Int), dlg' \in DialogOf,
         dlg'.hudSaved = stored'.hud, phase' = "open", dlg'.fieldUnit = dlg'.unit,
         UNCHANGED <<presetFile, strict, inZone>>, preset' = preset
  PROVE  SetOK'
BY DEF SetOK, SetShape, SetInv, OnlyStoredIsLive, UnitAgrees, SettingsOf

LEMMA SaveSettings ==
  ASSUME SetAssumption, SetOK, SaveOptions \/ SavePatch \/ LoadPreset
  PROVE  SetOK'
<1>1. dlg \in DialogOf /\ SetShape /\ SetInv /\ preset \in SlotOf
  BY DEF SetOK, SetShape
<1>2. /\ phase = "open" /\ UNCHANGED <<phase, preset, presetFile, strict, inZone>>
      /\ dlg.fieldUnit = dlg.unit
  BY <1>1 DEF SaveOptions, SavePatch, LoadPreset, Window, SetInv, UnitAgrees
<1>3. \A w \in SettingsOf(Int) : ActivePath(w) \in Stored
  BY DEF ActivePath, SettingsOf
<1>4. dlg.work \in SettingsOf(Int) /\ dlg.work.dist \in Int /\ dlg.unit \in 0..1 /\ dlg.field \in Int
  BY <1>1 DEF DialogOf, SettingsOf
<1>5. Collect(dlg) \in Int
  BY <1>1, <1>4, ReadFieldType DEF Collect, SetShape
<1>6. ASSUME UNCHANGED <<live, stored, dlg>> PROVE SetOK'
  BY <1>2, <1>6 DEF SetOK, SetShape, SetInv, OnlyStoredIsLive, UnitAgrees
<1>7. ASSUME NEW p \in Stored, NEW mm \in Int, WriteFull(dlg, p, mm) PROVE SetOK'
  BY <1>1, <1>2, <1>7, WriteKeeps, CommitStep
<1>8. CASE SaveOptions
  <2>1. CASE dlg' = UnitChanged(dlg) /\ UNCHANGED <<live, stored>>
    <3>1. category = 2
      BY <1>8 DEF SaveOptions
    <3>2. Keeps(dlg, dlg')
      BY <1>1, <2>1, <3>1, UnitChangedKeeps DEF Keeps
    <3>3. QED BY <1>2, <2>1, <3>2, DialogOnly
  <2>2. CASE WriteFull(dlg, ActivePath(dlg.work), Collect(dlg))
    BY <1>3, <1>4, <1>5, <1>7, <2>2
  <2>3. CASE Commit([dlg EXCEPT !.work.dist = Collect(dlg)])
    <3> DEFINE g == [dlg EXCEPT !.work.dist = Collect(dlg)]
    <3>1. g \in DialogOf /\ g.fieldUnit = dlg.fieldUnit /\ g.unit = dlg.unit
      BY <1>1, <1>5 DEF DialogOf, SettingsOf
    <3>2. Commit(g)
      BY <2>3
    <3> HIDE DEF g
    <3>3. QED BY <1>1, <1>2, <3>1, <3>2, CommitKeeps, CommitStep
  <2>4. QED BY <1>6, <1>8, <2>1, <2>2, <2>3 DEF SaveOptions
<1>9. CASE SavePatch
  <2>1. \A p \in Paths : p \in Stored
    BY DEF Stored
  <2>2. QED BY <1>4, <1>6, <1>7, <1>9, <2>1 DEF SavePatch
<1>10. CASE LoadPreset
  <2> DEFINE d == [dlg EXCEPT !.work.dist = preset.dist, !.work.key = preset.key]
             e == Show(d, preset.dist)
  <2>1. preset.dist \in Int /\ preset.key \in Keys
    BY <1>1 DEF SlotOf
  <2>2. d \in DialogOf
    BY <1>1, <2>1 DEF DialogOf, SettingsOf
  <2>3. WriteFull(e, ActivePath(d.work), preset.dist)
    BY <1>10 DEF LoadPreset
  <2>4. ActivePath(d.work) \in Stored
    BY <1>3, <2>2 DEF DialogOf
  <2> HIDE DEF d
  <2>5. e \in DialogOf /\ e.fieldUnit = e.unit
    BY <2>1, <2>2, ShowKeeps
  <2> HIDE DEF e
  <2>6. QED BY <1>1, <1>2, <2>1, <2>3, <2>4, <2>5, WriteKeeps, CommitStep
<1>11. QED BY <1>8, <1>9, <1>10

LEMMA WindowStep ==
  ASSUME SetAssumption, SetOK,
         DialogBegins \/ DialogShows \/ DialogEnds \/ Preview \/ \E c \in 1..3 : ShowCategory(c)
  PROVE  SetOK'
<1>1. dlg \in DialogOf /\ SetShape /\ SetInv
  BY DEF SetOK, SetShape
<1>2. CASE DialogBegins
  <2>1. Begin \in DialogOf /\ Begin.hudSaved = live.hud
    <3>1. Effective(live.unit, strict) \in 0..1 /\ live.hud \in 0..1
      BY <1>1 DEF Effective, SetShape, SettingsOf
    <3>2. QED BY <1>1, <3>1 DEF Begin, DialogOf, SetShape
  <2>2. QED
    BY <1>1, <1>2, <2>1
       DEF DialogBegins, Click, SetOK, SetShape, SetInv, OnlyStoredIsLive, UnitAgrees
<1>3. CASE DialogShows
  <2>1. UNCHANGED <<preset, presetFile, strict, inZone>> /\ phase = "opening" /\ phase' = "open"
    BY <1>3 DEF DialogShows
  <2>2. dlg.work.dist \in Int /\ dlg.unit \in 0..1 /\ dlg.hudSaved = stored.hud
    BY <1>1, <2>1 DEF DialogOf, SettingsOf, SetInv
  <2>3. ASSUME NEW p \in Paths,
               LET d == [dlg EXCEPT !.work.auto = p]
               IN WriteFull(Show(d, Transport(d.work.dist, d.unit)), p, d.work.dist) \/ 
                  WriteFull(Show(d, Transport(d.work.dist, d.unit)), p, dlg.work.dist)
        PROVE  SetOK'
    <3> DEFINE d == [dlg EXCEPT !.work.auto = p]
               e == Show(d, Transport(d.work.dist, d.unit))
    <3>1. p \in Stored /\ d \in DialogOf /\ d.work.dist = dlg.work.dist /\ d.unit = dlg.unit
      BY <1>1, WorkKeeps DEF Stored, Keeps, DialogOf, SettingsOf
    <3>2. WriteFull(e, p, dlg.work.dist)
      BY <2>3, <3>1
    <3> HIDE DEF d
    <3>3. e \in DialogOf /\ e.fieldUnit = e.unit
      BY <2>2, <3>1, RangeTypes, ShowKeeps
    <3> HIDE DEF e
    <3>4. QED BY <1>1, <2>1, <2>2, <3>1, <3>2, <3>3, WriteKeeps, CommitStep
  <2>4. CASE dlg' = Show(dlg, dlg.work.dist) /\ UNCHANGED <<live, stored>>
    <3>1. dlg' \in DialogOf /\ dlg'.fieldUnit = dlg'.unit /\ dlg'.hudSaved = dlg.hudSaved
      BY <1>1, <2>2, <2>4, ShowKeeps
    <3>2. QED
      BY <1>1, <2>1, <2>2, <2>4, <3>1 DEF SetOK, SetShape, SetInv, OnlyStoredIsLive, UnitAgrees
  <2>5. QED BY <1>3, <2>3, <2>4 DEF DialogShows
<1>4. CASE DialogEnds
  <2>1. dlg.hudSaved = stored.hud
    BY <1>1, <1>4 DEF DialogEnds, SetInv
  <2>2. live' = [live EXCEPT !.hud = dlg.hudSaved] /\ phase' = "closed"
        /\ UNCHANGED <<preset, presetFile, strict, inZone, stored>>
    BY <1>4 DEF DialogEnds, End
  <2>3. dlg' \in DialogOf
    <3>1. Initial \in SettingsOf(Int)
      BY DEF Initial, SettingsOf, Keys, Stored, Paths
    <3>2. 0 \in Int /\ FALSE \in BOOLEAN
      OBVIOUS
    <3>3. dlg' = [dlg EXCEPT !.work = Initial, !.field = 0, !.fieldUnit = dlg.unit]
      BY <1>4 DEF DialogEnds
    <3> HIDE DEF Initial
    <3>4. QED BY <1>1, <3>1, <3>2, <3>3 DEF DialogOf
  <2>4. live' \in SettingsOf(Int) /\ OnlyStoredIsLive'
    BY <1>1, <2>1, <2>2 DEF SetShape, SetInv, OnlyStoredIsLive, SettingsOf, DialogOf
  <2>5. QED BY <1>1, <2>2, <2>3, <2>4 DEF SetOK, SetShape, SetInv, UnitAgrees
<1>5. CASE Preview
  <2>1. 1 - dlg.work.hud \in 0..1
    BY <1>1 DEF DialogOf, SettingsOf
  <2>2. Keeps(dlg, dlg')
    BY <1>1, <1>5, <2>1, WorkKeeps DEF Preview
  <2>3. live' \in SettingsOf(Int) /\ [live' EXCEPT !.hud = stored.hud] = [live EXCEPT !.hud = stored.hud]
    BY <1>1, <1>5, <2>1 DEF Preview, SetShape, SettingsOf
  <2>4. UNCHANGED <<stored, phase, preset, presetFile, strict, inZone>> /\ phase = "open"
    BY <1>5 DEF Preview, Window
  <2>5. QED
    BY <1>1, <2>2, <2>3, <2>4 DEF SetOK, SetShape, SetInv, OnlyStoredIsLive, UnitAgrees, Keeps
<1>6. ASSUME NEW c \in 1..3, ShowCategory(c) PROVE SetOK'
  <2>1. Keeps(dlg, dlg) /\ Keeps(dlg, Dynamic(dlg, c, FALSE, FALSE))
    BY <1>1, DynamicKeeps DEF Keeps
  <2>2. Keeps(dlg, dlg')
    BY <1>6, <2>1 DEF ShowCategory, Refreshed
  <2>3. QED BY <1>6, <2>2, DialogOnly DEF ShowCategory, Window
<1>7. QED BY <1>2, <1>3, <1>4, <1>5, <1>6

(* The other threads change live and stored alike.                         *)
LEMMA ThreadStep ==
  ASSUME SetAssumption, SetOK,
         \/ SavePreset \/ PluginRestarts
         \/ ProfileArrives \/ ProfileLeaves \/ ZoneCrossed \/ PathDetected
  PROVE  SetOK'
<1> USE DEF SetOK, SetInv, OnlyStoredIsLive, UnitAgrees
<1>1. CASE SavePreset
  <2>1. preset' \in SlotOf
    BY <1>1 DEF SavePreset, SetShape, SlotOf, DialogOf, SettingsOf
  <2>2. ToMm(Shown(preset'.dist, 0), 0) \in Int
    BY <2>1, RangeTypes DEF SlotOf
  <2>3. presetFile' \in SlotOf
    BY <1>1, <2>1, <2>2 DEF SavePreset, SetShape, SlotOf
  <2>4. QED BY <1>1, <2>1, <2>3 DEF SavePreset, SetShape
<1>2. CASE PluginRestarts
  BY <1>2 DEF PluginRestarts, SetShape
<1>3. CASE ProfileArrives
  <2>1. /\ live' = [live EXCEPT !.dist = IF live.served THEN @ ELSE ServerDist,
                                !.served = TRUE, !.muting = TRUE]
        /\ stored' = [stored EXCEPT !.dist = IF live.served THEN @ ELSE ServerDist,
                                    !.served = TRUE, !.muting = TRUE]
    BY <1>3 DEF ProfileArrives
  <2>2. ServerDist \in Int
    BY DEF SetAssumption
  <2>3. live' \in SettingsOf(Int) /\ stored' \in SettingsOf(Int) /\ live'.hud = live.hud
        /\ stored'.hud = stored.hud
    BY <2>1, <2>2 DEF SetShape, SettingsOf
  <2>4. [live' EXCEPT !.hud = stored'.hud] = stored'
    BY <2>1, <2>2 DEF SetShape, SettingsOf
  <2>5. QED BY <1>3, <2>3, <2>4 DEF ProfileArrives, SetShape
<1>4. CASE ProfileLeaves
  BY <1>4 DEF ProfileLeaves, SetShape
<1>5. CASE ZoneCrossed
  BY <1>5 DEF ZoneCrossed, SetShape
<1>6. CASE PathDetected
  <2>1. PICK p \in Paths : live' = [live EXCEPT !.auto = p] /\ stored' = [stored EXCEPT !.auto = p]
    BY <1>6 DEF PathDetected
  <2>2. p \in Stored
    BY DEF Stored
  <2>3. live' \in SettingsOf(Int) /\ stored' \in SettingsOf(Int) /\ live'.hud = live.hud
        /\ stored'.hud = stored.hud
    BY <2>1, <2>2 DEF SetShape, SettingsOf
  <2>4. [live' EXCEPT !.hud = stored'.hud] = stored'
    BY <2>1, <2>2 DEF SetShape, SettingsOf
  <2>5. QED BY <1>6, <2>3, <2>4 DEF PathDetected, SetShape
<1>7. QED BY <1>1, <1>2, <1>3, <1>4, <1>5, <1>6

(* What is live is what the owner of each field stored last, a preview     *)
(* apart, and the number in the field is one of the unit on display; for   *)
(* any distances, limits and zones, any number of clicks and events.         *)
THEOREM SettingsAreSafe ==
  ASSUME SetAssumption
  PROVE  SetSpec => []SettingsAreStored
<1>1. SetInit => SetOK
  <2> SUFFICES ASSUME SetInit PROVE SetOK
    OBVIOUS
  <2>1. Initial \in SettingsOf(Int) /\ Initial.hud = 0 /\ Initial.unit = 0
    BY DEF Initial, SettingsOf, Keys, Stored, Paths
  <2>2. EmptySlot \in SlotOf
    BY DEF EmptySlot, SlotOf, Keys
  <2>3. dlg \in DialogOf
    BY <2>1 DEF SetInit, Begin, DialogOf, Effective
  <2>4. QED
    BY <2>1, <2>2, <2>3 DEF SetInit, SetOK, SetShape, SetInv, OnlyStoredIsLive, UnitAgrees,
       SettingsOf
<1>2. SetOK /\ [SetNext]_setvars => SetOK'
  <2>1. CASE UNCHANGED setvars
    BY <2>1 DEF setvars, SetOK, SetShape, SetInv, OnlyStoredIsLive, UnitAgrees
  <2>2. QED BY <2>1, EditStep, SaveSettings, WindowStep, ThreadStep DEF SetNext
<1>3. SetOK => SettingsAreStored
  BY DEF SetOK, SetInv, SettingsAreStored
<1>4. QED BY <1>1, <1>2, <1>3, PTL DEF SetSpec
=============================================================================
