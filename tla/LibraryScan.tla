--------------------------- MODULE LibraryScan ---------------------------
(***************************************************************************)
(* Finding the Saved folder of the game in the libraries of Steam.         *)
(*                                                                         *)
(* The program has two readers of libraryfolders.vdf, written              *)
(* independently: the one of the position watcher                          *)
(* (core/mod_file/path_detect.c) and the one of the settings dialog        *)
(* (ui/dialogs/ui_path_steam.c).  Both read the file line by line and keep *)
(* the path of the current library, but they forget it at different lines. *)
(*                                                                         *)
(* A library writes its path before its applications, as Steam does.  Of a *)
(* path only its length counts: it fits ("good"), it is longer than        *)
(* MAX_PATH ("over") or it is "empty"; the path of a library is named by   *)
(* the number of the library.  Blanks around a path and braces in it are   *)
(* left out.                                                               *)
(***************************************************************************)
EXTENDS Naturals, Sequences

CONSTANT LsLibraries \* most libraries of an installation

LsAssumption == LsLibraries \in Nat

VARIABLES steam,   \* what the registry and the disk hold: "none", "noFile" or "file"
          library, \* the libraries, in the order of the file
          scan     \* the two readers

lsvars == <<steam, library, scan>>

Library == [path : {"good", "over", "empty"},
            lists : BOOLEAN, \* 440900 is among its applications
            saved : BOOLEAN] \* ...\Conan Exiles\ConanSandbox\Saved is a folder

LsReaders == {"watcher", "dialog"}

(***************************************************************************)
(* The lines of the file.  A path line carries the number of its library   *)
(* and whether a reader can take the path: vdf_line_value.                 *)
(***************************************************************************)
Open == [is |-> "open", of |-> 0]
Close == [is |-> "close", of |-> 0]
LineValue(l, i) == IF l.path = "good" THEN i ELSE 0

Other == [is |-> "other", of |-> 0]

\* The k-th of the nine lines of library i, from zero: its brace, path, name and
\* applications, of which there are two.
LineIn(l, i, k) ==
    CASE k \in {0, 4} -> Open
      [] k = 1 -> [is |-> "path", of |-> LineValue(l, i)]
      [] k = 3 -> [is |-> "apps", of |-> 0]
      [] k = 6 /\ l.lists -> [is |-> "game", of |-> 0]
      [] k \in {7, 8} -> Close
      [] OTHER -> Other

FileLines == 9 * Len(library) + 3

\* Line n of the file: a title and a brace, the libraries, a brace.
Vdf(n) ==
    CASE n = 1 -> Other
      [] n = 2 -> Open
      [] n = FileLines -> Close
      [] OTHER -> LineIn(library[(n + 6) \div 9], (n + 6) \div 9, (n + 6) % 9)

Line(r) == Vdf(scan[r].at)

(***************************************************************************)
(* One line in each reader.                                                *)
(***************************************************************************)
IsFolder(i) == i # 0 /\ library[i].saved

(* Mutant: a path that cannot be taken leaves the previous one. *)
WatcherPathKeeps(s, line) == IF line.is = "path" /\ line.of # 0 THEN line.of ELSE s.path
WatcherPath(s, line) == IF line.is = "path" THEN line.of ELSE s.path

DialogDepth(s, line) ==
    CASE line.is = "open" -> s.depth + 1
      [] line.is = "close" -> s.depth - 1
      [] OTHER -> s.depth

\* A path that cannot be taken is skipped (continue); the closing brace of a library forgets.
DialogPath(s, line) ==
    CASE line.is = "close" /\ s.depth = 2 -> 0
      [] line.is = "path" /\ s.depth >= 2 /\ line.of # 0 -> line.of
      [] OTHER -> s.path

Found(path, line) == line.is = "game" /\ IsFolder(path)

LsInit ==
    /\ steam \in {"none", "noFile", "file"}
    /\ library \in UNION {[1..n -> Library] : n \in 0..LsLibraries}
    /\ scan = [r \in LsReaders |-> [pc |-> "idle", at |-> 1, path |-> 0, depth |-> 0,
                                    result |-> 0]]

\* The key in the registry, then the file.
LsStart(r) ==
    /\ scan[r].pc = "idle"
    /\ scan' = [scan EXCEPT ![r].pc = IF steam = "file" THEN "read" ELSE "done"]
    /\ UNCHANGED <<steam, library>>

LsMore(r) == scan[r].pc = "read" /\ scan[r].result = 0 /\ scan[r].at <= FileLines

WatcherLine ==
    /\ LsMore("watcher")
    /\ LET s == scan["watcher"]
           path == WatcherPath(s, Line("watcher"))
       IN scan' = [scan EXCEPT !["watcher"].at = @ + 1, !["watcher"].path = path,
                               !["watcher"].result = IF Found(path, Line("watcher")) THEN path ELSE 0]
    /\ UNCHANGED <<steam, library>>

DialogLine ==
    /\ LsMore("dialog")
    /\ LET s == scan["dialog"]
           path == DialogPath(s, Line("dialog"))
       IN scan' = [scan EXCEPT !["dialog"].at = @ + 1, !["dialog"].path = path,
                               !["dialog"].depth = DialogDepth(s, Line("dialog")),
                               !["dialog"].result = IF Found(path, Line("dialog")) THEN path ELSE 0]
    /\ UNCHANGED <<steam, library>>

LsEnd(r) ==
    /\ scan[r].pc = "read" /\ ~LsMore(r)
    /\ scan' = [scan EXCEPT ![r].pc = "done"]
    /\ UNCHANGED <<steam, library>>

LsNext == \/ \E r \in LsReaders : LsStart(r) \/ LsEnd(r)
          \/ WatcherLine \/ DialogLine

LsSpec == LsInit /\ [][LsNext]_lsvars

ScanStates == [pc : {"idle", "read", "done"}, at : Nat, path : Nat, depth : Nat, result : Nat]

LsTypeOK ==
    /\ steam \in {"none", "noFile", "file"}
    /\ library \in Seq(Library) /\ Len(library) <= LsLibraries
    /\ scan \in [LsReaders -> ScanStates]
    /\ \A r \in LsReaders : /\ scan[r].at \in 1..FileLines + 1
                            /\ scan[r].path \in 0..Len(library)
                            /\ scan[r].depth \in 0..3
                            /\ scan[r].result \in 0..Len(library)

\* The first library, in the order of the file, that lists the game and holds its folder.
Hits == {i \in DOMAIN library : library[i].path = "good" /\ library[i].lists /\ library[i].saved}
Reference ==
    IF steam # "file" \/ Hits = {} THEN 0 ELSE CHOOSE i \in Hits : \A j \in Hits : i <= j

(***************************************************************************)
(* Whatever Steam wrote, both readers find the folder of the first library *)
(* that lists the game and really holds it, and none when there is none: a *)
(* path never outlives its library, although one reader forgets it at the  *)
(* next path line and the other at a closing brace.                        *)
(***************************************************************************)
BothFindTheGame == \A r \in LsReaders : scan[r].pc = "done" => scan[r].result = Reference
=============================================================================
