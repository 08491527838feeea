--------------------------- MODULE HubDescription ---------------------------
(***************************************************************************)
(* Reading the description of the Root channel (hub_parser.c): one line at *)
(* a time, in the section the last header opened, into the entry the last  *)
(* race or zone line began; the unit of the ranges is settled at the end.  *)
(*                                                                         *)
(* Of every kind of line there is one: the range key of whatever section   *)
(* it stands in (MaximumWhisper, Whisper, DefaultDistanceWhisper), the key *)
(* that forces foundations, the line that begins a race, the one that      *)
(* begins a zone (in brackets, as a section header is), and a header of    *)
(* each section.  A zone's distance and a race's limit are what its entry  *)
(* is told by.                                                             *)
(*                                                                         *)
(* hdLines  the lines read so far; hdOut, HubSettings                      *)
(* hdAt     section, and the race and the zone that lines go to (0: none)  *)
(***************************************************************************)
EXTENDS Naturals, Sequences, FiniteSets, FiniteSetsExt

CONSTANTS
  HdMaxEntries,        \* HUB_MAX_RACES, HUB_MAX_ZONES
  HdRanges,            \* ranges that a line may give
  HdDistMax,           \* HUB_DIST_MAX
  HdMaxLines           \* bound

HdAssumption ==
  /\ {HdMaxEntries, HdDistMax, HdMaxLines} \subseteq Nat
  /\ HdRanges \subseteq 0..HdDistMax

VARIABLES hdLines, hdAt, hdOut

hdvars == <<hdLines, hdAt, hdOut>>

Sections == {"global", "zones", "race", "defaults", "other"}
Words    == Sections \cup {"forceOn", "forceOff", "beginRace", "beginZone"}
Lines    == [word : Words, range : {0}] \cup [word : {"range"}, range : HdRanges]
Metres   == 0..HdDistMax

HubSettings == [valid : BOOLEAN, limit : Metres, force : BOOLEAN, races : Seq(Metres),
             zones : Seq(Metres), defaultRange : Metres]

HdTypeOK ==
  /\ hdLines \in Seq(Lines) /\ Len(hdLines) <= HdMaxLines
  /\ hdAt \in [section : Sections \cup {"none", "end"}, race : Nat, zone : Nat]
  /\ hdOut \in HubSettings
  /\ Len(hdOut.races) <= HdMaxEntries /\ hdAt.race <= Len(hdOut.races)
  /\ Len(hdOut.zones) <= HdMaxEntries /\ hdAt.zone <= Len(hdOut.zones)

\* hub_defaults.
HdInit ==
  /\ hdLines = <<>>
  /\ hdAt = [section |-> "none", race |-> 0, zone |-> 0]
  /\ hdOut = [valid |-> FALSE, limit |-> 0, force |-> FALSE, races |-> <<>>,
              zones |-> <<>>, defaultRange |-> 0]
-----------------------------------------------------------------------------
Read(line) ==
  /\ hdAt.section # "end" /\ Len(hdLines) < HdMaxLines
  /\ hdLines' = Append(hdLines, line)

\* A header, or the line of a zone outside of [ZONES], which looks like one.
SectionOfHeader(word) == IF word = "beginZone" THEN "other" ELSE word

HeaderLine(line) ==
  /\ Read(line)
  /\ \/ line.word \in Sections
     \/ line.word = "beginZone" /\ hdAt.section # "zones"
  /\ LET section == SectionOfHeader(line.word)
     IN /\ hdAt' = [section |-> section,
                    race |-> IF section \in {"race", "other"} THEN 0 ELSE hdAt.race,
                    zone |-> IF section \in {"zones", "other"} THEN 0 ELSE hdAt.zone]
        /\ hdOut' = [hdOut EXCEPT !.valid = @ \/ section = "global"]

\* hub_parse_global_line.
GlobalLine(line) ==
  /\ Read(line) /\ hdAt.section = "global"
  /\ \/ line.word = "range" /\ hdOut' = [hdOut EXCEPT !.limit = line.range]
     \/ line.word = "forceOn" /\ hdOut' = [hdOut EXCEPT !.force = TRUE]
     \/ line.word = "forceOff" /\ hdOut' = [hdOut EXCEPT !.force = FALSE]
  /\ UNCHANGED hdAt

\* Mutant: the lines of an entry there is no room for go to the one before.
BegunInPlace(list, current, value) ==
  IF Len(list) >= HdMaxEntries THEN <<list, current>>
  ELSE <<Append(list, value), Len(list) + 1>>

\* A new entry, or none when there are too many.
Begun(list, current, value) ==
  IF Len(list) >= HdMaxEntries THEN <<list, 0>>
  ELSE <<Append(list, value), Len(list) + 1>>

\* "Race=": the limits of a race are the server's, as far as they have been read.
RaceBegins(line) ==
  /\ Read(line) /\ hdAt.section = "race" /\ line.word = "beginRace"
  /\ LET begun == Begun(hdOut.races, hdAt.race, hdOut.limit)
     IN /\ hdOut' = [hdOut EXCEPT !.races = begun[1]]
        /\ hdAt' = [hdAt EXCEPT !.race = begun[2]]

RaceLine(line) ==
  /\ Read(line) /\ hdAt.section = "race" /\ line.word = "range"
  /\ hdOut' = IF hdAt.race = 0 THEN hdOut
              ELSE [hdOut EXCEPT !.races[hdAt.race] = line.range]
  /\ UNCHANGED hdAt

ZoneBegins(line) ==
  /\ Read(line) /\ hdAt.section = "zones" /\ line.word = "beginZone"
  /\ LET begun == Begun(hdOut.zones, hdAt.zone, 0)
     IN /\ hdOut' = [hdOut EXCEPT !.zones = begun[1]]
        /\ hdAt' = [hdAt EXCEPT !.zone = begun[2]]

ZoneLine(line) ==
  /\ Read(line) /\ hdAt.section = "zones" /\ line.word = "range"
  /\ hdOut' = IF hdAt.zone = 0 THEN hdOut
              ELSE [hdOut EXCEPT !.zones[hdAt.zone] = line.range]
  /\ UNCHANGED hdAt

DefaultsLine(line) ==
  /\ Read(line) /\ hdAt.section = "defaults" /\ line.word = "range"
  /\ hdOut' = [hdOut EXCEPT !.defaultRange = line.range]
  /\ UNCHANGED hdAt

\* Nothing a section knows.
OtherLine(line) ==
  /\ Read(line) /\ line.word \notin Sections
  /\ \/ hdAt.section \in {"none", "other"} /\ line.word # "beginZone"
     \/ hdAt.section = "global" /\ line.word = "beginRace"
     \/ hdAt.section = "race" /\ line.word \in {"forceOn", "forceOff"}
     \/ hdAt.section = "zones" /\ line.word \in {"forceOn", "forceOff", "beginRace"}
     \/ hdAt.section = "defaults" /\ line.word \in {"forceOn", "forceOff", "beginRace"}
  /\ UNCHANGED <<hdAt, hdOut>>

\* hub_foundations_to_meters; a foundation is taken for three metres here.
InMetres(f) == IF 3 * f > HdDistMax THEN HdDistMax ELSE 3 * f

\* Mutant: what a race has inherited counts as converted.
ConvertedOnce(out) ==
  [out EXCEPT !.limit = InMetres(@), !.defaultRange = InMetres(@),
              !.races = [i \in DOMAIN @ |-> IF @[i] = out.limit THEN @[i] ELSE InMetres(@[i])],
              !.zones = [i \in DOMAIN @ |-> InMetres(@[i])]]

\* hub_convert_ranges_to_meters.
Converted(out) ==
  [out EXCEPT !.limit = InMetres(@), !.defaultRange = InMetres(@),
              !.races = [i \in DOMAIN @ |-> InMetres(@[i])],
              !.zones = [i \in DOMAIN @ |-> InMetres(@[i])]]

HdEnd ==
  /\ hdAt.section # "end"
  /\ hdAt' = [section |-> "end", race |-> 0, zone |-> 0]
  /\ hdOut' = IF hdOut.force THEN Converted(hdOut) ELSE hdOut
  /\ UNCHANGED hdLines

HdNext ==
  \/ \E line \in Lines :
       \/ HeaderLine(line) \/ GlobalLine(line) \/ RaceBegins(line) \/ RaceLine(line)
       \/ ZoneBegins(line) \/ ZoneLine(line) \/ DefaultsLine(line) \/ OtherLine(line)
  \/ HdEnd

HdSpec == HdInit /\ [][HdNext]_hdvars
-----------------------------------------------------------------------------
(* What a description t means, said of the text as a whole.                *)

LastOf(S) == IF S = {} THEN 0 ELSE Max(S)
HeaderOf(t, i) == LastOf({h \in 1..i : t[h].word \in Sections})

\* The section of line i: that of the last header, unless a zone began where
\* none belongs.
SectionOf(t, i) ==
  LET header == HeaderOf(t, i)
  IN IF header # 0 /\ t[header].word = "zones" THEN "zones"
     ELSE IF \E z \in header + 1..i : t[z].word = "beginZone" THEN "other"
     ELSE IF header = 0 THEN "none" ELSE t[header].word

LinesIn(t, words, section) == {i \in DOMAIN t : t[i].word \in words /\ SectionOf(t, i) = section}

\* The last range that a section gives in the lines from..to.
RangeIn(t, section, from, to, default) ==
  LET last == LastOf(LinesIn(t, {"range"}, section) \cap (from..to))
  IN IF last = 0 THEN default ELSE t[last].range
LimitBefore(t, i) == RangeIn(t, "global", 1, i, 0)

\* The lines that begin an entry, and its lines: up to the next one or the next
\* header.
BlockEnd(t, i, word) ==
  Min({j \in i + 1..Len(t) : t[j].word \in Sections \cup {word, "beginZone"}}
      \cup {Len(t) + 1}) - 1
Nth(S, n) == CHOOSE i \in S : Cardinality({j \in S : j <= i}) = n
Entries(t, word, section, default) ==
  LET begins == LinesIn(t, {word}, section)
      count  == IF Cardinality(begins) > HdMaxEntries THEN HdMaxEntries ELSE Cardinality(begins)
  IN [n \in 1..count |->
        LET i == Nth(begins, n)
        IN RangeIn(t, section, i, BlockEnd(t, i, word), default[i])]

Forced(t) ==
  LET last == LastOf(LinesIn(t, {"forceOn", "forceOff"}, "global"))
  IN last # 0 /\ t[last].word = "forceOn"

\* Before the unit is settled.
Plain(t) ==
  [valid |-> \E i \in DOMAIN t : t[i].word = "global",
   limit |-> LimitBefore(t, Len(t)), force |-> Forced(t),
   races |-> Entries(t, "beginRace", "race", [i \in DOMAIN t |-> LimitBefore(t, i)]),
   zones |-> Entries(t, "beginZone", "zones", [i \in DOMAIN t |-> 0]),
   defaultRange |-> RangeIn(t, "defaults", 1, Len(t), 0)]

Meaning(t) ==
  LET metres(r) == IF Forced(t) THEN InMetres(r) ELSE r
  IN [Plain(t) EXCEPT !.limit = metres(@), !.defaultRange = metres(@),
                      !.races = [n \in DOMAIN @ |-> metres(@[n])],
                      !.zones = [n \in DOMAIN @ |-> metres(@[n])]]

\* The parser makes of every description what it says as a whole: each range
\* belongs to the entry or the section it stands under and to no other, also
\* when there are too many entries or a header is repeated; the last word on a
\* key counts; and the unit, which may be settled after the ranges it is about,
\* is applied once to each.  A race takes over the limits read before it: one
\* that stands above [GLOBAL] has none.
ReadAsWritten == hdAt.section = "end" => hdOut = Meaning(hdLines)
=============================================================================
