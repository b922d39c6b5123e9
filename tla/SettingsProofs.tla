--------------------------- MODULE SettingsProofs ---------------------------
(***************************************************************************)
(* What the operator sets and finds again: the presets of the cameras      *)
(* (PresetReturn), for any cameras and any presets with number 1 among     *)
(* them, and the settings kept in a file (Settings), for any groups, keys  *)
(* and values and a file of any length.                                    *)
(*                                                                         *)
(* Of the settings, most is about ReadParam and ModifyParam: a setting     *)
(* that is changed or added reads as the new value, and no other setting   *)
(* reads another (ModifiedReads).  SettingsInv follows the file and the    *)
(* caches through the steps of the setter and the getters.                 *)
(***************************************************************************)
EXTENDS PresetReturn, Settings, WellFoundedInduction, SequenceTheorems, TLAPS

-----------------------------------------------------------------------------
(* Presets.                                                                *)

\* A slot reads the camera displayed or one that monitorThread turns to, and
\* when the first read and the last find the same, so does every other.
LEMMA ReadsFind ==
  ASSUME PresetTypeOK, NEW r \in Reads
  PROVE  /\ r[1] \in Cameras /\ r[2] \in Cameras /\ r[3] \in Cameras /\ r[4] \in Cameras
         /\ r[1] = r[4] => r[2] = r[4]
<1>1. PICK i \in 2..4, c \in IF polled THEN {m_iCameraPlayNo} ELSE Cameras :
        r = [k \in 1..4 |-> IF k < i THEN m_iCameraPlayNo ELSE c]
  BY DEF Reads
<1>2. c \in Cameras /\ m_iCameraPlayNo \in Cameras
  BY DEF PresetTypeOK
<1>3. \A k \in 1..4 : r[k] = IF k < i THEN m_iCameraPlayNo ELSE c
  BY <1>1
<1> QED
  BY <1>2, <1>3

\* What is sent to the server of a camera with its position is for it alone.
LEMMA ToldOne ==
  ASSUME NEW c \in Cameras
  PROVE  Told(c, c) = {c}
<1>1. \A e \in Cameras : e = <<phandle(e), iPosNO(e)>>
  BY CamerasArePairs DEF phandle, iPosNO
<1> QED
  BY <1>1 DEF Told

\* Commands leave positions, losses and links of their types.
LEMMA CommandType ==
  ASSUME PresetTypeOK, NEW cs, NEW to \in [Cameras -> Numbers], Command(cs, to)
  PROVE  /\ position' \in [Cameras -> Numbers] /\ net' = net
         /\ lost' \in [Cameras -> BOOLEAN]
<1>1. position' \in [Cameras -> Numbers] /\ net' = net
  BY DEF Command, PresetTypeOK
<1>2. lost' \in [Cameras -> BOOLEAN]
  BY Zenon DEF Command, PresetTypeOK
<1> QED
  BY <1>1, <1>2

\* A command and its record keep the types.
LEMMA OperateType ==
  ASSUME PresetTypeOK, NEW r \in Reads, NEW to \in [Cameras -> Numbers],
         NEW n \in Numbers, Operate(r, to, n), Found(r[4])
  PROVE  PresetTypeOK'
<1>1. /\ position' \in [Cameras -> Numbers] /\ net' = net
      /\ lost' \in [Cameras -> BOOLEAN]
  BY CommandType, Zenon DEF Operate
<1>2. iPresetNo' \in [Cameras -> Numbers]
  BY DEF Operate, Record, PresetTypeOK
<1>3. due' \in [Cameras -> BOOLEAN] /\ torn' \in [Cameras -> BOOLEAN]
  BY Zenon DEF Operate, Operated, Mark, PresetTypeOK
<1>4. m_iCameraPlayNo' \in Cameras /\ polled' \in BOOLEAN
  BY ReadsFind, Zenon DEF Found, PresetTypeOK
<1>5. UNCHANGED <<presetReturn, m_iSelectPresetNo, m_iPresetPasswdOkFlag>>
  BY DEF Found, buttons
<1> QED
  BY <1>1, <1>2, <1>3, <1>4, <1>5 DEF PresetTypeOK

\* The three slots of the operator's buttons operate a camera, or the command
\* is refused and nothing but the display may change.
LEMMA SlotOperates ==
  ASSUME PresetTypeOK, Ptz \/ PresetGetCtrl \/ PresetSetCtrl
  PROVE  \E r \in Reads :
           /\ Found(r[4])
           /\ \/ UNCHANGED <<iPresetNo, due, camera>>
              \/ \E to \in [Cameras -> Numbers], n \in Numbers :
                   Operate(r, to, n) /\ (n = 0 \/ \A c \in Cameras : to[c] = n)
<1>1. CASE Ptz
  <2>1. PICK r \in Reads :
          /\ IF Accepted(r[2]) THEN Operate(r, Elsewhere, 0)
                               ELSE UNCHANGED <<iPresetNo, due, camera>>
          /\ Found(r[4])
    BY <1>1, Zenon DEF Ptz
  <2>2. Elsewhere \in [Cameras -> Numbers] /\ 0 \in Numbers
    BY DEF Elsewhere, Numbers
  <2> QED
    BY <2>1, <2>2, Zenon
<1>2. CASE PresetGetCtrl \/ PresetSetCtrl
  <2> DEFINE to == [c \in Cameras |-> IF m_iSelectPresetNo = 0 THEN position[c]
                                      ELSE m_iSelectPresetNo]
  <2>1. PICK r \in Reads : Operate(r, to, m_iSelectPresetNo) /\ Found(r[4])
    BY <1>2, Zenon DEF PresetGetCtrl, PresetSetCtrl, UsePreset
  <2>2. /\ to \in [Cameras -> Numbers] /\ m_iSelectPresetNo \in Numbers
        /\ m_iSelectPresetNo = 0 \/ \A c \in Cameras : to[c] = m_iSelectPresetNo
    BY DEF PresetTypeOK
  <2> HIDE DEF to
  <2> QED
    BY <2>1, <2>2, Zenon
<1> QED
  BY <1>1, <1>2

\* Every action keeps the types.
LEMMA TypeStep ==
  ASSUME 1 \in Presets, PresetTypeOK, [PresetNext]_presetVars
  PROVE  PresetTypeOK'
<1> USE DEF view, buttons, camera
<1>1. CASE Ptz \/ PresetGetCtrl \/ PresetSetCtrl
  <2>1. PICK r \in Reads :
           /\ Found(r[4])
           /\ \/ UNCHANGED <<iPresetNo, due, camera>>
              \/ \E to \in [Cameras -> Numbers], n \in Numbers :
                   Operate(r, to, n) /\ (n = 0 \/ \A c \in Cameras : to[c] = n)
    BY <1>1, SlotOperates
  <2>2. CASE UNCHANGED <<iPresetNo, due, camera>>
    <3>1. m_iCameraPlayNo' \in Cameras /\ polled' \in BOOLEAN
      BY <2>1, ReadsFind, Zenon DEF Found, PresetTypeOK
    <3> QED
      BY <2>1, <2>2, <3>1 DEF Found, PresetTypeOK
  <2>3. CASE \E to \in [Cameras -> Numbers], n \in Numbers : Operate(r, to, n)
    BY <2>1, <2>3, OperateType
  <2> QED
    BY <2>1, <2>2, <2>3
<1>3. CASE SetPreset \/ RegistOut \/ PresetNoGroupButtonClick
  BY <1>3 DEF SetPreset, RegistOut, PresetNoGroupButtonClick, Buttons, PresetTypeOK, Numbers
<1>4. CASE VideoPollingSignalCtrl
  BY <1>4 DEF VideoPollingSignalCtrl, PresetTypeOK
<1>5. ASSUME NEW c \in Cameras, MinutesPass(c) PROVE PresetTypeOK'
  <2>1. due' \in [Cameras -> BOOLEAN]
    BY <1>5, Zenon DEF MinutesPass, PresetTypeOK
  <2> QED
    BY <1>5, <2>1 DEF MinutesPass, PresetTypeOK
<1>6. ASSUME NEW c \in Cameras, TriggerPresetReturn(c) PROVE PresetTypeOK'
  <2>1. due' \in [Cameras -> BOOLEAN]
    BY <1>6, Zenon DEF TriggerPresetReturn, Operated, PresetTypeOK
  <2> QED
    BY <1>6, <2>1 DEF TriggerPresetReturn, PresetTypeOK
<1>7. ASSUME NEW c \in Cameras, PresetReturnSignalCtrl(c) PROVE PresetTypeOK'
  <2>1. CASE ToOne(c)
    <3>1. 1 \in Numbers /\ [d \in Cameras |-> 1] \in [Cameras -> Numbers]
      BY DEF Numbers
    <3>2. /\ position' \in [Cameras -> Numbers] /\ net' = net
          /\ lost' \in [Cameras -> BOOLEAN]
      BY <2>1, <3>1, CommandType, Zenon DEF ToOne
    <3>3. iPresetNo' \in [Cameras -> Numbers] /\ m_iSelectPresetNo' \in Numbers
      BY <2>1, <3>1 DEF ToOne, Record, PresetTypeOK
    <3>4. torn' \in [Cameras -> BOOLEAN]
      BY <2>1, Zenon DEF ToOne, Mark, PresetTypeOK
    <3> QED
      BY <1>7, <3>2, <3>3, <3>4 DEF PresetTypeOK, PresetReturnSignalCtrl
  <2>2. CASE UNCHANGED <<iPresetNo, m_iSelectPresetNo, camera>>
    BY <1>7, <2>2 DEF PresetTypeOK, PresetReturnSignalCtrl
  <2> QED
    BY <1>7, <2>1, <2>2 DEF PresetReturnSignalCtrl
<1>8. ASSUME NEW s \in Servers, NetChanges(s) PROVE PresetTypeOK'
  BY <1>8 DEF NetChanges, PresetTypeOK
<1>9. ASSUME NEW c \in Cameras, TurnTo(c) PROVE PresetTypeOK'
  BY <1>9 DEF TurnTo, PresetTypeOK
<1>10. CASE UNCHANGED presetVars
  BY <1>10 DEF presetVars, PresetTypeOK
<1> QED
  BY <1>1, <1>3, <1>4, <1>5, <1>6, <1>7, <1>8, <1>9, <1>10 DEF PresetNext, Operator, Camera

\* Every variable keeps its type, in whatever order operator, thread and
\* queued returns act.
THEOREM PresetTypeCorrect ==
  ASSUME 1 \in Presets
  PROVE  PresetSpec => []PresetTypeOK
<1>1. PresetInit => PresetTypeOK
  <2> SUFFICES ASSUME PresetInit PROVE PresetTypeOK
    OBVIOUS
  <2>1. /\ due \in [Cameras -> BOOLEAN] /\ lost \in [Cameras -> BOOLEAN]
        /\ torn \in [Cameras -> BOOLEAN]
        /\ m_iPresetPasswdOkFlag \in BOOLEAN /\ polled \in BOOLEAN
    BY Zenon DEF PresetInit
  <2> QED
    BY <2>1 DEF PresetInit, PresetTypeOK, Numbers
<1>2. PresetTypeOK /\ [PresetNext]_presetVars => PresetTypeOK'
  BY TypeStep
<1> QED
  BY <1>1, <1>2, PTL DEF PresetSpec

-----------------------------------------------------------------------------
\* The record of one camera.
Follows(c) == lost[c] \/ torn[c] \/ iPresetNo[c] \in {0, position[c]}

\* A command takes a camera it is for where it is told, or is lost; the
\* others stay as they are.
LEMMA CommandArrives ==
  ASSUME NEW cs, NEW to, Command(cs, to), NEW c \in Cameras
  PROVE  IF c \in cs THEN lost'[c] \/ position'[c] = to[c]
                     ELSE position'[c] = position[c] /\ lost'[c] = lost[c]
BY Zenon DEF Command

\* A command that is recorded at the camera it is for keeps the records true,
\* one that is recorded at another is marked at both.
LEMMA OperateFollows ==
  ASSUME PresetTypeOK, RecordFollowsCamera, NEW r \in Reads,
         NEW to \in [Cameras -> Numbers], NEW n \in Numbers, Operate(r, to, n),
         n = 0 \/ \A c \in Cameras : to[c] = n
  PROVE  RecordFollowsCamera'
<1> DEFINE cs == Told(r[1], r[2])
<1>1. /\ Command(cs, to) /\ iPresetNo' = [iPresetNo EXCEPT ![r[4]] = n]
      /\ \A c \in Cameras : torn'[c] = IF c \in cs \cup {r[4]} THEN r[1] # r[4] ELSE torn[c]
  BY Zenon DEF Operate, Record, Mark
<1>2. \A c \in Cameras : iPresetNo'[c] = IF c = r[4] THEN n ELSE iPresetNo[c]
  BY <1>1 DEF PresetTypeOK
<1>3. r[1] = r[4] => cs = {r[4]}
  BY ReadsFind, ToldOne, Zenon
<1> HIDE DEF cs
<1> SUFFICES ASSUME NEW c \in Cameras PROVE Follows(c)'
  BY Zenon DEF RecordFollowsCamera, Follows
<1>4. CASE c \in cs \cup {r[4]} /\ r[1] # r[4]
  BY <1>1, <1>4, Zenon DEF Follows
<1>5. CASE c = r[4] /\ r[1] = r[4]
  <2>1. lost'[c] \/ position'[c] = to[c]
    <3>1. c \in cs /\ Command(cs, to)
      BY <1>1, <1>3, <1>5
    <3> QED
      BY <3>1, CommandArrives
  <2>2. iPresetNo'[c] = n
    BY <1>2, <1>5, Zenon
  <2> QED
    BY <2>1, <2>2, Zenon DEF Follows
<1>6. CASE c \notin cs \cup {r[4]}
  <2>1. position'[c] = position[c] /\ lost'[c] = lost[c]
    BY <1>1, <1>6, CommandArrives, Zenon
  <2>2. iPresetNo'[c] = iPresetNo[c] /\ torn'[c] = torn[c]
    BY <1>1, <1>2, <1>6, Zenon
  <2> QED
    BY <2>1, <2>2, Zenon DEF Follows, RecordFollowsCamera
<1> QED
  BY <1>3, <1>4, <1>5, <1>6, Zenon

\* Every action keeps the records true.
LEMMA RecordStep ==
  ASSUME PresetTypeOK, RecordFollowsCamera, [PresetNext]_presetVars
  PROVE  RecordFollowsCamera'
<1>1. CASE Ptz \/ PresetGetCtrl \/ PresetSetCtrl
  <2>1. PICK r \in Reads :
           /\ Found(r[4])
           /\ \/ UNCHANGED <<iPresetNo, due, camera>>
              \/ \E to \in [Cameras -> Numbers], n \in Numbers :
                   Operate(r, to, n) /\ (n = 0 \/ \A c \in Cameras : to[c] = n)
    BY <1>1, SlotOperates
  <2>2. CASE UNCHANGED <<iPresetNo, due, camera>>
    BY <2>2, Zenon DEF RecordFollowsCamera, camera
  <2>3. CASE \E to \in [Cameras -> Numbers], n \in Numbers :
               Operate(r, to, n) /\ (n = 0 \/ \A c \in Cameras : to[c] = n)
    BY <2>3, OperateFollows
  <2> QED
    BY <2>1, <2>2, <2>3
<1>2. CASE SetPreset \/ RegistOut \/ PresetNoGroupButtonClick
           \/ VideoPollingSignalCtrl \/ UNCHANGED presetVars
  <2>1. UNCHANGED <<iPresetNo, position, lost, torn>>
    BY <1>2, Zenon DEF SetPreset, RegistOut, PresetNoGroupButtonClick, Buttons,
                       VideoPollingSignalCtrl, presetVars, camera
  <2> QED
    BY <2>1, Zenon DEF RecordFollowsCamera
<1>3. ASSUME NEW c \in Cameras, MinutesPass(c) \/ TriggerPresetReturn(c) \/ TurnTo(c)
      PROVE  RecordFollowsCamera'
  <2>1. UNCHANGED <<iPresetNo, position, lost, torn>>
    BY <1>3, Zenon DEF MinutesPass, TriggerPresetReturn, TurnTo, camera
  <2> QED
    BY <2>1, Zenon DEF RecordFollowsCamera
<1>4. ASSUME NEW s \in Servers, NetChanges(s) PROVE RecordFollowsCamera'
  <2>1. UNCHANGED <<iPresetNo, position, lost, torn>>
    BY <1>4, Zenon DEF NetChanges
  <2> QED
    BY <2>1, Zenon DEF RecordFollowsCamera
<1>5. ASSUME NEW c \in Cameras, PresetReturnSignalCtrl(c) PROVE RecordFollowsCamera'
  <2>1. CASE ToOne(c)
    <3>1. Command({c}, [d \in Cameras |-> 1]) /\ iPresetNo' = [iPresetNo EXCEPT ![c] = 1]
      BY <2>1, Zenon DEF ToOne, Record
    <3>2. \A d \in Cameras : torn'[d] = IF d = c THEN FALSE ELSE torn[d]
      BY <2>1, Zenon DEF ToOne, Mark
    <3>3. \A d \in Cameras : iPresetNo'[d] = IF d = c THEN 1 ELSE iPresetNo[d]
      BY <3>1 DEF PresetTypeOK
    <3>4. lost'[c] \/ position'[c] = 1
      BY <3>1, CommandArrives
    <3> SUFFICES ASSUME NEW d \in Cameras PROVE Follows(d)'
      BY Zenon DEF RecordFollowsCamera, Follows
    <3>5. CASE d = c
      BY <3>3, <3>4, <3>5, Zenon DEF Follows
    <3>6. CASE d # c
      <4>1. position'[d] = position[d] /\ lost'[d] = lost[d]
        BY <3>1, <3>6, CommandArrives, Zenon
      <4> QED
        BY <3>2, <3>3, <3>6, <4>1, Zenon DEF Follows, RecordFollowsCamera
    <3> QED
      BY <3>5, <3>6
  <2>2. CASE UNCHANGED <<iPresetNo, m_iSelectPresetNo, camera>>
    BY <2>2, Zenon DEF RecordFollowsCamera, camera
  <2> QED
    BY <1>5, <2>1, <2>2 DEF PresetReturnSignalCtrl
<1> QED
  BY <1>1, <1>2, <1>3, <1>4, <1>5 DEF PresetNext, Operator, Camera

\* What the program has written down of a camera's preset is where it is,
\* unless its last command was lost or the display turned in the slot that
\* commanded or recorded it last.
THEOREM RecordCorrect ==
  ASSUME 1 \in Presets
  PROVE  PresetSpec => []RecordFollowsCamera
<1>1. PresetInit => RecordFollowsCamera
  BY DEF PresetInit, RecordFollowsCamera
<1>2. PresetTypeOK /\ RecordFollowsCamera /\ [PresetNext]_presetVars => RecordFollowsCamera'
  BY RecordStep
<1>3. PresetSpec => []PresetTypeOK
  BY PresetTypeCorrect
<1> QED
  BY <1>1, <1>2, <1>3, PTL DEF PresetSpec

-----------------------------------------------------------------------------
(* Settings: numbers.                                                      *)

\* A set of numbers has a smallest one (Min of the community modules).
LEMMA MinIsFirst ==
  ASSUME NEW S \in SUBSET Nat, S # {}
  PROVE  Min(S) \in S /\ \A x \in S : Min(S) <= x
<1>1. \A x, y \in Nat : x < y => <<x, y>> \in OpToRel(<, Nat)
  BY DEF OpToRel
<1>2. PICK m \in S : \A y \in S : ~(<<y, m>> \in OpToRel(<, Nat))
  BY NatLessThanWellFounded, WFMin
<1>3. \A y \in S : m <= y
  <2> SUFFICES ASSUME NEW y \in S, ~(m <= y)
               PROVE  FALSE
    OBVIOUS
  <2>1. y \in Nat /\ m \in Nat /\ y < m
    OBVIOUS
  <2>2. <<y, m>> \in OpToRel(<, Nat)
    BY <1>1, <2>1
  <2> QED
    BY <1>2, <2>2
<1> QED
  BY <1>2, <1>3 DEF Min

-----------------------------------------------------------------------------
(* Where a key stands in a file.                                           *)

\* h is the header that is found, k the line that is found behind it.
IsHeader(f, g, h) ==
  h \in 1..Len(f) /\ f[h].group = g /\ \A i \in 1..h-1 : f[i].group # g
IsLine(f, e, h, k) ==
  k \in h+1..Len(f) /\ f[k].key = e[2] /\ \A i \in h+1..k-1 : f[i].key # e[2]

\* The lines a file has before a copy is cut short.
Whole == Lines \ {CutLine}

\* HeaderOf finds the first header of the group, if there is one.
LEMMA HeaderFound ==
  ASSUME NEW f \in Seq(Lines), NEW g
  PROVE  \/ HeaderOf(f, g) = 0 /\ \A i \in 1..Len(f) : f[i].group # g
         \/ IsHeader(f, g, HeaderOf(f, g))
<1> DEFINE hits == {i \in 1..Len(f) : f[i].group = g}
<1>1. HeaderOf(f, g) = IF hits = {} THEN 0 ELSE Min(hits)
  BY DEF HeaderOf, FirstAfter
<1>2. hits \in SUBSET Nat
  OBVIOUS
<1>3. CASE hits = {}
  BY <1>1, <1>3
<1>4. CASE hits # {}
  <2> DEFINE h == HeaderOf(f, g)
  <2>1. h \in hits /\ \A x \in hits : h <= x
    BY <1>1, <1>2, <1>4, MinIsFirst
  <2>2. h \in 1..Len(f) /\ f[h].group = g
    BY <2>1
  <2>3. \A i \in 1..h-1 : i \in 1..Len(f) /\ ~(h <= i)
    BY <2>2
  <2> HIDE DEF h
  <2>4. \A i \in 1..h-1 : f[i].group # g
    BY <2>1, <2>3
  <2> QED
    BY <2>2, <2>4 DEF IsHeader, h
<1> QED
  BY <1>3, <1>4

\* There is only one such header.
LEMMA HeaderIs ==
  ASSUME NEW f \in Seq(Lines), NEW g, NEW h, IsHeader(f, g, h)
  PROVE  HeaderOf(f, g) = h
  BY HeaderFound DEF IsHeader

\* Without a header none is found.
LEMMA HeaderMissing ==
  ASSUME NEW f \in Seq(Lines), NEW g, \A i \in 1..Len(f) : f[i].group # g
  PROVE  HeaderOf(f, g) = 0
  BY HeaderFound DEF IsHeader

\* LineOf finds the first line of the key behind the header, if there is one.
LEMMA LineFound ==
  ASSUME NEW f \in Seq(Lines), NEW e, HeaderOf(f, e[1]) # 0
  PROVE  \/ /\ LineOf(f, e) = 0
            /\ \A i \in HeaderOf(f, e[1]) + 1..Len(f) : f[i].key # e[2]
         \/ IsLine(f, e, HeaderOf(f, e[1]), LineOf(f, e))
<1> DEFINE h == HeaderOf(f, e[1])
           hits == {i \in h + 1..Len(f) : f[i].key = e[2]}
<1>1. h \in 1..Len(f)
  BY HeaderFound DEF IsHeader
<1>2. LineOf(f, e) = IF hits = {} THEN 0 ELSE Min(hits)
  BY DEF LineOf, FirstAfter
<1>3. hits \in SUBSET Nat
  BY <1>1
<1>4. CASE hits = {}
  BY <1>2, <1>4
<1>5. CASE hits # {}
  <2> DEFINE k == LineOf(f, e)
  <2>1. k \in hits /\ \A x \in hits : k <= x
    BY <1>2, <1>3, <1>5, MinIsFirst
  <2> HIDE DEF k
  <2>2. k \in h + 1..Len(f) /\ f[k].key = e[2]
    BY <2>1
  <2>3. \A i \in h + 1..k-1 : i \in h + 1..Len(f) /\ ~(k <= i)
    BY <1>1, <2>2
  <2>4. \A i \in h + 1..k-1 : f[i].key # e[2]
    BY <2>1, <2>3
  <2> QED
    BY <2>2, <2>4 DEF IsLine, k
<1> QED
  BY <1>4, <1>5

\* There is only one such line.
LEMMA LineIs ==
  ASSUME NEW f \in Seq(Lines), NEW e, NEW h, NEW k,
         IsHeader(f, e[1], h), IsLine(f, e, h, k)
  PROVE  LineOf(f, e) = k
<1>1. HeaderOf(f, e[1]) = h /\ h \in 1..Len(f)
  BY HeaderIs DEF IsHeader
<1>2. k \in h + 1..Len(f) /\ f[k].key = e[2]
  BY DEF IsLine
<1>3. IsLine(f, e, h, LineOf(f, e))
  BY <1>1, <1>2, LineFound
<1> QED
  BY <1>1, <1>3 DEF IsLine

\* Without a header or a line behind it none is found.
LEMMA LineMissing ==
  ASSUME NEW f \in Seq(Lines), NEW e,
         \A h \in 1..Len(f) : IsHeader(f, e[1], h) =>
           \A i \in h+1..Len(f) : f[i].key # e[2]
  PROVE  LineOf(f, e) = 0
<1>1. CASE HeaderOf(f, e[1]) = 0
  BY <1>1 DEF LineOf
<1>2. CASE HeaderOf(f, e[1]) # 0
  <2>1. IsHeader(f, e[1], HeaderOf(f, e[1])) /\ HeaderOf(f, e[1]) \in 1..Len(f)
    BY <1>2, HeaderFound DEF IsHeader
  <2> QED
    BY <1>2, <2>1, LineFound DEF IsLine
<1> QED
  BY <1>1, <1>2

\* What a line of a file may be.
LEMMA LineForms ==
  ASSUME NEW l \in Lines
  PROVE  /\ l.key # "" => l.group = "" /\ l.key \in Keys /\ l.value \in Values
         /\ l.group # "" => l.key = "" /\ l.group \in Groups
<1>1. \/ \E g \in Groups : l = Header(g)
      \/ \E k \in Keys, v \in Values : l = Line(k, v)
      \/ l = CutLine
  BY DEF Lines
<1>2. ASSUME NEW g \in Groups, l = Header(g)
      PROVE  l.key = "" /\ l.group = g
  BY <1>2 DEF Header
<1>3. ASSUME NEW k \in Keys, NEW v \in Values, l = Line(k, v)
      PROVE  l.key = k /\ l.group = "" /\ l.value = v
  BY <1>3 DEF Line
<1>4. CASE l = CutLine
  BY <1>4 DEF CutLine
<1> QED
  BY <1>1, <1>2, <1>3, <1>4

\* One element of a sequence in the place of another.
LEMMA Replaced ==
  ASSUME NEW S, NEW s \in Seq(S), NEW j \in 1..Len(s), NEW l \in S,
         NEW g, g = [s EXCEPT ![j] = l]
  PROVE  /\ g \in Seq(S) /\ Len(g) = Len(s)
         /\ \A i \in 1..Len(s) : g[i] = IF i = j THEN l ELSE s[i]
<1>1. g \in Seq(S)
  BY ExceptSeq
<1>2. Len(g) = Len(s)
  BY ExceptSeq
<1>3. \A i \in 1..Len(s) : g[i] = IF i = j THEN l ELSE s[i]
  OBVIOUS
<1> QED
  BY <1>1, <1>2, <1>3

\* What the setters write are whole lines.
LEMMA NewLines ==
  /\ \A g \in Groups : Header(g) \in Whole
  /\ \A k \in Keys, v \in Values : Line(k, v) \in Whole
<1>1. ASSUME NEW g \in Groups
      PROVE  Header(g) \in Whole
  <2>1. Header(g).group # CutLine.group
    BY SettingsAssumption DEF Header, CutLine
  <2> QED
    BY <2>1 DEF Whole, Lines
<1>2. ASSUME NEW k \in Keys, NEW v \in Values
      PROVE  Line(k, v) \in Whole
  <2>1. Line(k, v).key # CutLine.key
    BY SettingsAssumption DEF Line, CutLine
  <2> QED
    BY <2>1 DEF Whole, Lines
<1> QED
  BY <1>1, <1>2

\* The line that is found has its key, so it is no header, and a value.
LEMMA LineType ==
  ASSUME NEW f \in Seq(Lines), NEW e \in Entries, LineOf(f, e) # 0
  PROVE  /\ IsHeader(f, e[1], HeaderOf(f, e[1]))
         /\ IsLine(f, e, HeaderOf(f, e[1]), LineOf(f, e))
         /\ LineOf(f, e) \in 1..Len(f)
         /\ f[LineOf(f, e)].group = "" /\ f[LineOf(f, e)].value \in Values
<1>1. HeaderOf(f, e[1]) # 0
  BY DEF LineOf
<1>2. IsHeader(f, e[1], HeaderOf(f, e[1]))
  BY <1>1, HeaderFound
<1>3. IsLine(f, e, HeaderOf(f, e[1]), LineOf(f, e))
  BY <1>1, LineFound
<1>4. LineOf(f, e) \in 1..Len(f) /\ f[LineOf(f, e)].key = e[2]
  BY <1>2, <1>3 DEF IsHeader, IsLine
<1>5. f[LineOf(f, e)] \in Lines /\ e[2] # ""
  <2>1. f[LineOf(f, e)] \in Lines
    BY <1>4
  <2>2. e[2] \in Keys
    BY SettingsAssumption
  <2> QED
    BY <2>1, <2>2, SettingsAssumption
<1>6. f[LineOf(f, e)].group = "" /\ f[LineOf(f, e)].value \in Values
  BY <1>4, <1>5, LineForms
<1> QED
  BY <1>2, <1>3, <1>4, <1>6

\* A setting reads as a value of its own or, when it is not there, as 0.
LEMMA ReadType ==
  ASSUME NEW f \in Seq(Lines), NEW e \in Entries
  PROVE  ReadParam(f, e) \in Values \cup {0}
  BY LineType DEF ReadParam

\* A line that takes the place of the one found is found, and no other
\* setting reads another value: the line is not theirs, as its key is not.
LEMMA ChangeReads ==
  ASSUME NEW f \in Seq(Lines), NEW e \in Entries, NEW v \in Values, LineOf(f, e) # 0
  PROVE  /\ Change(f, e, v) \in Seq(Lines)
         /\ f \in Seq(Whole) => Change(f, e, v) \in Seq(Whole)
         /\ \A d \in Entries :
              ReadParam(Change(f, e, v), d) = IF d = e THEN v ELSE ReadParam(f, d)
<1> DEFINE j == LineOf(f, e)
           g == Change(f, e, v)
<1>1. j \in 1..Len(f) /\ f[j].key = e[2] /\ f[j].group = ""
  BY LineType DEF IsLine
<1>2. Line(e[2], v) \in Whole /\ Line(e[2], v) \in Lines
  BY NewLines, SettingsAssumption DEF Whole
<1> HIDE DEF j
<1>3. g = [f EXCEPT ![j] = Line(e[2], v)]
  BY DEF Change, j
<1> HIDE DEF g
<1>4. /\ g \in Seq(Lines) /\ Len(g) = Len(f)
      /\ \A i \in 1..Len(f) : g[i] = IF i = j THEN Line(e[2], v) ELSE f[i]
  <2> DEFINE l == Line(e[2], v)
  <2>1. l \in Lines
    BY <1>2
  <2> HIDE DEF l
  <2>2. g = [f EXCEPT ![j] = l]
    BY <1>3 DEF l
  <2>3. j \in 1..Len(f)
    BY <1>1
  <2>4. /\ g \in Seq(Lines) /\ Len(g) = Len(f)
        /\ \A i \in 1..Len(f) : g[i] = IF i = j THEN l ELSE f[i]
    BY <2>1, <2>2, <2>3, Replaced
  <2> QED
    BY <2>4 DEF l
<1>5. f \in Seq(Whole) => g \in Seq(Whole)
  <2> SUFFICES ASSUME f \in Seq(Whole)
               PROVE  g \in Seq(Whole)
    OBVIOUS
  <2>1. j \in 1..Len(f)
    BY <1>1
  <2>2. Line(e[2], v) \in Whole
    BY <1>2
  <2> QED
    BY <1>3, <2>1, <2>2, Replaced
<1>6. \A i \in 1..Len(f) : g[i].group = f[i].group /\ g[i].key = f[i].key
  <2>1. Line(e[2], v).group = "" /\ Line(e[2], v).key = e[2]
    BY DEF Line
  <2> QED
    BY <1>1, <1>4, <2>1
<1>7. ASSUME NEW d \in Entries
      PROVE  ReadParam(g, d) = IF d = e THEN v ELSE ReadParam(f, d)
  <2>1. LineOf(g, d) = LineOf(f, d)
    <3>1. CASE LineOf(f, d) # 0
      <4> DEFINE h == HeaderOf(f, d[1])
      <4>1. IsHeader(f, d[1], h) /\ IsLine(f, d, h, LineOf(f, d))
        BY <3>1, LineType
      <4> HIDE DEF h
      <4>2. h \in 1..Len(f) /\ \A i \in 1..h-1 : i \in 1..Len(f)
        BY <4>1 DEF IsHeader
      <4>3. LineOf(f, d) \in h+1..Len(f)
        BY <4>1 DEF IsLine
      <4>4. \A i \in h+1..LineOf(f, d)-1 : i \in 1..Len(f)
        BY <4>2, <4>3
      <4>5. IsHeader(g, d[1], h)
        BY <1>4, <1>6, <4>1, <4>2 DEF IsHeader
      <4>6. IsLine(g, d, h, LineOf(f, d))
        BY <1>4, <1>6, <4>1, <4>2, <4>3, <4>4 DEF IsLine
      <4> QED
        BY <1>4, <4>5, <4>6, LineIs
    <3>2. CASE LineOf(f, d) = 0
      <4> SUFFICES ASSUME NEW h \in 1..Len(g), IsHeader(g, d[1], h),
                          NEW i \in h+1..Len(g)
                   PROVE  g[i].key # d[2]
        BY <1>4, <3>2, LineMissing
      <4>1. h \in 1..Len(f) /\ i \in 1..Len(f) /\ \A n \in 1..h-1 : n \in 1..Len(f)
        BY <1>4
      <4>2. IsHeader(f, d[1], h)
        BY <1>4, <1>6, <4>1 DEF IsHeader
      <4>3. HeaderOf(f, d[1]) = h /\ h # 0
        BY <4>1, <4>2, HeaderIs
      <4>4. f[i].key # d[2]
        <5>1. ~IsLine(f, d, h, LineOf(f, d))
          BY <3>2, <4>1 DEF IsLine
        <5> QED
          BY <1>4, <4>3, <5>1, LineFound
      <4> QED
        BY <1>6, <4>1, <4>4
    <3> QED
      BY <3>1, <3>2
  <2>2. CASE d = e
    <3>1. LineOf(g, d) = j /\ j # 0 /\ g[j] = Line(e[2], v)
      BY <1>1, <1>4, <2>1, <2>2 DEF j
    <3>2. ReadParam(g, d) = Line(e[2], v).value
      BY <3>1 DEF ReadParam
    <3> QED
      BY <2>2, <3>2 DEF Line
  <2>3. CASE d # e
    <3>1. CASE LineOf(f, d) = 0
      BY <2>1, <2>3, <3>1 DEF ReadParam
    <3>2. CASE LineOf(f, d) # 0
      <4>1. LineOf(f, d) \in 1..Len(f) /\ f[LineOf(f, d)].key = d[2]
        BY <3>2, LineType DEF IsLine
      <4>2. LineOf(f, d) # j
        BY <1>1, <2>3, <4>1, SettingsAssumption
      <4>3. g[LineOf(f, d)] = f[LineOf(f, d)]
        BY <1>4, <4>1, <4>2
      <4> QED
        BY <2>1, <2>3, <4>3 DEF ReadParam
    <3> QED
      BY <3>1, <3>2
  <2> QED
    BY <2>2, <2>3
<1> QED
  BY <1>4, <1>5, <1>7 DEF g

\* Lines written at the end leave the lines before in their places.
LEMMA AppendedPlaces ==
  ASSUME NEW f \in Seq(Lines), NEW l \in Lines
  PROVE  /\ Append(f, l) \in Seq(Lines) /\ Len(Append(f, l)) = Len(f) + 1
         /\ \A i \in 1..Len(f) : Append(f, l)[i] = f[i]
         /\ Append(f, l)[Len(f) + 1] = l
  OBVIOUS

\* A setting that is there is found when a line is added at the end.
LEMMA AppendKeeps ==
  ASSUME NEW f \in Seq(Lines), NEW l \in Lines, NEW d \in Entries, LineOf(f, d) # 0
  PROVE  LineOf(Append(f, l), d) = LineOf(f, d) /\ ReadParam(Append(f, l), d) = ReadParam(f, d)
<1> DEFINE g == Append(f, l)
           h == HeaderOf(f, d[1])
           k == LineOf(f, d)
<1>1. g \in Seq(Lines) /\ Len(g) = Len(f) + 1 /\ \A i \in 1..Len(f) : g[i] = f[i]
  BY AppendedPlaces
<1> HIDE DEF g
<1>2. IsHeader(f, d[1], h) /\ IsLine(f, d, h, k)
  BY LineType
<1> HIDE DEF h, k
<1>3. /\ h \in 1..Len(f) /\ \A i \in 1..h-1 : i \in 1..Len(f)
      /\ k \in h+1..Len(f)
  BY <1>2 DEF IsHeader, IsLine
<1>4. k \in 1..Len(f) /\ \A i \in h+1..k-1 : i \in 1..Len(f)
  BY <1>3
<1>5. IsHeader(g, d[1], h)
  BY <1>1, <1>2, <1>3 DEF IsHeader
<1>6. IsLine(g, d, h, k)
  BY <1>1, <1>2, <1>3, <1>4 DEF IsLine
<1>7. LineOf(g, d) = k
  BY <1>1, <1>5, <1>6, LineIs
<1>8. k # 0 /\ g[k] = f[k]
  BY <1>1, <1>4
<1> QED
  BY <1>7, <1>8 DEF g, k, ReadParam

\* A setting that is not there stays so, unless the line added has its key
\* and stands behind its header.
LEMMA AppendMisses ==
  ASSUME NEW f \in Seq(Lines), NEW l \in Lines, NEW d \in Entries, LineOf(f, d) = 0,
         l.key # d[2] \/ HeaderOf(f, d[1]) = 0
  PROVE  LineOf(Append(f, l), d) = 0
<1> DEFINE g == Append(f, l)
<1>1. /\ g \in Seq(Lines) /\ Len(g) = Len(f) + 1 /\ \A i \in 1..Len(f) : g[i] = f[i]
      /\ g[Len(f) + 1] = l
  BY AppendedPlaces
<1> HIDE DEF g
<1>2. SUFFICES ASSUME NEW h \in 1..Len(g), IsHeader(g, d[1], h), NEW i \in h+1..Len(g)
               PROVE  g[i].key # d[2]
  BY <1>1, LineMissing DEF g
<1>3. h \in 1..Len(f) /\ \A n \in 1..h-1 : n \in 1..Len(f)
  BY <1>1
<1>4. IsHeader(f, d[1], h)
  BY <1>1, <1>2, <1>3 DEF IsHeader
<1>5. HeaderOf(f, d[1]) = h /\ h # 0
  BY <1>3, <1>4, HeaderIs
<1>6. CASE i = Len(f) + 1
  BY <1>1, <1>5, <1>6
<1>7. CASE i \in 1..Len(f)
  <2>1. ~IsLine(f, d, h, LineOf(f, d))
    BY <1>3 DEF IsLine
  <2>2. f[i].key # d[2]
    BY <1>5, <1>7, <2>1, LineFound
  <2> QED
    BY <1>1, <1>7, <2>2
<1> QED
  BY <1>1, <1>3, <1>6, <1>7

\* A key added behind the header of its group is found.
LEMMA AppendFinds ==
  ASSUME NEW f \in Seq(Lines), NEW e \in Entries, NEW v \in Values,
         HeaderOf(f, e[1]) # 0, LineOf(f, e) = 0
  PROVE  ReadParam(Append(f, Line(e[2], v)), e) = v
<1> DEFINE l == Line(e[2], v)
           g == Append(f, l)
           h == HeaderOf(f, e[1])
<1>1. l \in Lines /\ l.key = e[2] /\ l.value = v
  <2>1. l \in Whole
    BY NewLines, SettingsAssumption
  <2> QED
    BY <2>1 DEF Whole, Line
<1> HIDE DEF l
<1>2. /\ g \in Seq(Lines) /\ Len(g) = Len(f) + 1 /\ \A i \in 1..Len(f) : g[i] = f[i]
      /\ g[Len(f) + 1] = l
  BY <1>1, AppendedPlaces
<1> HIDE DEF g
<1>3. IsHeader(f, e[1], h)
  BY HeaderFound
<1>4. h \in 1..Len(f) /\ \A i \in 1..h-1 : i \in 1..Len(f)
  BY <1>3 DEF IsHeader
<1>5. \A i \in h+1..Len(f) : f[i].key # e[2]
  <2>1. ~IsLine(f, e, h, LineOf(f, e))
    BY <1>4 DEF IsLine
  <2> QED
    BY <2>1, LineFound
<1> HIDE DEF h
<1>6. IsHeader(g, e[1], h)
  BY <1>2, <1>3, <1>4 DEF IsHeader
<1>7. \A i \in h+1..Len(f)+1-1 : i \in h+1..Len(f) /\ i \in 1..Len(f)
  BY <1>4
<1>8. IsLine(g, e, h, Len(f) + 1)
  BY <1>1, <1>2, <1>4, <1>5, <1>7 DEF IsLine
<1>9. LineOf(g, e) = Len(f) + 1
  BY <1>2, <1>6, <1>8, LineIs
<1>10. ReadParam(g, e) = l.value
  <2>1. Len(f) + 1 # 0
    OBVIOUS
  <2> QED
    BY <1>2, <1>9, <2>1 DEF ReadParam
<1> QED
  BY <1>1, <1>10 DEF g, l

\* Without a cut line at its end a file is only continued.
LEMMA GlueWhole ==
  ASSUME NEW f \in Seq(Whole), NEW new \in Seq(Lines)
  PROVE  Glue(f, new) = f \o new
<1>1. CASE f = <<>>
  BY <1>1 DEF Glue
<1>2. CASE f # <<>>
  <2>1. Len(f) \in 1..Len(f)
    BY <1>2
  <2>2. f[Len(f)] \in Whole
    BY <2>1
  <2>3. Last(f) # CutLine
    BY <2>2 DEF Last, Whole
  <2> QED
    BY <2>3 DEF Glue
<1> QED
  BY <1>1, <1>2

\* Adding a key that is not there, with its header where that is missing.
LEMMA AddReads ==
  ASSUME NEW f \in Seq(Whole), NEW e \in Entries, NEW v \in Values, LineOf(f, e) = 0
  PROVE  /\ Add(f, e, v) \in Seq(Whole)
         /\ \A d \in Entries :
              ReadParam(Add(f, e, v), d) = IF d = e THEN v ELSE ReadParam(f, d)
<1> DEFINE hd == Header(e[1])
           l == Line(e[2], v)
<1>1. hd \in Whole /\ l \in Whole /\ hd \in Lines /\ l \in Lines
  BY NewLines, SettingsAssumption DEF Whole
<1>2. hd.group = e[1] /\ hd.key = "" /\ l.key = e[2]
  BY DEF Header, Line
<1>3. \A d \in Entries : d[2] # "" /\ (d # e => d[2] # e[2])
  <2>1. \A d \in Entries : d[2] \in Keys
    BY SettingsAssumption
  <2> QED
    BY <2>1, SettingsAssumption
<1>4. f \in Seq(Lines)
  BY DEF Whole
<1> HIDE DEF hd, l
<1>5. CASE HeaderOf(f, e[1]) # 0
  <2>1. Add(f, e, v) = f \o <<l>>
    <3>1. <<l>> \in Seq(Lines)
      BY <1>1
    <3> QED
      BY <1>5, <3>1, GlueWhole DEF Add, l
  <2>2. Add(f, e, v) = Append(f, l)
    BY <1>4, <2>1
  <2>3. Append(f, l) \in Seq(Whole)
    BY <1>1
  <2>4. ReadParam(Append(f, l), e) = v
    BY <1>4, <1>5, AppendFinds DEF l
  <2>5. ASSUME NEW d \in Entries, d # e
        PROVE  ReadParam(Append(f, l), d) = ReadParam(f, d)
    <3>1. CASE LineOf(f, d) # 0
      BY <1>1, <1>4, <3>1, AppendKeeps
    <3>2. CASE LineOf(f, d) = 0
      <4>1. l.key # d[2]
        BY <1>2, <1>3, <2>5
      <4>2. LineOf(Append(f, l), d) = 0
        BY <1>1, <1>4, <3>2, <4>1, AppendMisses
      <4> QED
        BY <3>2, <4>2 DEF ReadParam
    <3> QED
      BY <3>1, <3>2
  <2> QED
    BY <2>2, <2>3, <2>4, <2>5
<1>6. CASE HeaderOf(f, e[1]) = 0
  <2> DEFINE g == Append(f, hd)
  <2>1. Add(f, e, v) = f \o <<hd, l>>
    <3>1. <<hd, l>> \in Seq(Lines)
      BY <1>1
    <3> QED
      BY <1>6, <3>1, GlueWhole DEF Add, hd, l
  <2>2. Add(f, e, v) = Append(g, l)
    BY <1>1, <1>4, <2>1
  <2>3. g \in Seq(Whole) /\ g \in Seq(Lines) /\ Append(g, l) \in Seq(Whole)
    BY <1>1, <1>4
  <2>4. \A d \in Entries : hd.key # d[2]
    BY <1>2, <1>3
  <2>5. LineOf(g, e) = 0
    BY <1>1, <1>4, <2>4, AppendMisses
  <2>6. HeaderOf(g, e[1]) # 0
    <3>1. /\ Len(g) = Len(f) + 1 /\ g[Len(f) + 1] = hd
      BY <1>1, <1>4, AppendedPlaces
    <3> HIDE DEF g
    <3> DEFINE n == Len(g)
    <3>2. Len(f) \in Nat
      BY <1>4
    <3>3. n = Len(f) + 1 /\ g[n] = hd
      BY <3>1
    <3> HIDE DEF n
    <3>4. n \in 1..n /\ g[n].group = e[1]
      <4>1. n \in 1..n
        BY <3>2, <3>3
      <4>2. g[n].group = e[1]
        BY <1>2, <3>3
      <4> QED
        BY <4>1, <4>2
    <3>5. \/ HeaderOf(g, e[1]) = 0 /\ \A i \in 1..n : g[i].group # e[1]
          \/ IsHeader(g, e[1], HeaderOf(g, e[1]))
      BY <2>3, HeaderFound DEF n
    <3>6. n \in Nat /\ n = Len(g)
      BY <3>2, <3>3 DEF n
    <3> QED
      BY <3>4, <3>5, <3>6 DEF IsHeader
  <2>7. ReadParam(Append(g, l), e) = v
    BY <2>3, <2>5, <2>6, AppendFinds DEF l
  <2>8. ASSUME NEW d \in Entries, d # e
        PROVE  ReadParam(Append(g, l), d) = ReadParam(f, d)
    <3>1. l.key # d[2] /\ hd.key # d[2]
      BY <1>2, <1>3, <2>8, <2>4
    <3>2. CASE LineOf(f, d) # 0
      <4>1. LineOf(g, d) = LineOf(f, d) /\ ReadParam(g, d) = ReadParam(f, d)
        BY <1>1, <1>4, <3>2, AppendKeeps
      <4> QED
        BY <1>1, <2>3, <3>2, <4>1, AppendKeeps
    <3>3. CASE LineOf(f, d) = 0
      <4>1. LineOf(g, d) = 0
        BY <1>1, <1>4, <3>1, <3>3, AppendMisses
      <4>2. LineOf(Append(g, l), d) = 0
        BY <1>1, <2>3, <3>1, <4>1, AppendMisses
      <4> QED
        BY <3>3, <4>2 DEF ReadParam
    <3> QED
      BY <3>2, <3>3
  <2> QED
    BY <2>2, <2>3, <2>7, <2>8
<1> QED
  BY <1>5, <1>6

\* ModifyParam changes what one setting reads as, and no other.
LEMMA ModifiedReads ==
  ASSUME NEW f \in Seq(Whole), NEW e \in Entries, NEW v \in Values
  PROVE  /\ Modified(f, e, v) \in Seq(Whole)
         /\ \A d \in Entries :
              ReadParam(Modified(f, e, v), d) = IF d = e THEN v ELSE ReadParam(f, d)
<1>1. f \in Seq(Lines)
  BY DEF Whole
<1>2. CASE LineOf(f, e) # 0
  BY <1>1, <1>2, ChangeReads DEF Modified
<1>3. CASE LineOf(f, e) = 0
  BY <1>3, AddReads DEF Modified
<1> QED
  BY <1>2, <1>3

\* Whatever is left of a file, ModifyParam writes lines.
LEMMA ModifiedType ==
  ASSUME NEW f \in Seq(Lines), NEW e \in Entries, NEW v \in Values
  PROVE  Modified(f, e, v) \in Seq(Lines)
<1> DEFINE l == Line(e[2], v)
           hd == Header(e[1])
<1>1. l \in Lines /\ hd \in Lines
  BY NewLines, SettingsAssumption DEF Whole
<1> HIDE DEF l, hd
<1>2. <<l>> \in Seq(Lines) /\ <<hd, l>> \in Seq(Lines)
  BY <1>1
<1>3. \A new \in Seq(Lines) : Glue(f, new) \in Seq(Lines)
  <2>1. \A new \in Seq(Lines) : new # <<>> => Tail(new) \in Seq(Lines)
    OBVIOUS
  <2> QED
    BY <2>1 DEF Glue
<1>4. Add(f, e, v) \in Seq(Lines)
  BY <1>2, <1>3 DEF Add, l, hd
<1> QED
  BY <1>4, ChangeReads DEF Modified

-----------------------------------------------------------------------------
(* Types.                                                                  *)

\* What a copy that is cut short leaves are lines.
LEMMA CutOffType ==
  ASSUME NEW f \in Seq(Lines)
  PROVE  CutOff(f) \subseteq Seq(Lines)
<1>1. Prefixes(f) \subseteq Seq(Lines)
  BY DEF Prefixes
<1>2. CutLine \in Lines
  BY DEF Lines
<1>3. \A p \in Seq(Lines) : Append(p, CutLine) \in Seq(Lines)
  BY <1>2
<1> QED
  BY <1>1, <1>3 DEF CutOff

\* A file as it is delivered has whole lines.
LEMMA DeliveredWhole ==
  Delivered \subseteq Seq(Whole)
<1> SUFFICES ASSUME NEW f \in Delivered
             PROVE  f \in Seq(Whole)
  OBVIOUS
<1>1. MaxLines \in Nat
  BY SettingsAssumption
<1>2. PICK n \in 0..MaxLines : f \in [1..n -> Whole]
  BY DEF Delivered, SeqOf, Whole
<1>3. n \in Nat
  BY <1>1, <1>2
<1> QED
  BY <1>2, <1>3

\* The fields of ui and of fileMonitor.
LEMMA Fields ==
  ASSUME SettingsTypeOK
  PROVE  /\ UiIdle.pc = "idle"
         /\ ui.pc \in {"idle", "rewrite", "truncate", "copy", "cache"}
         /\ ui.pc # "idle" => ui.entry \in Entries /\ ui.value \in Values
         /\ ui.pc = "idle" => ui = UiIdle
         /\ \A l \in {"truncate", "copy", "cache"} : ui.pc # "idle" =>
              /\ [ui EXCEPT !.pc = l] \in [pc : {"truncate", "copy", "cache"},
                                           entry : Entries, value : Values]
              /\ [ui EXCEPT !.pc = l].pc = l
              /\ [ui EXCEPT !.pc = l].entry = ui.entry
              /\ [ui EXCEPT !.pc = l].value = ui.value
         /\ fileMonitor # NoRead => fileMonitor.entry \in Entries /\ fileMonitor.value \in Values
<1> DEFINE Working == [pc : {"rewrite", "truncate", "copy", "cache"},
                       entry : Entries, value : Values]
<1>1. UiIdle.pc = "idle"
  BY DEF UiIdle
<1>2. ui \in {UiIdle} \cup Working /\ fileMonitor \in {NoRead} \cup [entry : Entries, value : Values]
  BY DEF SettingsTypeOK
<1>3. CASE ui = UiIdle
  BY <1>1, <1>2, <1>3
<1>4. CASE ui \in Working
  BY <1>1, <1>2, <1>4
<1> QED
  BY <1>2, <1>3, <1>4

\* The first state has the types.
LEMMA SettingsTypeInit ==
  SettingsInit => SettingsTypeOK
<1> SUFFICES ASSUME SettingsInit
             PROVE  SettingsTypeOK
  OBVIOUS
<1>1. file \in Seq(Lines)
  BY DeliveredWhole DEF SettingsInit, Whole
<1>2. saved \in [Entries -> Values \cup {0}]
  BY <1>1, ReadType DEF SettingsInit
<1>3. MaxSets \in Nat
  BY SettingsAssumption
<1>4. sets \in 0..MaxSets
  BY <1>3 DEF SettingsInit
<1>5. fileTmp \in Seq(Lines) /\ cache \in [Entries -> Values \cup {0}]
  BY DEF SettingsInit
<1>6. ui = UiIdle /\ fileMonitor = NoRead /\ unopened = Entries /\ fileDamaged = FALSE
      /\ overtaken = {}
  BY DEF SettingsInit
<1> QED
  BY <1>1, <1>2, <1>4, <1>5, <1>6 DEF SettingsTypeOK

\* Every step keeps the types.
LEMMA SettingsTypeStep ==
  SettingsTypeOK /\ [SettingsNext]_settingsVars => SettingsTypeOK'
<1> SUFFICES ASSUME SettingsTypeOK, [SettingsNext]_settingsVars
             PROVE  SettingsTypeOK'
  OBVIOUS
<1> USE DEF SettingsTypeOK, damage
<1>1. ASSUME NEW e \in Entries, NEW v \in Values, Set(e, v)
      PROVE  SettingsTypeOK'
  <2>1. ui' \in [pc : {"rewrite", "truncate", "copy", "cache"}, entry : Entries, value : Values]
    BY <1>1 DEF Set
  <2>2. MaxSets \in Nat
    BY SettingsAssumption
  <2>3. sets' \in 0..MaxSets
    BY <1>1, <2>2 DEF Set
  <2> QED
    BY <1>1, <2>1, <2>3 DEF Set
<1>2. ASSUME NEW e \in Entries, Open(e)
      PROVE  SettingsTypeOK'
  <2>1. ReadParam(file, e) \in Values \cup {0}
    BY ReadType
  <2>2. cache' \in [Entries -> Values \cup {0}] /\ cache'[e] = ReadParam(file, e)
    BY <1>2, <2>1 DEF Open
  <2>3. cache'[e] # 0 => cache'[e] \in Values
    BY <2>1, <2>2
  <2>4. ui' \in {UiIdle} \cup [pc : {"rewrite", "truncate", "copy", "cache"},
                              entry : Entries, value : Values]
    BY <1>2, <2>3 DEF Open
  <2> QED
    BY <1>2, <2>2, <2>4 DEF Open
<1>3. ASSUME OpenFails
      PROVE  SettingsTypeOK'
  BY <1>3 DEF OpenFails
<1>4. ASSUME Rewrite
      PROVE  SettingsTypeOK'
  <2>1. Modified(file, ui.entry, ui.value) \in Seq(Lines)
    BY <1>4, Fields, ModifiedType DEF Rewrite
  <2> QED
    BY <1>4, <2>1, Fields DEF Rewrite, Goto
<1>5. ASSUME CopyOpen
      PROVE  SettingsTypeOK'
  BY <1>5, Fields DEF CopyOpen, Goto
<1>6. ASSUME CopyFile
      PROVE  SettingsTypeOK'
  <2>1. saved' \in [Entries -> Values \cup {0}]
    BY <1>6, Fields DEF CopyFile
  <2> QED
    BY <1>6, <2>1, Fields DEF CopyFile, Goto
<1>7. ASSUME CopyFails
      PROVE  SettingsTypeOK'
  <2>1. file' \in Seq(Lines)
    BY <1>7, CutOffType DEF CopyFails
  <2> QED
    BY <1>7, <2>1, Fields DEF CopyFails, Goto
<1>8. ASSUME SetCache
      PROVE  SettingsTypeOK'
  <2>1. cache' \in [Entries -> Values \cup {0}]
    BY <1>8, Fields DEF SetCache
  <2>2. overtaken' \subseteq Entries
    BY <1>8, Fields DEF SetCache
  <2> QED
    BY <1>8, <2>1, <2>2 DEF SetCache
<1>9. ASSUME NEW e \in Entries, MonitorRead(e)
      PROVE  SettingsTypeOK'
  <2>1. ReadParam(file, e) \in Values
    BY <1>9, ReadType DEF MonitorRead
  <2> QED
    BY <1>9, <2>1 DEF MonitorRead
<1>10. ASSUME MonitorKeep
       PROVE  SettingsTypeOK'
  <2>1. cache' \in [Entries -> Values \cup {0}]
    BY <1>10, Fields DEF MonitorKeep
  <2> QED
    BY <1>10, <2>1 DEF MonitorKeep
<1>11. ASSUME PowerOn
       PROVE  SettingsTypeOK'
  <2>1. file' \in Seq(Lines) /\ fileDamaged' \in BOOLEAN
    BY <1>11, CutOffType DEF PowerOn
  <2> QED
    BY <1>11, <2>1 DEF PowerOn
<1>12. ASSUME UNCHANGED settingsVars
       PROVE  SettingsTypeOK'
  BY <1>12 DEF settingsVars
<1> QED
  BY <1>1, <1>2, <1>3, <1>4, <1>5, <1>6, <1>7, <1>8, <1>9, <1>10, <1>11, <1>12
     DEF SettingsNext, Setter, Getter, ModifyParam

\* The files hold lines, the two threads what settings and values they work
\* on (fileConfig.cpp, state.cpp).
THEOREM SettingsTypeCorrect == SettingsSpec => []SettingsTypeOK
  BY SettingsTypeInit, SettingsTypeStep, PTL DEF SettingsSpec

-----------------------------------------------------------------------------
(* What is saved, what is read and what is used.                           *)

\* f has whole lines and each setting reads in it as values says.
ReadsAs(f, values) ==
  f \in Seq(Whole) /\ \A e \in Entries : ReadParam(f, e) = values[e]

\* The file as it is before, during and after the setter rewrites it.
FilesOK ==
  /\ ui.pc # "copy" => ReadsAs(file, saved)
  /\ ui.pc \in {"truncate", "copy"} => ReadsAs(fileTmp, [saved EXCEPT ![ui.entry] = ui.value])
  /\ ui.pc = "copy" => file = <<>>
  /\ ui.pc = "cache" => saved[ui.entry] = ui.value

\* The setter has saved this setting and not yet changed the cache.
Behind(e) == ui.pc = "cache" /\ ui.entry = e

\* A cached value is the saved one, or not known before the page is filled.
\* A getter finds what was saved when it read; what a setter has saved since
\* is about to be cached, or has been and is marked.
CacheOK ==
  /\ \A e \in Entries :
       \/ Behind(e) \/ cache[e] = saved[e] \/ e \in overtaken
       \/ cache[e] = 0 /\ e \in unopened
  /\ fileMonitor # NoRead =>
       /\ unopened = {}
       /\ \/ fileMonitor.value = saved[fileMonitor.entry]
          \/ Behind(fileMonitor.entry) \/ fileMonitor.entry \in overtaken

SettingsInv == SettingsTypeOK /\ (~fileDamaged => FilesOK /\ CacheOK)

\* The invariant holds in the first state.
LEMMA SettingsInvInit ==
  SettingsInit => SettingsInv
<1> SUFFICES ASSUME SettingsInit
             PROVE  SettingsInv
  OBVIOUS
<1>1. ui.pc = "idle"
  BY DEF SettingsInit, UiIdle
<1>2. ReadsAs(file, saved)
  BY DeliveredWhole DEF SettingsInit, ReadsAs
<1>3. FilesOK
  BY <1>1, <1>2 DEF FilesOK
<1>4. CacheOK
  BY DEF SettingsInit, CacheOK
<1> QED
  BY <1>3, <1>4, SettingsTypeInit DEF SettingsInv

\* A step that changes neither file nor what is saved keeps the files right.
LEMMA FilesStay ==
  ASSUME FilesOK, UNCHANGED <<file, saved>>, ui.pc # "copy", ui'.pc \in {"idle", "rewrite"}
  PROVE  FilesOK'
<1>1. ReadsAs(file, saved)'
  BY DEF FilesOK, ReadsAs
<1> QED
  BY <1>1 DEF FilesOK

\* The steps of the setter, and every other step, keep the files right.
LEMMA FilesStep ==
  ASSUME SettingsInv, SettingsTypeOK', SettingsNext, ~fileDamaged, ~fileDamaged'
  PROVE  FilesOK'
<1>0. FilesOK /\ SettingsTypeOK
  BY DEF SettingsInv
<1>1. ASSUME NEW e \in Entries, NEW v \in Values, Set(e, v)
      PROVE  FilesOK'
  <2>1. ui.pc = "idle" /\ ui'.pc = "rewrite" /\ UNCHANGED <<file, saved>>
    BY <1>1 DEF Set, UiIdle
  <2> QED
    BY <1>0, <2>1, FilesStay
<1>2. ASSUME NEW e \in Entries, Open(e)
      PROVE  FilesOK'
  <2>1. ui.pc = "idle" /\ ui'.pc \in {"idle", "rewrite"} /\ UNCHANGED <<file, saved>>
    BY <1>2 DEF Open, UiIdle
  <2> QED
    BY <1>0, <2>1, FilesStay
<1>3. ASSUME OpenFails
      PROVE  FilesOK'
  <2>1. ui.pc = "rewrite" /\ ui'.pc = "idle" /\ UNCHANGED <<file, saved>>
    BY <1>3 DEF OpenFails, UiIdle
  <2> QED
    BY <1>0, <2>1, FilesStay
<1>4. ASSUME Rewrite
      PROVE  FilesOK'
  <2>1. /\ ui.pc = "rewrite" /\ ui'.pc = "truncate" /\ ui'.entry = ui.entry /\ ui'.value = ui.value
        /\ ui.entry \in Entries /\ ui.value \in Values
    BY <1>0, <1>4, Fields DEF Rewrite, Goto
  <2>2. ReadsAs(file, saved)
    BY <1>0, <2>1 DEF FilesOK
  <2>3. /\ fileTmp' \in Seq(Whole)
        /\ \A d \in Entries :
             ReadParam(fileTmp', d) = IF d = ui.entry THEN ui.value ELSE ReadParam(file, d)
    BY <1>4, <2>1, <2>2, ModifiedReads DEF Rewrite, ReadsAs
  <2>4. saved \in [Entries -> Values \cup {0}]
    BY <1>0 DEF SettingsTypeOK
  <2>5. \A d \in Entries :
          ReadParam(fileTmp', d) = [saved EXCEPT ![ui.entry] = ui.value][d]
    BY <2>1, <2>2, <2>3, <2>4 DEF ReadsAs
  <2>6. ReadsAs(fileTmp', [saved EXCEPT ![ui.entry] = ui.value])
    BY <2>3, <2>5 DEF ReadsAs
  <2>7. UNCHANGED <<file, saved>>
    BY <1>4 DEF Rewrite
  <2> QED
    BY <2>1, <2>2, <2>6, <2>7 DEF FilesOK, ReadsAs
<1>5. ASSUME CopyOpen
      PROVE  FilesOK'
  <2>1. /\ ui.pc = "truncate" /\ ui'.pc = "copy" /\ ui'.entry = ui.entry /\ ui'.value = ui.value
    BY <1>0, <1>5, Fields DEF CopyOpen, Goto
  <2>2. ReadsAs(fileTmp, [saved EXCEPT ![ui.entry] = ui.value])
    BY <1>0, <2>1 DEF FilesOK
  <2>3. UNCHANGED <<fileTmp, saved>> /\ file' = <<>>
    BY <1>5 DEF CopyOpen
  <2> QED
    BY <2>1, <2>2, <2>3 DEF FilesOK, ReadsAs
<1>6. ASSUME CopyFile
      PROVE  FilesOK'
  <2>1. /\ ui.pc = "copy" /\ ui'.pc = "cache" /\ ui'.entry = ui.entry /\ ui'.value = ui.value
        /\ ui.entry \in Entries
    BY <1>0, <1>6, Fields DEF CopyFile, Goto
  <2>2. ReadsAs(fileTmp, [saved EXCEPT ![ui.entry] = ui.value])
    BY <1>0, <2>1 DEF FilesOK
  <2>3. file' = fileTmp /\ saved' = [saved EXCEPT ![ui.entry] = ui.value]
    BY <1>6 DEF CopyFile
  <2>4. saved'[ui.entry] = ui.value
    BY <1>0, <2>1, <2>3 DEF SettingsTypeOK
  <2> QED
    BY <2>1, <2>2, <2>3, <2>4 DEF FilesOK, ReadsAs
<1>7. ASSUME CopyFails
      PROVE  FALSE
  BY <1>7 DEF CopyFails
<1>8. ASSUME SetCache
      PROVE  FilesOK'
  <2>1. ui.pc = "cache" /\ ui'.pc = "idle" /\ UNCHANGED <<file, saved>>
    BY <1>8 DEF SetCache, UiIdle
  <2> QED
    BY <1>0, <2>1, FilesStay
<1>9. ASSUME UNCHANGED <<file, fileTmp, saved, ui>>
      PROVE  FilesOK'
  BY <1>0, <1>9 DEF FilesOK, ReadsAs
<1>10. ASSUME PowerOn
       PROVE  FilesOK'
  <2>1. ui.pc # "copy" /\ ui'.pc = "idle" /\ UNCHANGED <<file, saved>>
    BY <1>10 DEF PowerOn, UiIdle
  <2> QED
    BY <1>0, <2>1, FilesStay
<1> QED
  BY <1>1, <1>2, <1>3, <1>4, <1>5, <1>6, <1>7, <1>8, <1>9, <1>10
     DEF SettingsNext, Setter, Getter, ModifyParam, MonitorRead, MonitorKeep

\* What is saved and cached stays right when neither changes and the setter
\* is not about to change the cache.
LEMMA CacheStays ==
  ASSUME CacheOK, UNCHANGED <<saved, cache, fileMonitor, unopened, overtaken>>,
         ui.pc # "cache"
  PROVE  CacheOK'
  BY DEF CacheOK, Behind

\* Every step keeps what is cached right.
LEMMA CacheStep ==
  ASSUME SettingsInv, SettingsTypeOK', SettingsNext, ~fileDamaged, ~fileDamaged'
  PROVE  CacheOK'
<1> USE DEF damage
<1>0. FilesOK /\ CacheOK /\ SettingsTypeOK
  BY DEF SettingsInv
<1>2. saved \in [Entries -> Values \cup {0}] /\ cache \in [Entries -> Values \cup {0}]
  BY <1>0 DEF SettingsTypeOK
<1>3. ASSUME NEW e \in Entries, NEW v \in Values, Set(e, v)
      PROVE  CacheOK'
  <2>1. ui.pc = "idle" /\ UNCHANGED <<saved, cache, fileMonitor, unopened, overtaken>>
    BY <1>3 DEF Set, UiIdle
  <2> QED
    BY <1>0, <2>1, CacheStays
<1>4. ASSUME NEW e \in Entries, Open(e)
      PROVE  CacheOK'
  <2>1. /\ ui.pc = "idle" /\ e \in unopened /\ unopened' = unopened \ {e}
        /\ UNCHANGED <<file, saved, fileMonitor, overtaken>>
    BY <1>4 DEF Open, UiIdle
  <2>2. cache' = [cache EXCEPT ![e] = saved[e]]
    BY <1>0, <1>4, <2>1 DEF Open, FilesOK, ReadsAs
  <2>3. fileMonitor = NoRead
    BY <1>0, <2>1 DEF CacheOK
  <2>4. \A d \in Entries : \/ cache[d] = saved[d] \/ d \in overtaken
                           \/ cache[d] = 0 /\ d \in unopened
    BY <1>0, <2>1 DEF CacheOK, Behind
  <2>5. \A d \in Entries : \/ cache'[d] = saved[d] \/ d \in overtaken
                           \/ cache'[d] = 0 /\ d \in unopened'
    BY <1>2, <2>1, <2>2, <2>4
  <2>6. overtaken' = overtaken /\ fileMonitor' = NoRead
    BY <2>1, <2>3
  <2>7. \A d \in Entries : \/ cache'[d] = saved'[d] \/ d \in overtaken'
                           \/ cache'[d] = 0 /\ d \in unopened'
    BY <2>1, <2>5, <2>6
  <2> QED
    BY <2>6, <2>7 DEF CacheOK, Behind
<1>5. ASSUME OpenFails \/ Rewrite \/ CopyOpen
      PROVE  CacheOK'
  <2>1. /\ ui.pc \notin {"idle", "cache"}
        /\ UNCHANGED <<saved, cache, fileMonitor, unopened, overtaken>>
    BY <1>5 DEF OpenFails, Rewrite, CopyOpen
  <2> QED
    BY <1>0, <2>1, CacheStays
<1>6. ASSUME CopyFile
      PROVE  CacheOK'
  <2>1. /\ ui.pc = "copy" /\ ui'.pc = "cache" /\ ui'.entry = ui.entry
        /\ saved' = [saved EXCEPT ![ui.entry] = ui.value]
        /\ UNCHANGED <<cache, fileMonitor, unopened, overtaken>>
    BY <1>0, <1>6, Fields DEF CopyFile, Goto
  <2>2. \A d \in Entries : saved'[d] = saved[d] \/ Behind(d)'
    BY <1>2, <2>1 DEF Behind
  <2>3. \A d \in Entries : ~Behind(d)
    BY <2>1 DEF Behind
  <2>4. fileMonitor # NoRead => fileMonitor.entry \in Entries
    BY <1>0, Fields
  <2> QED
    BY <1>0, <2>1, <2>2, <2>3, <2>4 DEF CacheOK
<1>7. ASSUME SetCache
      PROVE  CacheOK'
  <2>1. /\ ui.pc = "cache" /\ ui.entry \in Entries
        /\ cache' = [cache EXCEPT ![ui.entry] = ui.value]
        /\ UNCHANGED <<saved, fileMonitor, unopened>>
    BY <1>0, <1>7, Fields DEF SetCache
  <2>2. saved[ui.entry] = ui.value
    BY <1>0, <2>1 DEF FilesOK
  <2>3. \A d \in Entries : d # ui.entry => ~Behind(d) /\ (d \in overtaken <=> d \in overtaken')
    BY <1>7 DEF SetCache, Behind
  <2>4. fileMonitor.entry = ui.entry =>
          fileMonitor.value = ui.value \/ ui.entry \in overtaken'
    BY <1>7 DEF SetCache
  <2>5. \A d \in Entries : \/ cache'[d] = saved[d] \/ d \in overtaken'
                           \/ cache'[d] = 0 /\ d \in unopened
    BY <1>0, <1>2, <2>1, <2>2, <2>3 DEF CacheOK
  <2>6. fileMonitor # NoRead => fileMonitor.entry \in Entries
    BY <1>0, Fields
  <2>7. fileMonitor # NoRead =>
          /\ unopened = {}
          /\ \/ fileMonitor.value = saved[fileMonitor.entry]
             \/ fileMonitor.entry \in overtaken'
    BY <1>0, <2>2, <2>3, <2>4, <2>6 DEF CacheOK
  <2>8. \A d \in Entries : \/ cache'[d] = saved'[d] \/ d \in overtaken'
                           \/ cache'[d] = 0 /\ d \in unopened'
    BY <2>1, <2>5
  <2>9. fileMonitor' # NoRead =>
          /\ unopened' = {}
          /\ \/ fileMonitor'.value = saved'[fileMonitor'.entry]
             \/ fileMonitor'.entry \in overtaken'
    BY <2>1, <2>7, Zenon
  <2> QED
    BY <2>8, <2>9 DEF CacheOK, Behind
<1>8. ASSUME NEW e \in Entries, MonitorRead(e)
      PROVE  CacheOK'
  <2>1. /\ unopened = {} /\ cache[e] = 0 /\ ReadParam(file, e) # 0
        /\ fileMonitor' = [entry |-> e, value |-> ReadParam(file, e)]
        /\ UNCHANGED <<file, saved, cache, ui, unopened, overtaken>>
    BY <1>8 DEF MonitorRead
  <2>2. ui.pc # "copy"
    <3>1. ASSUME file = <<>>
          PROVE  ReadParam(file, e) = 0
      <4>1. file \in Seq(Lines) /\ \A i \in 1..Len(file) : file[i].group # e[1]
        BY <1>0, <3>1 DEF SettingsTypeOK
      <4>2. HeaderOf(file, e[1]) = 0
        BY <4>1, HeaderMissing
      <4> QED
        BY <4>2 DEF ReadParam, LineOf
    <3> QED
      BY <1>0, <2>1, <3>1 DEF FilesOK
  <2>3. ReadParam(file, e) = saved[e]
    BY <1>0, <2>2 DEF FilesOK, ReadsAs
  <2>4. unopened' = {} /\ fileMonitor'.value = saved'[fileMonitor'.entry]
    BY <2>1, <2>3
  <2> QED
    BY <1>0, <2>1, <2>4 DEF CacheOK, Behind
<1>9. ASSUME MonitorKeep
      PROVE  CacheOK'
  <2>1. /\ fileMonitor # NoRead /\ fileMonitor' = NoRead /\ fileMonitor.entry \in Entries
        /\ cache' = [cache EXCEPT ![fileMonitor.entry] = fileMonitor.value]
        /\ UNCHANGED <<saved, ui, unopened, overtaken>>
    BY <1>0, <1>9, Fields DEF MonitorKeep
  <2>2. \/ fileMonitor.value = saved[fileMonitor.entry]
        \/ Behind(fileMonitor.entry) \/ fileMonitor.entry \in overtaken
    BY <1>0, <2>1 DEF CacheOK
  <2> QED
    BY <1>0, <1>2, <2>1, <2>2 DEF CacheOK, Behind
<1>10. ASSUME PowerOn
       PROVE  CacheOK'
  BY <1>10 DEF PowerOn, CacheOK
<1>11. ASSUME CopyFails
       PROVE  FALSE
  BY <1>11 DEF CopyFails
<1> QED
  BY <1>3, <1>4, <1>5, <1>6, <1>7, <1>8, <1>9, <1>10, <1>11
     DEF SettingsNext, Setter, Getter, ModifyParam

\* The invariant is inductive.
LEMMA SettingsInvStep ==
  SettingsInv /\ [SettingsNext]_settingsVars => SettingsInv'
<1> SUFFICES ASSUME SettingsInv, [SettingsNext]_settingsVars
             PROVE  SettingsInv'
  OBVIOUS
<1>1. SettingsTypeOK'
  BY SettingsTypeStep DEF SettingsInv
<1>2. CASE UNCHANGED settingsVars
  <2>1. (FilesOK /\ CacheOK) => (FilesOK /\ CacheOK)'
    BY <1>2 DEF settingsVars, damage, FilesOK, CacheOK, Behind, ReadsAs
  <2>2. fileDamaged' = fileDamaged
    BY <1>2 DEF settingsVars, damage
  <2> QED
    BY <1>1, <2>1, <2>2 DEF SettingsInv
<1>3. CASE SettingsNext
  <2>1. fileDamaged => fileDamaged'
    BY <1>3 DEF SettingsNext, Setter, Getter, ModifyParam, Set, Open, OpenFails, Rewrite,
                CopyOpen, CopyFile, CopyFails, SetCache, MonitorRead, MonitorKeep, PowerOn, damage
  <2>2. ~fileDamaged' => FilesOK' /\ CacheOK'
    BY <1>1, <1>3, <2>1, FilesStep, CacheStep
  <2> QED
    BY <1>1, <2>2 DEF SettingsInv
<1> QED
  BY <1>2, <1>3

\* SettingsInv holds in every reachable state.
LEMMA SettingsInvHolds == SettingsSpec => []SettingsInv
  BY SettingsInvInit, SettingsInvStep, PTL DEF SettingsSpec

\* A setting reads as it was set last, wherever a power failure hit, unless
\* it cut a copy short (ReadsBack; fileConfig.cpp 65-188).
THEOREM ReadsBackCorrect == SettingsSpec => []ReadsBack
<1>1. SettingsInv => ReadsBack
  BY DEF SettingsInv, FilesOK, ReadsAs, ReadsBack
<1> QED
  BY <1>1, SettingsInvHolds, PTL

\* What the program uses is what the file holds, whenever no setter is at
\* work, but for a setting that was changed while monitorThread was between
\* reading and keeping it (CacheIsSaved; state.cpp 195-262).
THEOREM CacheCorrect == SettingsSpec => []CacheIsSaved
<1>1. ASSUME SettingsInv
      PROVE  CacheIsSaved
  <2> SUFFICES ASSUME ui = UiIdle, ~fileDamaged, NEW e \in Entries
               PROVE  cache[e] \in {0, saved[e]} \/ e \in overtaken
    BY DEF CacheIsSaved
  <2>1. ui.pc = "idle"
    BY DEF UiIdle
  <2> QED
    BY <1>1, <2>1 DEF SettingsInv, CacheOK, Behind
<1> QED
  BY <1>1, SettingsInvHolds, PTL
=============================================================================
