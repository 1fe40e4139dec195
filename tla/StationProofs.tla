---------------------------- MODULE StationProofs ----------------------------
(***************************************************************************)
(* Type correctness of Station and its invariants, for any number of        *)
(* roaming attempts, retries of the handshake and channels, and whatever    *)
(* the host asks for: nobody is left linking without a timer, a station     *)
(* that is linked is neither linking nor roaming, a survey under way will   *)
(* end, and an attempt to connect goes on until it has an outcome.          *)
(***************************************************************************)
EXTENDS Station, TLAPS

\* LinkedAlone of a record; the operators build new ones from it.
Alone(m) ==
    "linked" \in m.fw => "linking" \notin m.fw /\ m.to_roam = 0 /\ m.bss
\* ... without its first part, for the records a join is tried from
Apart(m) == "linked" \in m.fw => m.to_roam = 0 /\ m.bss
Timed(m) == "linking" \in m.fw => m.assoc_timer
Sound(m) == m \in MlmeStates /\ Alone(m) /\ Timed(m)

-----------------------------------------------------------------------------
(* The operators of Mlme.                                                    *)


\* A record that differs only in what no proof below asks for, and in fw
Same(n, m) ==
    /\ n \in MlmeStates
    /\ n.to_roam = m.to_roam /\ n.bss = m.bss /\ n.assoc_timer = m.assoc_timer

LEMMA SetFacts ==
    ASSUME NEW m \in MlmeStates, NEW bits \in SUBSET {"survey", "linking", "linked"}
    PROVE  /\ Same(Set(m, bits), m) /\ Set(m, bits).fw = m.fw \cup bits
           /\ Same(Clear(m, bits), m) /\ Clear(m, bits).fw = m.fw \ bits
  BY DEF Set, Clear, MlmeStates, Same

LEMMA EnqFacts ==
    ASSUME NEW m \in MlmeStates, NEW cmd \in Cmds
    PROVE  Same(Enq(m, cmd), m) /\ Enq(m, cmd).fw = m.fw
  BY DEF Enq, MlmeStates, Same

LEMMA ToJoinFacts ==
    ASSUME NEW m \in MlmeStates, NEW b \in BOOLEAN
    PROVE  /\ Same([m EXCEPT !.to_join = b], m)
           /\ [m EXCEPT !.to_join = b].fw = m.fw
  BY DEF MlmeStates, Same

LEMMA TimerFacts ==
    ASSUME NEW m \in MlmeStates, NEW b \in BOOLEAN
    PROVE  /\ [m EXCEPT !.assoc_timer = b] \in MlmeStates
           /\ [m EXCEPT !.assoc_timer = b].fw = m.fw
           /\ [m EXCEPT !.assoc_timer = b].to_roam = m.to_roam
           /\ [m EXCEPT !.assoc_timer = b].bss = m.bss
           /\ [m EXCEPT !.assoc_timer = b].assoc_timer = b
  BY DEF MlmeStates

LEMMA BssFacts ==
    ASSUME NEW m \in MlmeStates, NEW b \in BOOLEAN
    PROVE  /\ [m EXCEPT !.bss = b] \in MlmeStates
           /\ [m EXCEPT !.bss = b].fw = m.fw
           /\ [m EXCEPT !.bss = b].to_roam = m.to_roam
           /\ [m EXCEPT !.bss = b].bss = b
           /\ [m EXCEPT !.bss = b].assoc_timer = m.assoc_timer
  BY DEF MlmeStates

LEMMA SetToRoamFacts ==
    ASSUME NEW m \in MlmeStates, NEW n \in 0 .. MaxRoam
    PROVE  /\ SetToRoam(m, n) \in MlmeStates
           /\ SetToRoam(m, n).fw = m.fw /\ SetToRoam(m, n).to_roam = n
           /\ SetToRoam(m, n).bss = m.bss
           /\ SetToRoam(m, n).assoc_timer = m.assoc_timer
  BY DEF SetToRoam, MlmeStates

LEMMA CountDownFacts ==
    ASSUME NEW m \in MlmeStates, m.to_roam > 0
    PROVE  /\ [m EXCEPT !.to_roam = @ - 1] \in MlmeStates
           /\ [m EXCEPT !.to_roam = @ - 1].fw = m.fw
           /\ [m EXCEPT !.to_roam = @ - 1].to_roam = m.to_roam - 1
           /\ [m EXCEPT !.to_roam = @ - 1].bss = m.bss
           /\ [m EXCEPT !.to_roam = @ - 1].assoc_timer = m.assoc_timer
<1>1. m.to_roam - 1 \in 0 .. MaxRoam
  BY MlmeAssumption DEF MlmeStates
<1> QED
  BY <1>1 DEF MlmeStates

LEMMA DisconnectFacts ==
    ASSUME NEW m \in MlmeStates
    PROVE  /\ Same(IndicateDisconnect(m), m)
           /\ IndicateDisconnect(m).fw = m.fw \ {"linking", "linked"}
           /\ Same(CfgDisconnect(m), m) /\ CfgDisconnect(m).fw = m.fw
  BY DEF IndicateDisconnect, CfgDisconnect, Clear, MlmeStates, Same

LEMMA ScanDoneFacts ==
    ASSUME NEW m \in MlmeStates
    PROVE  Same(ScanDone(m), m) /\ ScanDone(m).fw = m.fw
  BY DEF ScanDone, MlmeStates, Same

\* A survey keeps the entry of a station that is linked.
LEMMA SiteSurveyFacts ==
    ASSUME NEW m \in MlmeStates, Apart(m), NEW n \in SiteSurvey(m)
    PROVE  /\ n \in MlmeStates /\ n.fw = m.fw \cup {"survey"}
           /\ n.to_roam = m.to_roam /\ n.assoc_timer = m.assoc_timer /\ Apart(n)
<1>1. PICK b \in {m.bss, m.bss /\ "linked" \in m.fw} :
          n = Enq([Set(m, {"survey"}) EXCEPT !.bss = b, !.scan_timer = TRUE], "survey")
  BY DEF SiteSurvey
<1>2. m.bss \in BOOLEAN /\ b \in BOOLEAN /\ ("linked" \in m.fw => b)
  BY <1>1 DEF MlmeStates, Apart
<1> DEFINE k == [Set(m, {"survey"}) EXCEPT !.bss = b, !.scan_timer = TRUE]
<1>3. /\ k \in MlmeStates /\ k.fw = m.fw \cup {"survey"} /\ k.to_roam = m.to_roam
      /\ k.assoc_timer = m.assoc_timer /\ k.bss = b
  BY <1>2 DEF Set, MlmeStates
<1> HIDE DEF k
<1>4. n = Enq(k, "survey")
  BY <1>1 DEF k
<1> QED
  BY <1>2, <1>3, <1>4, EnqFacts DEF Same, Apart, Cmds

\* A join leaves the link it has.
LEMMA JoinsFacts ==
    ASSUME NEW m \in MlmeStates, NEW n \in Joins(m)
    PROVE  Same(n, m) /\ "linked" \notin n.fw
<1> DEFINE left == IF "linked" \in m.fw THEN IndicateDisconnect(Enq(m, "disc")) ELSE m
<1>1. Same(left, m) /\ "linked" \notin left.fw
  <2>1. CASE "linked" \in m.fw
    BY <2>1, EnqFacts, DisconnectFacts DEF Same, Cmds
  <2>2. CASE "linked" \notin m.fw
    BY <2>2 DEF Same
  <2> QED
    BY <2>1, <2>2
<1>2. n = Enq(Set(left, {"linking"}), "join")
  BY DEF Joins
<1> HIDE DEF left
<1> QED
  BY <1>1, <1>2, SetFacts, EnqFacts DEF Same, Cmds

-----------------------------------------------------------------------------
(* The events.                                                               *)

\* Whatever it is tried from, rtw_do_join leaves a sound record.
LEMMA DoJoinSound ==
    ASSUME NEW m \in MlmeStates, Apart(m), NEW r \in DoJoin(m)
    PROVE  Sound(r.m)
<1> DEFINE want == [m EXCEPT !.to_join = TRUE]
           none == Clear(want, {"linking"})
<1>1. Same(want, m) /\ want.fw = m.fw
  BY ToJoinFacts
<1>2. Same(none, m) /\ none.fw = m.fw \ {"linking"}
  <2> HIDE DEF want
  <2> QED
    BY <1>1, SetFacts DEF Same
<1>3. Same(Set(want, {"linking"}), m)
  BY <1>1, SetFacts DEF Same
<1>4. \/ \E n \in Joins(Set(want, {"linking"})) : r = [ok |-> TRUE, m |-> Arm(n)]
      \/ \E n \in SiteSurvey(none) : r = [ok |-> TRUE, m |-> n]
      \/ r = [ok |-> FALSE, m |-> [none EXCEPT !.to_join = FALSE]]
  BY DEF DoJoin
<1> HIDE DEF want, none
<1>5. CASE \E n \in Joins(Set(want, {"linking"})) : r = [ok |-> TRUE, m |-> Arm(n)]
  <2>1. PICK n \in Joins(Set(want, {"linking"})) : r.m = Arm(n)
    BY <1>5
  <2>2. n \in MlmeStates /\ "linked" \notin n.fw
    BY <1>3, JoinsFacts DEF Same
  <2> QED
    BY <2>1, <2>2 DEF Arm, MlmeStates, Sound, Alone, Timed
<1>6. CASE \E n \in SiteSurvey(none) : r = [ok |-> TRUE, m |-> n]
  <2>1. Apart(none)
    BY <1>2 DEF Apart, Same
  <2>2. PICK n \in SiteSurvey(none) : r.m = n
    BY <1>6
  <2>3. /\ n \in MlmeStates /\ n.fw = none.fw \cup {"survey"} /\ Apart(n)
    BY <1>2, <2>1, SiteSurveyFacts DEF Same
  <2> QED
    BY <1>2, <2>2, <2>3 DEF Sound, Alone, Timed, Apart
<1>7. CASE r = [ok |-> FALSE, m |-> [none EXCEPT !.to_join = FALSE]]
  <2>1. /\ Same([none EXCEPT !.to_join = FALSE], none)
        /\ [none EXCEPT !.to_join = FALSE].fw = none.fw
    BY <1>2, ToJoinFacts DEF Same
  <2> QED
    BY <1>2, <1>7, <2>1 DEF Sound, Alone, Timed, Apart, Same
<1> QED
  BY <1>4, <1>5, <1>6, <1>7

LEMMA JoinSucceedsSound ==
    ASSUME NEW m, Sound(m)
    PROVE  Sound(JoinSucceeds(m))
<1>1. CASE ~("linking" \in m.fw /\ m.bss)
  BY <1>1 DEF JoinSucceeds
<1>2. CASE "linking" \in m.fw /\ m.bss
  <2> DEFINE a == [m EXCEPT !.fw = {}]
             b == [a EXCEPT !.to_join = FALSE,
                            !.sme = IF "linked" \notin a.fw /\ a.to_roam = 0
                                    THEN "connected" ELSE @]
             c == SetToRoam(Set(b, {"linked"}), 0)
  <2>1. b \in MlmeStates /\ b.fw = {} /\ b.bss
    BY <1>2 DEF Sound, MlmeStates
  <2>2. IndicateConnect(a) = c
    BY DEF IndicateConnect
  <2> HIDE DEF b
  <2>3. c \in MlmeStates /\ c.fw = {"linked"} /\ c.to_roam = 0 /\ c.bss
    <3>1. /\ Same(Set(b, {"linked"}), b)
          /\ Set(b, {"linked"}).fw = {"linked"}
      BY <2>1, SetFacts
    <3>2. 0 \in 0 .. MaxRoam
      BY MlmeAssumption
    <3> QED
      BY <2>1, <3>1, <3>2, SetToRoamFacts DEF Same
  <2> HIDE DEF c
  <2>4. JoinSucceeds(m) = [c EXCEPT !.assoc_timer = FALSE]
    BY <1>2, <2>2 DEF JoinSucceeds
  <2>5. /\ JoinSucceeds(m) \in MlmeStates /\ JoinSucceeds(m).fw = {"linked"}
        /\ JoinSucceeds(m).to_roam = 0 /\ JoinSucceeds(m).bss
    BY <2>3, <2>4, TimerFacts
  <2> QED
    BY <2>5 DEF Sound, Alone, Timed
<1> QED
  BY <1>1, <1>2

LEMMA JoinFailsSound ==
    ASSUME NEW m, Sound(m)
    PROVE  Sound(JoinFails(m))
<1> DEFINE a == [m EXCEPT !.assoc_timer = TRUE]
<1>1. /\ a \in MlmeStates /\ a.fw = m.fw /\ a.to_roam = m.to_roam /\ a.bss = m.bss
      /\ a.assoc_timer
  BY TimerFacts DEF Sound
<1>2. JoinFails(m) = Clear(a, {"linking"})
  BY DEF JoinFails
<1> HIDE DEF a
<1> QED
  BY <1>1, <1>2, SetFacts DEF Sound, Alone, Timed, Same

\* _rtw_join_timeout_handler runs once assoc_timer has fired.
LEMMA JoinTimeoutSound ==
    ASSUME NEW m \in MlmeStates, Apart(m), NEW n \in JoinTimeout(m)
    PROVE  Sound(n)
<1> DEFINE dec == [m EXCEPT !.to_roam = @ - 1]
           end == [IndicateDisconnect(m) EXCEPT !.bss = FALSE]
<1>1. m.to_roam \in Nat
  BY MlmeAssumption DEF MlmeStates
<1>2. CASE m.to_roam = 0
  <2>1. n = CfgDisconnect(end)
    BY <1>2 DEF JoinTimeout
  <2>2. end \in MlmeStates /\ end.fw = m.fw \ {"linking", "linked"}
    <3> DEFINE i == IndicateDisconnect(m)
    <3>1. i \in MlmeStates /\ i.fw = m.fw \ {"linking", "linked"}
      BY DisconnectFacts DEF Same
    <3>2. end = [i EXCEPT !.bss = FALSE]
      OBVIOUS
    <3> HIDE DEF i, end
    <3> QED
      BY <3>1, <3>2, BssFacts
  <2> HIDE DEF end
  <2> QED
    BY <2>1, <2>2, DisconnectFacts DEF Same, Sound, Alone, Timed
<1>3. CASE m.to_roam # 0
  <2>1. dec \in MlmeStates /\ dec.fw = m.fw
    BY <1>1, <1>3, CountDownFacts
  <2>2. n = IndicateDisconnect(dec) \/ \E r \in DoJoin(dec) : n = r.m
    BY <1>3 DEF JoinTimeout
  <2> HIDE DEF dec
  <2>3. Apart(dec)
    BY <1>3, <2>1 DEF Apart
  <2>4. CASE n = IndicateDisconnect(dec)
    BY <2>1, <2>4, DisconnectFacts DEF Same, Sound, Alone, Timed
  <2>5. CASE \E r \in DoJoin(dec) : n = r.m
    BY <2>1, <2>3, <2>5, DoJoinSound
  <2> QED
    BY <2>2, <2>4, <2>5
<1> QED
  BY <1>2, <1>3

LEMMA SurveyJoinSound ==
    ASSUME NEW m, Sound(m), NEW n \in SurveyJoin(m)
    PROVE  Sound(n)
<1> DEFINE try == Set([m EXCEPT !.to_join = FALSE], {"linking"})
           dec == [try EXCEPT !.to_roam = @ - 1]
<1>1. Same(try, m) /\ try.fw = m.fw \cup {"linking"}
  <2> DEFINE a == [m EXCEPT !.to_join = FALSE]
  <2>1. Same(a, m) /\ a.fw = m.fw
    BY ToJoinFacts DEF Sound
  <2>2. try = Set(a, {"linking"})
    OBVIOUS
  <2> HIDE DEF a, try
  <2> QED
    BY <2>1, <2>2, SetFacts DEF Same
<1>2. m.to_roam \in Nat /\ m.to_roam \in 0 .. MaxRoam
  BY MlmeAssumption DEF MlmeStates, Sound
<1>3. \/ n = m
      \/ \E k \in Joins(try) : n = [k EXCEPT !.assoc_timer = TRUE]
      \/ m.to_roam = 0 /\ n = Clear(IndicateDisconnect(try), {"linking"})
      \/ m.to_roam = 1 /\ n = Clear(IndicateDisconnect(SetToRoam(dec, 0)), {"linking"})
      \/ m.to_roam > 1 /\ \E k \in SiteSurvey(dec) :
                              n = Clear([k EXCEPT !.to_join = TRUE], {"linking"})
  <2>1. m.to_roam # 0 /\ m.to_roam # 1 => m.to_roam > 1
    BY <1>2
  <2> QED
    BY <2>1 DEF SurveyJoin
<1> HIDE DEF try
<1>4. m.to_roam > 0 => dec \in MlmeStates /\ dec.fw = try.fw
  BY <1>1, CountDownFacts DEF Same
<1> HIDE DEF dec
<1>5. CASE n = m
  BY <1>5
<1>6. CASE \E k \in Joins(try) : n = [k EXCEPT !.assoc_timer = TRUE]
  <2>1. PICK k \in Joins(try) : n = [k EXCEPT !.assoc_timer = TRUE]
    BY <1>6
  <2>2. k \in MlmeStates /\ "linked" \notin k.fw
    BY <1>1, JoinsFacts DEF Same
  <2>3. n \in MlmeStates /\ n.fw = k.fw /\ n.assoc_timer
    BY <2>1, <2>2, TimerFacts
  <2> QED
    BY <2>2, <2>3 DEF Sound, Alone, Timed
<1>7. CASE m.to_roam = 0 /\ n = Clear(IndicateDisconnect(try), {"linking"})
  BY <1>1, <1>7, DisconnectFacts, SetFacts DEF Same, Sound, Alone, Timed
<1>8. CASE m.to_roam = 1 /\ n = Clear(IndicateDisconnect(SetToRoam(dec, 0)), {"linking"})
  <2>1. SetToRoam(dec, 0) \in MlmeStates
    BY <1>4, <1>8, SetToRoamFacts, MlmeAssumption
  <2> QED
    BY <1>8, <2>1, DisconnectFacts, SetFacts DEF Same, Sound, Alone, Timed
<1>9. CASE m.to_roam > 1 /\ \E k \in SiteSurvey(dec) :
                                n = Clear([k EXCEPT !.to_join = TRUE], {"linking"})
  <2>1. PICK k \in SiteSurvey(dec) : n = Clear([k EXCEPT !.to_join = TRUE], {"linking"})
    BY <1>9
  <2>2. "linked" \notin dec.fw /\ dec \in MlmeStates
    BY <1>1, <1>2, <1>4, <1>9 DEF Sound, Alone
  <2>3. k \in MlmeStates /\ "linked" \notin k.fw
    BY <2>2, SiteSurveyFacts DEF Apart
  <2> DEFINE a == [k EXCEPT !.to_join = TRUE]
  <2>4. a \in MlmeStates /\ a.fw = k.fw
    BY <2>3, ToJoinFacts DEF Same
  <2>5. n = Clear(a, {"linking"})
    BY <2>1
  <2> HIDE DEF a
  <2> QED
    BY <2>3, <2>4, <2>5, SetFacts DEF Same, Sound, Alone, Timed
<1> QED
  BY <1>3, <1>5, <1>6, <1>7, <1>8, <1>9

LEMMA StaDelSound ==
    ASSUME NEW m, Sound(m), NEW roam \in BOOLEAN, NEW n \in StaDel(m, roam)
    PROVE  Sound(n)
<1> DEFINE k == CASE ~roam -> SetToRoam(m, 0)
                  [] roam /\ m.to_roam > 0 -> [m EXCEPT !.to_roam = @ - 1]
                  [] OTHER -> SetToRoam(m, MaxRoam)
           down == [IndicateDisconnect(k) EXCEPT !.bss = FALSE]
<1>1. k \in MlmeStates
  <2>1. CASE ~roam
    BY <2>1, SetToRoamFacts, MlmeAssumption DEF Sound
  <2>2. CASE roam /\ m.to_roam > 0
    BY <2>2, CountDownFacts DEF Sound
  <2>3. CASE roam /\ ~(m.to_roam > 0)
    BY <2>3, SetToRoamFacts, MlmeAssumption DEF Sound
  <2> QED
    BY <2>1, <2>2, <2>3
<1>2. n = down \/ \E r \in DoJoin(down) : n = r.m
  BY DEF StaDel
<1> HIDE DEF k
<1>3. down \in MlmeStates /\ "linked" \notin down.fw /\ "linking" \notin down.fw
  <2> DEFINE i == IndicateDisconnect(k)
  <2>1. i \in MlmeStates /\ i.fw = k.fw \ {"linking", "linked"}
    BY <1>1, DisconnectFacts DEF Same
  <2>2. down = [i EXCEPT !.bss = FALSE]
    OBVIOUS
  <2> HIDE DEF i, down
  <2> QED
    BY <2>1, <2>2, BssFacts
<1> HIDE DEF down
<1> QED
  BY <1>2, <1>3, DoJoinSound DEF Sound, Alone, Timed, Apart

LEMMA ScanTimeoutSound ==
    ASSUME NEW m, Sound(m)
    PROVE  Sound(ScanTimeout(m))
<1> DEFINE a == [m EXCEPT !.scan_timer = FALSE]
<1>1. Same(a, m) /\ a.fw = m.fw
  BY DEF MlmeStates, Same, Sound
<1>2. ScanTimeout(m) = ScanDone(Clear(a, {"survey"}))
  BY DEF ScanTimeout
<1> HIDE DEF a
<1> QED
  BY <1>1, <1>2, SetFacts, ScanDoneFacts DEF Same, Sound, Alone, Timed

LEMMA SetConnectSound ==
    ASSUME NEW m, Sound(m), NEW r \in SetConnect(m)
    PROVE  Sound(r.m)
<1>1. \/ \E b \in BOOLEAN : r = [ok |-> b, m |-> m]
      \/ r = [ok |-> TRUE, m |-> [m EXCEPT !.to_join = TRUE]]
      \/ r \in DoJoin(m)
  BY DEF SetConnect
<1>2. CASE r = [ok |-> TRUE, m |-> [m EXCEPT !.to_join = TRUE]]
  BY <1>2, ToJoinFacts DEF Same, Sound, Alone, Timed
<1>3. CASE r \in DoJoin(m)
  BY <1>3, DoJoinSound DEF Sound, Alone, Apart
<1> QED
  BY <1>1, <1>2, <1>3

-----------------------------------------------------------------------------
(* Steps of the system, on mlme.                                             *)

LEMMA SmallerSound ==
    ASSUME NEW m, Sound(m), NEW n, Same(n, m), n.fw \subseteq m.fw
    PROVE  Sound(n)
  BY DEF Sound, Same, Alone, Timed

LEMMA EnqSound ==
    ASSUME NEW m, Sound(m), NEW cmd \in Cmds
    PROVE  Sound(Enq(m, cmd))
  BY EnqFacts, SmallerSound DEF Sound

\* Which commands wait, and what the host is told, is of no account.
LEMMA QueueSound ==
    ASSUME NEW m, Sound(m), NEW cmds \in Seq(Cmds)
    PROVE  Sound([m EXCEPT !.q = cmds])
<1>1. Same([m EXCEPT !.q = cmds], m) /\ [m EXCEPT !.q = cmds].fw = m.fw
  BY DEF Same, MlmeStates, Sound
<1> QED
  BY <1>1, SmallerSound

LEMMA ScanTimerSound ==
    ASSUME NEW m, Sound(m), NEW b \in BOOLEAN
    PROVE  Sound([m EXCEPT !.scan_timer = b])
<1>1. Same([m EXCEPT !.scan_timer = b], m) /\ [m EXCEPT !.scan_timer = b].fw = m.fw
  BY DEF Same, MlmeStates, Sound
<1> QED
  BY <1>1, SmallerSound

LEMMA ScanSound ==
    ASSUME NEW m, Sound(m), NEW req \in {"none", "live", "stale"}
    PROVE  Sound([m EXCEPT !.scan = req])
<1>1. Same([m EXCEPT !.scan = req], m) /\ [m EXCEPT !.scan = req].fw = m.fw
  BY DEF Same, MlmeStates, Sound
<1> QED
  BY <1>1, SmallerSound

LEMMA SmeSound ==
    ASSUME NEW m, Sound(m), NEW told \in {"idle", "connecting", "connected"}
    PROVE  Sound([m EXCEPT !.sme = told])
<1>1. Same([m EXCEPT !.sme = told], m) /\ [m EXCEPT !.sme = told].fw = m.fw
  BY DEF Same, MlmeStates, Sound
<1> QED
  BY <1>1, SmallerSound

LEMMA DiscoSound ==
    ASSUME NEW m, Sound(m), NEW told \in {"idle", "connecting", "connected"},
           NEW b \in BOOLEAN
    PROVE  Sound([m EXCEPT !.disco = b, !.sme = told])
<1>1. /\ Same([m EXCEPT !.disco = b, !.sme = told], m)
      /\ [m EXCEPT !.disco = b, !.sme = told].fw = m.fw
  BY DEF Same, MlmeStates, Sound
<1> QED
  BY <1>1, SmallerSound

LEMMA ReportSound ==
    ASSUME Sound(mlme), NEW report, Report(report)
    PROVE  Sound(mlme')
<1>1. \/ mlme' = mlme \/ mlme' = JoinSucceeds(mlme) \/ mlme' = Enq(mlme, "delsta")
      \/ mlme' = JoinFails(mlme)
  BY DEF Report
<1> QED
  BY <1>1, JoinSucceedsSound, JoinFailsSound, EnqSound DEF Cmds

LEMMA SoftirqSound ==
    ASSUME Sound(mlme), Softirq
    PROVE  Sound(mlme')
<1>1. CASE Frame
  BY <1>1, ReportSound DEF Frame
<1>2. CASE Heard
  <2>1. mlme' = [mlme EXCEPT !.bss = TRUE]
    BY <1>2 DEF Heard
  <2> QED
    BY <2>1, BssFacts DEF Sound, Alone, Timed
<1>3. CASE HandshakeTimer
  BY <1>3, ReportSound DEF HandshakeTimer
<1>4. CASE AssocTimer
  <2> DEFINE m == [mlme EXCEPT !.assoc_timer = FALSE]
  <2>1. m \in MlmeStates /\ m.fw = mlme.fw /\ m.to_roam = mlme.to_roam
        /\ m.bss = mlme.bss
    BY TimerFacts DEF Sound
  <2>2. mlme' \in JoinTimeout(m)
    BY <1>4 DEF AssocTimer
  <2> HIDE DEF m
  <2> QED
    BY <2>1, <2>2, JoinTimeoutSound DEF Sound, Alone, Apart
<1>5. CASE ScanTimer
  BY <1>5, ScanTimeoutSound DEF ScanTimer
<1>6. CASE SurveyTimer
  <2>1. mlme' = mlme \/ mlme' = Enq(mlme, "survey")
    BY <1>6 DEF SurveyTimer
  <2> QED
    BY <2>1, EnqSound DEF Cmds
<1> QED
  BY <1>1, <1>2, <1>3, <1>4, <1>5, <1>6 DEF Softirq

LEMMA ThreadSound ==
    ASSUME Sound(mlme), CmdThread \/ Expire
    PROVE  Sound(mlme')
<1>1. CASE Take
  <2>1. mlme.q \in Seq(Cmds) /\ mlme.q # <<>>
    BY <1>1 DEF Take, Sound, MlmeStates
  <2>2. Tail(mlme.q) \in Seq(Cmds)
    BY <2>1
  <2>3. mlme' = [mlme EXCEPT !.q = Tail(mlme.q)]
    BY <1>1 DEF Take
  <2> QED
    BY <2>2, <2>3, QueueSound
<1>2. CASE CmdSurvey
  <2>1. mlme' = mlme \/ mlme' = Enq(mlme, "surveydone")
    BY <1>2 DEF CmdSurvey
  <2> QED
    BY <2>1, EnqSound DEF Cmds
<1>3. CASE CmdSurveyDone
  <2>1. \/ mlme' = Clear(mlme, {"survey"}) \/ mlme' = [mlme EXCEPT !.scan_timer = FALSE]
        \/ mlme' \in SurveyJoin(mlme) \/ mlme' = ScanDone(mlme)
    BY <1>3 DEF CmdSurveyDone
  <2>2. Sound(Clear(mlme, {"survey"})) /\ Sound(ScanDone(mlme))
    BY SetFacts, ScanDoneFacts, SmallerSound DEF Sound
  <2> QED
    BY <2>1, <2>2, ScanTimerSound, SurveyJoinSound
<1>4. CASE CmdJoin
  <2>1. mlme' = mlme \/ mlme' = [mlme EXCEPT !.assoc_timer = TRUE]
    BY <1>4 DEF CmdJoin
  <2> QED
    BY <2>1, TimerFacts DEF Sound, Alone, Timed
<1>5. CASE CmdDisc
  BY <1>5 DEF CmdDisc
<1>6. CASE CmdStaDel
  <2>1. mlme' = mlme \/ mlme' \in StaDel(mlme, thr.cmd = "delstaRoam")
    BY <1>6 DEF CmdStaDel
  <2> QED
    BY <2>1, StaDelSound
<1>7. CASE CmdExpire
  BY <1>7, EnqSound DEF CmdExpire, Cmds
<1>8. CASE Expire
  BY <1>8 DEF Expire
<1> QED
  BY <1>1, <1>2, <1>3, <1>4, <1>5, <1>6, <1>7, <1>8 DEF CmdThread

LEMMA AbortSound ==
    ASSUME Sound(mlme), NEW from, NEW to,
           AbortScan(from, to) \/ AbortWait(from, to)
    PROVE  Sound(mlme')
<1>1. mlme' = mlme \/ mlme' = ScanDone(mlme)
  BY DEF AbortScan, AbortWait
<1>2. Sound(ScanDone(mlme))
  BY ScanDoneFacts, SmallerSound DEF Sound
<1> QED
  BY <1>1, <1>2

LEMMA UserSound ==
    ASSUME Sound(mlme), UserStep \/ Connect \/ Disconnect \/ Scan
    PROVE  Sound(mlme')
<1>0. mlme \in MlmeStates /\ mlme.sme \in {"idle", "connecting", "connected"}
  BY DEF Sound, MlmeStates
<1>1. CASE ConnectStep
  <2>1. \/ mlme' = mlme \/ AbortScan(2, 3) \/ AbortWait(3, 4)
        \/ \E r \in SetConnect(mlme) : mlme' = r.m
        \/ mlme' = [mlme EXCEPT !.disco = FALSE,
                        !.sme = IF user.pc = 5 /\ @ = "connecting" THEN "idle" ELSE @]
    BY <1>1 DEF ConnectStep
  <2> DEFINE told == IF user.pc = 5 /\ mlme.sme = "connecting" THEN "idle" ELSE mlme.sme
  <2>2. told \in {"idle", "connecting", "connected"}
    BY <1>0
  <2>3. Sound([mlme EXCEPT !.disco = FALSE, !.sme = told])
    <3> HIDE DEF told
    <3> QED
      BY <2>2, DiscoSound
  <2> QED
    BY <2>1, <2>3, AbortSound, SetConnectSound
<1>2. CASE DisconnectStep
  <2>1. \/ mlme' = mlme \/ AbortScan(1, 2) \/ AbortWait(2, 3)
        \/ mlme' = Clear(mlme, {"linking"})
        \/ mlme' = [IndicateDisconnect(mlme) EXCEPT
                        !.sme = IF @ = "connecting" THEN "idle" ELSE @]
    BY <1>2 DEF DisconnectStep
  <2>2. Sound(Clear(mlme, {"linking"}))
    BY <1>0, SetFacts, SmallerSound
  <2> DEFINE n == IndicateDisconnect(mlme)
             told == IF n.sme = "connecting" THEN "idle" ELSE n.sme
  <2>3. Sound(n)
    BY <1>0, DisconnectFacts, SmallerSound
  <2>4. Sound([n EXCEPT !.sme = told])
    <3> HIDE DEF n
    <3>1. told \in {"idle", "connecting", "connected"}
      BY <2>3 DEF Sound, MlmeStates
    <3> HIDE DEF told
    <3> QED
      BY <2>3, <3>1, SmeSound
  <2> QED
    BY <2>1, <2>2, <2>4, AbortSound
<1>3. CASE ScanStep
  <2>1. \/ mlme' = mlme \/ mlme' = ScanDone(mlme) \/ mlme' = [mlme EXCEPT !.scan = "stale"]
        \/ mlme' \in SiteSurvey(mlme)
    BY <1>3 DEF ScanStep
  <2>2. Sound(ScanDone(mlme)) /\ Sound([mlme EXCEPT !.scan = "stale"])
    BY <1>0, ScanDoneFacts, SmallerSound, ScanSound
  <2>3. CASE mlme' \in SiteSurvey(mlme)
    BY <1>0, <2>3, SiteSurveyFacts DEF Sound, Alone, Timed, Apart
  <2> QED
    BY <2>1, <2>2, <2>3
<1>4. CASE Connect
  <2> DEFINE told == IF mlme.sme = "idle" THEN "connecting" ELSE mlme.sme
  <2>1. told \in {"idle", "connecting", "connected"}
    BY <1>0
  <2>2. mlme' = [mlme EXCEPT !.disco = TRUE, !.sme = told]
    BY <1>4 DEF Connect
  <2> HIDE DEF told
  <2> QED
    BY <2>1, <2>2, DiscoSound
<1>5. CASE Disconnect
  <2>1. mlme' = SetToRoam(mlme, 0)
    BY <1>5 DEF Disconnect
  <2>2. 0 \in 0 .. MaxRoam
    BY MlmeAssumption
  <2> QED
    BY <2>1, <2>2, SetToRoamFacts DEF Sound, Alone, Timed
<1>6. CASE Scan
  BY <1>6, ScanSound DEF Scan
<1> QED
  BY <1>1, <1>2, <1>3, <1>4, <1>5, <1>6 DEF UserStep

-----------------------------------------------------------------------------
(* The handshake, and the places the processes have got to.                  *)

\* Whoever waits for an answer has retries left to count.
LinkInv ==
    /\ LinkTypeOK
    /\ link.state \in {"auth", "assoc"} => link.reassoc \in 0 .. ReassocLimit
    /\ link.state = "auth" => link.reauth \in 0 .. ReauthLimit

LEMMA FrameLink ==
    ASSUME LinkInv, NEW report, LinkFrame(report)
    PROVE  LinkInv'
<1>1. 0 \in 0 .. ReauthLimit /\ 0 \in 0 .. ReassocLimit
  BY LinkAssumption
<1>2. 0 \in 0 .. ReauthLimit + 1 /\ 0 \in 0 .. ReassocLimit + 1
  BY LinkAssumption
<1>3. CASE OnBeacon(report)
  BY <1>1, <1>2, <1>3 DEF OnBeacon, LinkInv, LinkTypeOK, LinkStates
<1>4. CASE OnAuthClient(report)
  BY <1>4 DEF OnAuthClient, LinkInv, LinkTypeOK, LinkStates
<1>5. CASE OnAssocRsp(report)
  BY <1>5 DEF OnAssocRsp, LinkInv, LinkTypeOK, LinkStates
<1>6. CASE OnDisconnect(report)
  BY <1>6 DEF OnDisconnect, LinkInv, LinkTypeOK, LinkStates
<1> QED
  BY <1>3, <1>4, <1>5, <1>6 DEF LinkFrame

LEMMA TimerLink ==
    ASSUME LinkInv, NEW report, LinkTimer(report)
    PROVE  LinkInv'
<1>1. CASE link.state = "auth"
  <2>1. link.reauth \in 0 .. ReauthLimit /\ link.reauth + 1 \in 0 .. ReauthLimit + 1
    BY <1>1, LinkAssumption DEF LinkInv
  <2>2. ~(link.reauth + 1 > ReauthLimit) => link.reauth + 1 \in 0 .. ReauthLimit
    BY <2>1, LinkAssumption
  <2>3. \/ /\ link.reauth + 1 > ReauthLimit
           /\ link' = [link EXCEPT !.reauth = link.reauth + 1, !.state = "null",
                                   !.timer = FALSE]
        \/ /\ ~(link.reauth + 1 > ReauthLimit)
           /\ link' = [link EXCEPT !.reauth = link.reauth + 1]
    BY <1>1 DEF LinkTimer
  <2>4. CASE link' = [link EXCEPT !.reauth = link.reauth + 1, !.state = "null",
                                 !.timer = FALSE]
    BY <2>1, <2>4 DEF LinkInv, LinkTypeOK, LinkStates
  <2>5. CASE /\ ~(link.reauth + 1 > ReauthLimit)
             /\ link' = [link EXCEPT !.reauth = link.reauth + 1]
    BY <1>1, <2>1, <2>2, <2>5 DEF LinkInv, LinkTypeOK, LinkStates
  <2> QED
    BY <2>3, <2>4, <2>5
<1>2. CASE link.state = "assoc"
  <2>1. link.reassoc \in 0 .. ReassocLimit /\ link.reassoc + 1 \in 0 .. ReassocLimit + 1
    BY <1>2, LinkAssumption DEF LinkInv
  <2>2. ~(link.reassoc + 1 > ReassocLimit) => link.reassoc + 1 \in 0 .. ReassocLimit
    BY <2>1, LinkAssumption
  <2>3. \/ /\ link.reassoc + 1 > ReassocLimit
           /\ link' = [link EXCEPT !.reassoc = link.reassoc + 1, !.state = "null",
                                   !.timer = FALSE]
        \/ /\ ~(link.reassoc + 1 > ReassocLimit)
           /\ link' = [link EXCEPT !.reassoc = link.reassoc + 1]
    BY <1>2 DEF LinkTimer
  <2>4. CASE link' = [link EXCEPT !.reassoc = link.reassoc + 1, !.state = "null",
                                 !.timer = FALSE]
    BY <2>1, <2>4 DEF LinkInv, LinkTypeOK, LinkStates
  <2>5. CASE /\ ~(link.reassoc + 1 > ReassocLimit)
             /\ link' = [link EXCEPT !.reassoc = link.reassoc + 1]
    BY <1>2, <2>1, <2>2, <2>5 DEF LinkInv, LinkTypeOK, LinkStates
  <2> QED
    BY <2>3, <2>4, <2>5
<1>3. CASE link.state \notin {"auth", "assoc"}
  BY <1>3 DEF LinkTimer, LinkInv, LinkTypeOK, LinkStates
<1> QED
  BY <1>1, <1>2, <1>3

LEMMA ProcessLink ==
    ASSUME LinkInv,
           \/ LeaveFirst \/ ArmLinkTimer \/ LeaveLink \/ LinkDown \/ CancelLinkTimer
           \/ UNCHANGED link
    PROVE  LinkInv'
<1>1. CASE LeaveFirst
  BY <1>1 DEF LinkInv, LinkTypeOK, LinkStates, LeaveFirst
<1>2. CASE ArmLinkTimer \/ CancelLinkTimer
  BY <1>2 DEF LinkInv, LinkTypeOK, LinkStates, ArmLinkTimer, CancelLinkTimer
<1>3. CASE LeaveLink
  BY <1>3 DEF LinkInv, LinkTypeOK, LinkStates, LeaveLink
<1>4. CASE LinkDown
  BY <1>4 DEF LinkInv, LinkTypeOK, LinkStates, LinkDown
<1>5. CASE UNCHANGED link
  BY <1>5 DEF LinkInv, LinkTypeOK
<1> QED
  BY <1>1, <1>2, <1>3, <1>4, <1>5

LEMMA EnterLink ==
    ASSUME LinkInv, EnterAuthNull
    PROVE  LinkInv'
  BY DEF LinkInv, LinkTypeOK, LinkStates, EnterAuthNull

LEMMA LinkStep ==
    ASSUME LinkInv, [Next]_vars
    PROVE  LinkInv'
<1>1. CASE Frame
  BY <1>1, FrameLink DEF Frame
<1>2. CASE HandshakeTimer
  BY <1>2, TimerLink DEF HandshakeTimer
<1>3. CASE Heard \/ AssocTimer \/ ScanTimer \/ SurveyTimer
  BY <1>3, ProcessLink DEF Heard, AssocTimer, ScanTimer, SurveyTimer
<1>4. CASE Take \/ CmdSurvey \/ CmdSurveyDone \/ Expire
  BY <1>4, ProcessLink DEF Take, CmdSurvey, CmdSurveyDone, Expire
<1>5. CASE CmdJoin
  BY <1>5, ProcessLink, EnterLink DEF CmdJoin
<1>6. CASE CmdDisc \/ CmdStaDel \/ CmdExpire
  BY <1>6, ProcessLink DEF CmdDisc, CmdStaDel, CmdExpire
<1>7. CASE ConnectStep \/ Connect
  BY <1>7, ProcessLink DEF ConnectStep, Connect, AbortScan, AbortWait
<1>8. CASE DisconnectStep \/ Disconnect
  BY <1>8, ProcessLink DEF DisconnectStep, Disconnect, AbortScan, AbortWait
<1>9. CASE ScanStep \/ Scan \/ UNCHANGED vars
  BY <1>9, ProcessLink DEF ScanStep, Scan, vars
<1> QED
  BY <1>1, <1>2, <1>3, <1>4, <1>5, <1>6, <1>7, <1>8, <1>9
     DEF Next, Softirq, CmdThread, UserStep

\* The survey, the command thread and the caller are where they can be.
PlaceTypes ==
    /\ sc \in [st : {"off", "txnull", "process"}, left : 0 .. MaxCh,
               timer : BOOLEAN, abort : BOOLEAN]
    /\ thr \in [cmd : Cmds \cup {"none", "expire"}, pc : 0 .. 3]
    /\ user \in [op : {"none", "connect", "disconnect", "scan"}, pc : 0 .. 5]

LEMMA ScStep ==
    ASSUME PlaceTypes, [Next]_vars
    PROVE  sc' \in [st : {"off", "txnull", "process"}, left : 0 .. MaxCh,
                    timer : BOOLEAN, abort : BOOLEAN]
<1>0. sc \in [st : {"off", "txnull", "process"}, left : 0 .. MaxCh,
              timer : BOOLEAN, abort : BOOLEAN]
  BY DEF PlaceTypes
<1>1. CASE UNCHANGED sc
  BY <1>0, <1>1
<1>2. CASE SurveyTimer
  <2> DEFINE left == IF sc.abort \/ sc.left = 0 THEN 0
                     ELSE IF sc.st = "process" THEN sc.left - 1 ELSE sc.left
  <2>1. left \in 0 .. MaxCh
    BY <1>0, StationAssumption
  <2>2. \/ sc' = [sc EXCEPT !.timer = FALSE]
        \/ sc' = [sc EXCEPT !.timer = FALSE, !.abort = FALSE, !.left = left]
    BY <1>2 DEF SurveyTimer
  <2> HIDE DEF left
  <2> QED
    BY <1>0, <2>1, <2>2
<1>3. CASE CmdSurvey
  <2> DEFINE left == IF sc.st = "off" THEN MaxCh ELSE sc.left
  <2>1. left \in 0 .. MaxCh /\ 0 \in 0 .. MaxCh
    BY <1>0, StationAssumption
  <2>2. \/ sc' = [sc EXCEPT !.st = "txnull", !.left = left, !.timer = TRUE]
        \/ sc' = [sc EXCEPT !.st = "process", !.left = left, !.timer = TRUE]
        \/ sc' = [sc EXCEPT !.st = "off", !.left = 0]
    BY <1>3 DEF CmdSurvey
  <2> HIDE DEF left
  <2> QED
    BY <1>0, <2>1, <2>2
<1>4. CASE sc' = [sc EXCEPT !.abort = TRUE] \/ sc' = [sc EXCEPT !.abort = FALSE]
  BY <1>0, <1>4
<1>5. \/ UNCHANGED sc \/ SurveyTimer \/ CmdSurvey
      \/ sc' = [sc EXCEPT !.abort = TRUE] \/ sc' = [sc EXCEPT !.abort = FALSE]
  <2>1. CASE Softirq
    BY <2>1 DEF Softirq, Frame, Heard, HandshakeTimer, AssocTimer, ScanTimer
  <2>2. CASE CmdThread
    BY <2>2 DEF CmdThread, Take, CmdSurveyDone, CmdJoin, CmdDisc, CmdStaDel, CmdExpire
  <2>3. CASE UserStep
    BY <2>3 DEF UserStep, ConnectStep, DisconnectStep, ScanStep, AbortScan, AbortWait
  <2>4. CASE Expire \/ Connect \/ Disconnect \/ Scan \/ UNCHANGED vars
    BY <2>4 DEF Expire, Connect, Disconnect, Scan, vars
  <2> QED
    BY <2>1, <2>2, <2>3, <2>4 DEF Next
<1> QED
  BY <1>1, <1>2, <1>3, <1>4, <1>5

LEMMA ThrStep ==
    ASSUME PlaceTypes, mlme \in MlmeStates, [Next]_vars
    PROVE  thr' \in [cmd : Cmds \cup {"none", "expire"}, pc : 0 .. 3]
<1>0. thr \in [cmd : Cmds \cup {"none", "expire"}, pc : 0 .. 3]
  BY DEF PlaceTypes
<1>1. CASE UNCHANGED thr \/ Done
  BY <1>0, <1>1 DEF Done
<1>2. CASE \E n \in 0 .. 3 : Go(n)
  BY <1>0, <1>2 DEF Go
<1>3. CASE Take
  <2>1. mlme.q \in Seq(Cmds) /\ mlme.q # <<>>
    BY <1>3 DEF Take, MlmeStates
  <2>2. Head(mlme.q) \in Cmds
    BY <2>1
  <2> QED
    BY <1>3, <2>2 DEF Take
<1>4. CASE Expire
  BY <1>4 DEF Expire
<1>5. UNCHANGED thr \/ Done \/ (\E n \in 0 .. 3 : Go(n)) \/ Take \/ Expire
  <2>1. CASE Softirq
    BY <2>1 DEF Softirq, Frame, Heard, HandshakeTimer, AssocTimer, ScanTimer, SurveyTimer
  <2>2. CASE CmdSurvey \/ CmdSurveyDone
    BY <2>2 DEF CmdSurvey, CmdSurveyDone
  <2>3. CASE CmdJoin \/ CmdDisc \/ CmdStaDel \/ CmdExpire
    BY <2>3 DEF CmdJoin, CmdDisc, CmdStaDel, CmdExpire
  <2>4. CASE UserStep
    BY <2>4 DEF UserStep, ConnectStep, DisconnectStep, ScanStep
  <2>5. CASE Connect \/ Disconnect \/ Scan \/ UNCHANGED vars
    BY <2>5 DEF Connect, Disconnect, Scan, vars
  <2> QED
    BY <2>1, <2>2, <2>3, <2>4, <2>5 DEF Next, CmdThread
<1> QED
  BY <1>1, <1>2, <1>3, <1>4, <1>5

LEMMA UserPlaceStep ==
    ASSUME PlaceTypes, [Next]_vars
    PROVE  user' \in [op : {"none", "connect", "disconnect", "scan"}, pc : 0 .. 5]
<1>0. user \in [op : {"none", "connect", "disconnect", "scan"}, pc : 0 .. 5]
  BY DEF PlaceTypes
<1>1. CASE UNCHANGED user \/ Return
  BY <1>0, <1>1 DEF Return
<1>2. CASE \E n \in 0 .. 5 : Next1(n)
  BY <1>0, <1>2 DEF Next1
<1>3. CASE \E op \in {"connect", "disconnect", "scan"} : Begin(op)
  BY <1>3 DEF Begin
<1>4. \/ UNCHANGED user \/ Return \/ (\E n \in 0 .. 5 : Next1(n))
      \/ \E op \in {"connect", "disconnect", "scan"} : Begin(op)
  <2>1. CASE Softirq
    BY <2>1 DEF Softirq, Frame, Heard, HandshakeTimer, AssocTimer, ScanTimer, SurveyTimer
  <2>2. CASE CmdThread \/ Expire
    BY <2>2 DEF CmdThread, Expire, Take, CmdSurvey, CmdSurveyDone, CmdJoin, CmdDisc,
                CmdStaDel, CmdExpire
  <2>3. CASE ConnectStep
    BY <2>3 DEF ConnectStep, AbortScan, AbortWait
  <2>4. CASE DisconnectStep
    BY <2>4 DEF DisconnectStep, AbortScan, AbortWait
  <2>5. CASE ScanStep
    BY <2>5 DEF ScanStep
  <2>6. CASE Connect \/ Disconnect \/ Scan \/ UNCHANGED vars
    BY <2>6 DEF Connect, Disconnect, Scan, vars
  <2> QED
    BY <2>1, <2>2, <2>3, <2>4, <2>5, <2>6 DEF Next, UserStep
<1> QED
  BY <1>1, <1>2, <1>3, <1>4

-----------------------------------------------------------------------------
(* The invariant and the theorems.                                           *)

StationInv == LinkInv /\ PlaceTypes /\ Sound(mlme)

LEMMA StationInit == Init => StationInv
<1> SUFFICES ASSUME Init
             PROVE  StationInv
  OBVIOUS
<1>1. LinkInv
  BY LinkAssumption DEF Init, LinkInit, LinkInv, LinkTypeOK, LinkStates
<1>2. PlaceTypes
  BY StationAssumption DEF Init, PlaceTypes
<1>3. <<>> \in Seq(Cmds) /\ 0 \in 0 .. MaxRoam
  BY MlmeAssumption
<1>4. Sound(mlme)
  BY <1>3 DEF Init, MlmeInit, Sound, MlmeStates, Alone, Timed
<1> QED
  BY <1>1, <1>2, <1>4 DEF StationInv

LEMMA StationStep == StationInv /\ [Next]_vars => StationInv'
<1> SUFFICES ASSUME StationInv, [Next]_vars
             PROVE  StationInv'
  OBVIOUS
<1>1. LinkInv'
  BY LinkStep DEF StationInv
<1>2. mlme \in MlmeStates
  BY DEF StationInv, Sound
<1>3. PlaceTypes'
  BY <1>2, ScStep, ThrStep, UserPlaceStep DEF StationInv, PlaceTypes
<1>4. Sound(mlme')
  BY SoftirqSound, ThreadSound, UserSound DEF StationInv, Next, vars
<1>5. Sound(mlme)'
  BY <1>4 DEF Sound, Alone, Timed, MlmeStates
<1> QED
  BY <1>1, <1>3, <1>5 DEF StationInv

LEMMA StationAlways == Spec => []StationInv
  BY StationInit, StationStep, PTL DEF Spec

\* Every variable of the station has its type: to_roam never runs below zero,
\* and neither do the retries of the handshake run past their limits by more
\* than the one that ends it.
THEOREM StationTypeCorrect == Spec => []TypeOK
<1>1. StationInv => TypeOK
  BY DEF StationInv, LinkInv, PlaceTypes, Sound, TypeOK, MlmeTypeOK
<1> QED
  BY <1>1, StationAlways, PTL

\* A station is never left linking without assoc_timer, whatever cuts the
\* handshake short.
THEOREM StationJoinHasTimer == Spec => []JoinHasTimer
<1>1. StationInv => JoinHasTimer
  BY DEF StationInv, Sound, Timed, JoinHasTimer
<1> QED
  BY <1>1, StationAlways, PTL

\* A station that is linked is neither linking nor roaming and has its network
\* in scanned_queue.
THEOREM StationLinkedAlone == Spec => []LinkedAlone
<1>1. StationInv => LinkedAlone
  BY DEF StationInv, Sound, Alone, LinkedAlone
<1> QED
  BY <1>1, StationAlways, PTL

-----------------------------------------------------------------------------
(* Nothing that was begun is lost.                                           *)

\* A roam is backed by assoc_timer or by a join to follow a survey.
Going(m) == m.to_roam > 0 => m.assoc_timer \/ m.to_join

\* The survey will get to rtw_surveydone_event_callback, and to the step there
\* that clears the flag: a timer whose survey is off does not count, nor does a
\* callback that is past that step.
Ahead ==
    \/ sc.timer /\ sc.st # "off"
    \/ thr.cmd = "survey" \/ (thr.cmd = "surveydone" /\ thr.pc = 0)
    \/ "survey" \in ToSet(mlme.q) \/ "surveydone" \in ToSet(mlme.q)

\* The join that waits is taken up two steps later in that callback.
AheadInv ==
    /\ Going(mlme)
    /\ "survey" \in mlme.fw => Ahead
    /\ mlme.to_join => Ahead \/ (thr.cmd = "surveydone" /\ thr.pc \in 0 .. 2)

\* From m to n nothing leaves the queue, the survey flag is set only with a
\* command "survey", and a join waits only behind a survey.
Moves(m, n) ==
    /\ ToSet(m.q) \subseteq ToSet(n.q)
    /\ "survey" \in n.fw => "survey" \in m.fw \/ "survey" \in ToSet(n.q)
    /\ n.to_join => m.to_join \/ "survey" \in m.fw \/ "survey" \in ToSet(n.q)
    /\ Going(n)

\* n has the queue of m and asks for no more.
Below(n, m) ==
    /\ n.q = m.q
    /\ n.to_join => m.to_join
    /\ "survey" \in n.fw => "survey" \in m.fw

\* n differs from m in fw, in bss or in what the host is told
Rest(n, m) ==
    /\ n \in MlmeStates /\ n.q = m.q /\ n.to_join = m.to_join
    /\ n.to_roam = m.to_roam /\ n.assoc_timer = m.assoc_timer

LEMMA BelowMoves ==
    ASSUME NEW m, NEW k, NEW n, Below(k, m), Moves(k, n)
    PROVE  Moves(m, n)
  BY DEF Below, Moves

LEMMA RestFacts ==
    ASSUME NEW m \in MlmeStates, NEW bits \in SUBSET {"survey", "linking", "linked"}
    PROVE  /\ Rest(Set(m, bits), m) /\ Rest(Clear(m, bits), m)
           /\ Rest(IndicateDisconnect(m), m) /\ Rest(CfgDisconnect(m), m)
           /\ Rest(ScanDone(m), m)
<1>1. ASSUME NEW k \in MlmeStates
      PROVE  Rest(Set(k, bits), k) /\ Rest(Clear(k, bits), k)
  BY DEF Set, Clear, MlmeStates, Rest
<1>2. ASSUME NEW k \in MlmeStates
      PROVE  Rest(CfgDisconnect(k), k) /\ Rest(ScanDone(k), k)
  BY DEF CfgDisconnect, ScanDone, MlmeStates, Rest
<1>3. Rest(IndicateDisconnect(m), m)
  <2> DEFINE n == Clear(m, {"linking"})
  <2>1. Rest(n, m)
    BY DEF Clear, MlmeStates, Rest
  <2>2. \/ IndicateDisconnect(m) = Clear(n, {"linked"})
        \/ IndicateDisconnect(m) = Clear(CfgDisconnect(n), {"linked"})
    BY DEF IndicateDisconnect
  <2>3. ASSUME NEW k \in MlmeStates
        PROVE  Rest(Clear(k, {"linked"}), k)
    BY DEF Clear, MlmeStates, Rest
  <2> HIDE DEF n
  <2> QED
    BY <1>2, <2>1, <2>2, <2>3 DEF Rest
<1> QED
  BY <1>1, <1>2, <1>3

LEMMA RestBss ==
    ASSUME NEW m \in MlmeStates, NEW b \in BOOLEAN
    PROVE  Rest([m EXCEPT !.bss = b], m)
  BY DEF MlmeStates, Rest

\* rtw_enqueue_cmd adds one command.
LEMMA EnqAdds ==
    ASSUME NEW m \in MlmeStates, NEW cmd \in Cmds
    PROVE  /\ ToSet(Enq(m, cmd).q) = ToSet(m.q) \cup {cmd}
           /\ Enq(m, cmd).to_join = m.to_join
           /\ Enq(m, cmd).to_roam = m.to_roam
           /\ Enq(m, cmd).assoc_timer = m.assoc_timer
<1>1. m.q \in Seq(Cmds)
  BY DEF MlmeStates
<1>2. ToSet(Append(m.q, cmd)) = ToSet(m.q) \cup {cmd}
  <2> DEFINE q == m.q
             p == Append(q, cmd)
  <2>1. /\ DOMAIN q = 1 .. Len(q) /\ Len(q) \in Nat
        /\ DOMAIN p = 1 .. Len(q) + 1 /\ p[Len(q) + 1] = cmd
        /\ \A i \in 1 .. Len(q) : p[i] = q[i]
    BY <1>1
  <2> HIDE DEF q, p
  <2>2. ASSUME NEW c \in ToSet(p)
        PROVE  c \in ToSet(q) \cup {cmd}
    <3>1. PICK i \in DOMAIN p : c = p[i]
      BY DEF ToSet
    <3>2. (i \in DOMAIN q /\ c = q[i]) \/ c = cmd
      BY <2>1, <3>1
    <3> QED
      BY <3>2 DEF ToSet
  <2>3. ASSUME NEW c \in ToSet(q)
        PROVE  c \in ToSet(p)
    <3>1. PICK i \in DOMAIN q : c = q[i]
      BY DEF ToSet
    <3>2. i \in DOMAIN p /\ c = p[i]
      BY <2>1, <3>1
    <3> QED
      BY <3>2 DEF ToSet
  <2>4. cmd \in ToSet(p)
    <3>1. Len(q) + 1 \in DOMAIN p
      BY <2>1
    <3> QED
      BY <2>1, <3>1 DEF ToSet
  <2> QED
    BY <2>2, <2>3, <2>4 DEF q, p
<1> QED
  BY <1>2 DEF Enq, MlmeStates

\* A survey comes with its command and leaves the rest alone.
LEMMA SiteSurveyAdds ==
    ASSUME NEW m \in MlmeStates, NEW n \in SiteSurvey(m)
    PROVE  /\ n \in MlmeStates /\ n.fw = m.fw \cup {"survey"}
           /\ ToSet(n.q) = ToSet(m.q) \cup {"survey"}
           /\ n.to_join = m.to_join /\ n.to_roam = m.to_roam
           /\ n.assoc_timer = m.assoc_timer
<1>1. PICK b \in {m.bss, m.bss /\ "linked" \in m.fw} :
          n = Enq([Set(m, {"survey"}) EXCEPT !.bss = b, !.scan_timer = TRUE], "survey")
  BY DEF SiteSurvey
<1>2. b \in BOOLEAN
  BY <1>1 DEF MlmeStates
<1> DEFINE k == [Set(m, {"survey"}) EXCEPT !.bss = b, !.scan_timer = TRUE]
<1>3. Rest(k, m) /\ k.fw = m.fw \cup {"survey"}
  BY <1>2 DEF Set, MlmeStates, Rest
<1> HIDE DEF k
<1>4. n = Enq(k, "survey")
  BY <1>1 DEF k
<1> QED
  BY <1>3, <1>4, EnqAdds, EnqFacts DEF Rest, Same, Cmds

\* A join adds commands and neither surveys nor waits for a survey.
LEMMA JoinsAdds ==
    ASSUME NEW m \in MlmeStates, NEW n \in Joins(m)
    PROVE  /\ n \in MlmeStates /\ ToSet(m.q) \subseteq ToSet(n.q)
           /\ "survey" \in n.fw => "survey" \in m.fw
           /\ n.to_join = m.to_join /\ n.to_roam = m.to_roam
<1> DEFINE gone == Enq(m, "disc")
           left == IF "linked" \in m.fw THEN IndicateDisconnect(gone) ELSE m
<1>1. /\ gone \in MlmeStates /\ ToSet(gone.q) = ToSet(m.q) \cup {"disc"}
      /\ gone.fw = m.fw /\ gone.to_join = m.to_join /\ gone.to_roam = m.to_roam
  BY EnqAdds, EnqFacts DEF Same, Cmds
<1> HIDE DEF gone
<1>2. Rest(IndicateDisconnect(gone), gone)
      /\ IndicateDisconnect(gone).fw \subseteq gone.fw
  BY <1>1, RestFacts, DisconnectFacts
<1>3. /\ left \in MlmeStates /\ ToSet(m.q) \subseteq ToSet(left.q)
      /\ left.fw \subseteq m.fw
      /\ left.to_join = m.to_join /\ left.to_roam = m.to_roam
  BY <1>1, <1>2 DEF Rest
<1>4. n = Enq(Set(left, {"linking"}), "join")
  BY DEF Joins, gone
<1> HIDE DEF left
<1>5. Rest(Set(left, {"linking"}), left)
      /\ Set(left, {"linking"}).fw = left.fw \cup {"linking"}
  BY <1>3, RestFacts, SetFacts
<1> DEFINE k == Set(left, {"linking"})
<1>6. /\ Enq(k, "join") \in MlmeStates /\ Enq(k, "join").fw = k.fw
      /\ ToSet(Enq(k, "join").q) = ToSet(k.q) \cup {"join"}
      /\ Enq(k, "join").to_join = k.to_join /\ Enq(k, "join").to_roam = k.to_roam
  BY <1>5, EnqAdds, EnqFacts DEF Rest, Same, Cmds
<1> QED
  BY <1>3, <1>4, <1>5, <1>6 DEF Rest

\* rtw_do_join starts the timer, or waits behind a survey, or gives up an
\* attempt that does not roam.
LEMMA DoJoinMoves ==
    ASSUME NEW m \in MlmeStates, NEW r \in DoJoin(m)
    PROVE  Moves(m, r.m)
<1> DEFINE want == [m EXCEPT !.to_join = TRUE]
           none == Clear(want, {"linking"})
           try == Set(want, {"linking"})
<1>1. /\ want \in MlmeStates /\ want.q = m.q /\ want.fw = m.fw
      /\ want.to_roam = m.to_roam
  BY DEF MlmeStates
<1> HIDE DEF want
<1>2. /\ Rest(none, want) /\ none.fw \subseteq m.fw
      /\ Rest(try, want) /\ ("survey" \in try.fw => "survey" \in m.fw)
  BY <1>1, RestFacts, SetFacts
<1>3. \/ \E n \in Joins(try) : r = [ok |-> TRUE, m |-> Arm(n)]
      \/ \E n \in SiteSurvey(none) : r = [ok |-> TRUE, m |-> n]
      \/ ~(m.to_roam > 0) /\ r = [ok |-> FALSE, m |-> [none EXCEPT !.to_join = FALSE]]
  BY DEF DoJoin, want
<1> HIDE DEF none, try
<1>4. CASE \E n \in Joins(try) : r = [ok |-> TRUE, m |-> Arm(n)]
  <2>1. PICK n \in Joins(try) : r.m = Arm(n)
    BY <1>4
  <2>2. /\ n \in MlmeStates /\ ToSet(try.q) \subseteq ToSet(n.q)
        /\ "survey" \in n.fw => "survey" \in try.fw
    BY <1>2, JoinsAdds DEF Rest
  <2>3. /\ Arm(n).q = n.q /\ Arm(n).fw = n.fw /\ Arm(n).assoc_timer = TRUE
        /\ Arm(n).to_join = FALSE
    BY <2>2 DEF Arm, MlmeStates
  <2> QED
    BY <1>1, <1>2, <2>1, <2>2, <2>3 DEF Rest, Moves, Going
<1>5. CASE \E n \in SiteSurvey(none) : r = [ok |-> TRUE, m |-> n]
  <2>1. PICK n \in SiteSurvey(none) : r.m = n
    BY <1>5
  <2>2. ToSet(n.q) = ToSet(none.q) \cup {"survey"} /\ n.to_join = none.to_join
    BY <1>2, SiteSurveyAdds DEF Rest
  <2>3. want.to_join = TRUE
    BY DEF want, MlmeStates
  <2> QED
    BY <1>1, <1>2, <2>1, <2>2, <2>3 DEF Rest, Moves, Going
<1>6. CASE ~(m.to_roam > 0) /\ r = [ok |-> FALSE, m |-> [none EXCEPT !.to_join = FALSE]]
  <2>1. none \in MlmeStates
    BY <1>2 DEF Rest
  <2>2. /\ r.m.q = none.q /\ r.m.fw = none.fw /\ r.m.to_join = FALSE
        /\ r.m.to_roam = none.to_roam
    BY <1>6, <2>1 DEF MlmeStates
  <2> QED
    BY <1>1, <1>2, <1>6, <2>2 DEF Rest, Moves, Going
<1> QED
  BY <1>3, <1>4, <1>5, <1>6

LEMMA SetToRoamBelow ==
    ASSUME NEW m \in MlmeStates, NEW n \in 0 .. MaxRoam
    PROVE  Below(SetToRoam(m, n), m)
  BY DEF Below, SetToRoam, MlmeStates

\* report_join_res with an AID ends the attempt; otherwise the join is counted
\* out by assoc_timer.
LEMMA JoinSucceedsMoves ==
    ASSUME NEW m \in MlmeStates, Going(m)
    PROVE  Moves(m, JoinSucceeds(m))
<1>1. CASE JoinSucceeds(m) = m
  BY <1>1 DEF Moves
<1>2. CASE JoinSucceeds(m) # m
  <2> DEFINE n == [m EXCEPT !.fw = {}]
             told == [n EXCEPT !.to_join = FALSE,
                          !.sme = IF "linked" \notin n.fw /\ n.to_roam = 0
                                  THEN "connected" ELSE @]
             up == Set(told, {"linked"})
             k == SetToRoam(up, 0)
  <2>1. JoinSucceeds(m) = [k EXCEPT !.assoc_timer = FALSE]
    BY <1>2 DEF JoinSucceeds, IndicateConnect
  <2>2. /\ told \in MlmeStates /\ told.fw = {} /\ told.q = m.q
        /\ told.to_join = FALSE
    BY DEF MlmeStates
  <2> HIDE DEF told
  <2>3. /\ up \in MlmeStates /\ up.fw = {"linked"} /\ up.q = m.q
        /\ up.to_join = FALSE
    BY <2>2, RestFacts, SetFacts DEF Rest
  <2> HIDE DEF up
  <2>4. /\ k \in MlmeStates /\ k.fw = {"linked"} /\ k.q = m.q
        /\ k.to_join = FALSE /\ k.to_roam = 0
    <3>1. 0 \in 0 .. MaxRoam
      BY MlmeAssumption
    <3>2. Below(k, up)
      BY <2>3, <3>1, SetToRoamBelow
    <3>3. k \in MlmeStates /\ k.fw = up.fw /\ k.to_roam = 0
      BY <2>3, <3>1, SetToRoamFacts
    <3>4. k.to_join \in BOOLEAN
      BY <3>3 DEF MlmeStates
    <3> QED
      BY <2>3, <3>2, <3>3, <3>4 DEF Below
  <2> HIDE DEF k
  <2>5. /\ JoinSucceeds(m).fw = {"linked"} /\ JoinSucceeds(m).q = m.q
        /\ JoinSucceeds(m).to_join = FALSE /\ JoinSucceeds(m).to_roam = 0
    BY <2>1, <2>4 DEF MlmeStates
  <2> QED
    BY <2>5 DEF Moves, Going
<1> QED
  BY <1>1, <1>2

LEMMA JoinFailsMoves ==
    ASSUME NEW m \in MlmeStates
    PROVE  Moves(m, JoinFails(m))
<1> DEFINE k == [m EXCEPT !.assoc_timer = TRUE]
<1>1. /\ k \in MlmeStates /\ k.fw = m.fw /\ k.q = m.q /\ k.to_join = m.to_join
      /\ k.assoc_timer = TRUE
  BY DEF MlmeStates
<1> HIDE DEF k
<1>2. Rest(Clear(k, {"linking"}), k) /\ Clear(k, {"linking"}).fw \subseteq k.fw
  BY <1>1, RestFacts, SetFacts
<1>3. JoinFails(m) = Clear(k, {"linking"})
  BY DEF JoinFails, k
<1> QED
  BY <1>1, <1>2, <1>3 DEF Moves, Going, Rest

\* What the end of a link does to a record from which an attempt may go on.
LEMMA DownBelow ==
    ASSUME NEW m \in MlmeStates
    PROVE  /\ IndicateDisconnect(m) \in MlmeStates
           /\ Below(IndicateDisconnect(m), m)
           /\ IndicateDisconnect(m).to_roam = m.to_roam
           /\ [IndicateDisconnect(m) EXCEPT !.bss = FALSE] \in MlmeStates
           /\ Below([IndicateDisconnect(m) EXCEPT !.bss = FALSE], m)
           /\ [IndicateDisconnect(m) EXCEPT !.bss = FALSE].to_roam = m.to_roam
<1> DEFINE d == IndicateDisconnect(m)
<1>1. Rest(d, m) /\ d.fw \subseteq m.fw
  BY RestFacts, DisconnectFacts
<1> HIDE DEF d
<1>2. Rest([d EXCEPT !.bss = FALSE], d) /\ [d EXCEPT !.bss = FALSE].fw = d.fw
  BY <1>1, RestBss, BssFacts DEF Rest
<1> QED
  BY <1>1, <1>2 DEF Rest, Below, d

\* A record below m from which nothing roams.
LEMMA StopMoves ==
    ASSUME NEW m, NEW n, Below(n, m), ~(n.to_roam > 0)
    PROVE  Moves(m, n)
  BY DEF Below, Moves, Going

LEMMA CountDownBelow ==
    ASSUME NEW m \in MlmeStates, m.to_roam > 0
    PROVE  /\ [m EXCEPT !.to_roam = @ - 1] \in MlmeStates
           /\ Below([m EXCEPT !.to_roam = @ - 1], m)
           /\ [m EXCEPT !.to_roam = @ - 1].to_roam = m.to_roam - 1
<1>1. [m EXCEPT !.to_roam = @ - 1].q = m.q
      /\ [m EXCEPT !.to_roam = @ - 1].to_join = m.to_join
      /\ [m EXCEPT !.to_roam = @ - 1].fw = m.fw
  BY DEF MlmeStates
<1> QED
  BY <1>1, CountDownFacts DEF Below

LEMMA BelowTrans ==
    ASSUME NEW m, NEW k, NEW n, Below(n, k), Below(k, m)
    PROVE  Below(n, m)
  BY DEF Below

\* assoc_timer went off: the last attempt ends, or the next one begins.
LEMMA JoinTimeoutMoves ==
    ASSUME NEW m \in MlmeStates, NEW n \in JoinTimeout(m)
    PROVE  Moves(m, n)
<1> DEFINE dec == [m EXCEPT !.to_roam = @ - 1]
           end == [IndicateDisconnect(m) EXCEPT !.bss = FALSE]
<1>0. m.to_roam \in Nat
  BY MlmeAssumption DEF MlmeStates
<1>1. CASE m.to_roam = 0
  <2>1. n = CfgDisconnect(end)
    BY <1>1 DEF JoinTimeout
  <2>2. end \in MlmeStates /\ Below(end, m) /\ end.to_roam = 0
    BY <1>1, DownBelow
  <2> HIDE DEF end
  <2>3. Rest(CfgDisconnect(end), end) /\ CfgDisconnect(end).fw = end.fw
    BY <2>2, RestFacts, DisconnectFacts
  <2>4. Below(n, m) /\ n.to_roam = 0
    BY <2>1, <2>2, <2>3 DEF Rest, Below
  <2> QED
    BY <2>4, StopMoves
<1>2. CASE m.to_roam = 1
  <2>1. n = IndicateDisconnect(dec)
    BY <1>2 DEF JoinTimeout
  <2>2. dec \in MlmeStates /\ Below(dec, m) /\ dec.to_roam = 0
    BY <1>2, CountDownBelow
  <2> HIDE DEF dec
  <2>3. Below(n, dec) /\ n.to_roam = 0
    BY <2>1, <2>2, DownBelow
  <2>4. Below(n, m)
    BY <2>2, <2>3, BelowTrans
  <2> QED
    BY <2>3, <2>4, StopMoves
<1>3. CASE m.to_roam > 1
  <2>1. \E r \in DoJoin(dec) : n = r.m
    BY <1>0, <1>3 DEF JoinTimeout
  <2>2. dec \in MlmeStates /\ Below(dec, m)
    <3>1. m.to_roam > 0
      BY <1>0, <1>3
    <3> QED
      BY <3>1, CountDownBelow
  <2> HIDE DEF dec
  <2>3. Moves(dec, n)
    BY <2>1, <2>2, DoJoinMoves
  <2> QED
    BY <2>2, <2>3, BelowMoves
<1> QED
  BY <1>0, <1>1, <1>2, <1>3

\* The link has ended: the station stays down, or a roam begins or goes on.
LEMMA StaDelMoves ==
    ASSUME NEW m \in MlmeStates, NEW roam \in BOOLEAN, NEW n \in StaDel(m, roam)
    PROVE  Moves(m, n)
<1> DEFINE k == CASE ~roam -> SetToRoam(m, 0)
                  [] roam /\ m.to_roam > 0 -> [m EXCEPT !.to_roam = @ - 1]
                  [] OTHER -> SetToRoam(m, MaxRoam)
           down == [IndicateDisconnect(k) EXCEPT !.bss = FALSE]
<1>1. k \in MlmeStates /\ Below(k, m)
  <2>0. 0 \in 0 .. MaxRoam /\ MaxRoam \in 0 .. MaxRoam
    BY MlmeAssumption
  <2>1. CASE ~roam
    <3>1. k = SetToRoam(m, 0)
      BY <2>1
    <3> QED
      BY <2>0, <3>1, SetToRoamBelow, SetToRoamFacts
  <2>2. CASE roam /\ m.to_roam > 0
    <3>1. k = [m EXCEPT !.to_roam = @ - 1]
      BY <2>2
    <3> QED
      BY <2>2, <3>1, CountDownBelow
  <2>3. CASE roam /\ ~(m.to_roam > 0)
    <3>1. k = SetToRoam(m, MaxRoam)
      BY <2>3
    <3> QED
      BY <2>0, <3>1, SetToRoamBelow, SetToRoamFacts
  <2> QED
    BY <2>1, <2>2, <2>3
<1>2. IF k.to_roam > 0 THEN \E r \in DoJoin(down) : n = r.m ELSE n = down
  BY DEF StaDel
<1> HIDE DEF k
<1>3. down \in MlmeStates /\ Below(down, k) /\ down.to_roam = k.to_roam
  BY <1>1, DownBelow
<1> HIDE DEF down
<1>4. Below(down, m)
  BY <1>1, <1>3, BelowTrans
<1>5. CASE k.to_roam > 0
  <2>1. PICK r \in DoJoin(down) : n = r.m
    BY <1>2, <1>5
  <2> QED
    BY <1>3, <1>4, <2>1, DoJoinMoves, BelowMoves
<1>6. CASE ~(k.to_roam > 0)
  BY <1>2, <1>3, <1>4, <1>6, StopMoves
<1> QED
  BY <1>5, <1>6

\* The second critical section of rtw_surveydone_event_callback leaves a join
\* waiting only with another survey.
LEMMA SurveyJoinMoves ==
    ASSUME NEW m \in MlmeStates, Going(m), NEW n \in SurveyJoin(m)
    PROVE  Moves(m, n) /\ (n.to_join => "survey" \in ToSet(n.q))
<1> DEFINE base == [m EXCEPT !.to_join = FALSE]
           try == Set(base, {"linking"})
           dec == [try EXCEPT !.to_roam = @ - 1]
<1>0. m.to_roam \in Nat
  BY MlmeAssumption DEF MlmeStates
<1>1. /\ base \in MlmeStates /\ base.fw = m.fw /\ base.q = m.q
      /\ base.to_join = FALSE /\ base.to_roam = m.to_roam
  BY DEF MlmeStates
<1>2. /\ try \in MlmeStates /\ try.fw = m.fw \cup {"linking"} /\ try.q = m.q
      /\ try.to_join = FALSE /\ try.to_roam = m.to_roam
  <2> HIDE DEF base
  <2> QED
    BY <1>1, RestFacts, SetFacts DEF Rest
<1>3. CASE ~m.to_join
  <2>1. n = m
    BY <1>3 DEF SurveyJoin
  <2> QED
    BY <1>3, <2>1 DEF Moves
<1>4. CASE m.to_join /\ \E k \in Joins(try) : n = [k EXCEPT !.assoc_timer = TRUE]
  <2>1. PICK k \in Joins(try) : n = [k EXCEPT !.assoc_timer = TRUE]
    BY <1>4
  <2> HIDE DEF try
  <2>2. /\ k \in MlmeStates /\ ToSet(try.q) \subseteq ToSet(k.q)
        /\ ("survey" \in k.fw => "survey" \in try.fw) /\ k.to_join = try.to_join
    BY <1>2, JoinsAdds
  <2>3. n.fw = k.fw /\ n.q = k.q /\ n.to_join = k.to_join /\ n.assoc_timer = TRUE
    BY <2>1, <2>2 DEF MlmeStates
  <2> QED
    BY <1>2, <2>2, <2>3 DEF Moves, Going
<1>5. CASE m.to_roam = 0 /\ n = Clear(IndicateDisconnect(try), {"linking"})
  <2> HIDE DEF try
  <2>1. /\ Rest(IndicateDisconnect(try), try)
        /\ IndicateDisconnect(try).fw \subseteq try.fw
    BY <1>2, RestFacts, DisconnectFacts
  <2>2. /\ Rest(n, IndicateDisconnect(try))
        /\ n.fw \subseteq IndicateDisconnect(try).fw
    BY <1>5, <2>1, RestFacts, SetFacts DEF Rest
  <2> QED
    BY <1>2, <1>5, <2>1, <2>2 DEF Rest, Moves, Going
<1>6. CASE /\ m.to_roam = 1
           /\ n = Clear(IndicateDisconnect(SetToRoam(dec, 0)), {"linking"})
  <2>1. dec \in MlmeStates /\ Below(dec, try)
    <3> HIDE DEF try
    <3> QED
      BY <1>2, <1>6, CountDownBelow
  <2> DEFINE k == SetToRoam(dec, 0)
  <2> HIDE DEF dec, try
  <2>2. 0 \in 0 .. MaxRoam
    BY MlmeAssumption
  <2>3. k \in MlmeStates /\ Below(k, dec) /\ k.to_roam = 0
    BY <2>1, <2>2, SetToRoamBelow, SetToRoamFacts
  <2> HIDE DEF k
  <2>4. /\ Rest(IndicateDisconnect(k), k) /\ IndicateDisconnect(k).fw \subseteq k.fw
    BY <2>3, RestFacts, DisconnectFacts
  <2>5. /\ Rest(n, IndicateDisconnect(k))
        /\ n.fw \subseteq IndicateDisconnect(k).fw
    BY <1>6, <2>4, RestFacts, SetFacts DEF Rest, k
  <2>6. /\ n.q = m.q /\ ~n.to_join /\ n.to_roam = 0
        /\ ("survey" \in n.fw => "survey" \in m.fw)
    BY <1>2, <2>1, <2>3, <2>4, <2>5 DEF Rest, Below
  <2> QED
    BY <2>6 DEF Moves, Going
<1>7. CASE /\ m.to_roam > 1
           /\ \E k \in SiteSurvey(dec) :
                 n = Clear([k EXCEPT !.to_join = TRUE], {"linking"})
  <2>1. dec \in MlmeStates /\ Below(dec, try)
    <3> HIDE DEF try
    <3>1. try.to_roam > 0
      BY <1>0, <1>2, <1>7
    <3> QED
      BY <1>2, <3>1, CountDownBelow
  <2>2. PICK k \in SiteSurvey(dec) :
           n = Clear([k EXCEPT !.to_join = TRUE], {"linking"})
    BY <1>7
  <2> HIDE DEF dec, try
  <2>3. k \in MlmeStates /\ ToSet(k.q) = ToSet(dec.q) \cup {"survey"}
    BY <2>1, SiteSurveyAdds
  <2> DEFINE w == [k EXCEPT !.to_join = TRUE]
  <2>4. w \in MlmeStates /\ w.q = k.q /\ w.to_join = TRUE
    BY <2>3 DEF MlmeStates
  <2> HIDE DEF w
  <2>5. Rest(n, w)
    BY <2>2, <2>4, RestFacts DEF w
  <2> QED
    BY <1>2, <2>1, <2>3, <2>4, <2>5 DEF Rest, Below, Moves, Going
<1>8. \/ ~m.to_join
      \/ m.to_join /\ \E k \in Joins(try) : n = [k EXCEPT !.assoc_timer = TRUE]
      \/ m.to_roam = 0 /\ n = Clear(IndicateDisconnect(try), {"linking"})
      \/ /\ m.to_roam = 1
         /\ n = Clear(IndicateDisconnect(SetToRoam(dec, 0)), {"linking"})
      \/ /\ m.to_roam > 1
         /\ \E k \in SiteSurvey(dec) :
               n = Clear([k EXCEPT !.to_join = TRUE], {"linking"})
  <2> SUFFICES ASSUME m.to_join,
                      ~\E k \in Joins(try) : n = [k EXCEPT !.assoc_timer = TRUE]
               PROVE  \/ /\ m.to_roam = 0
                         /\ n = Clear(IndicateDisconnect(try), {"linking"})
                      \/ /\ m.to_roam = 1
                         /\ n = Clear(IndicateDisconnect(SetToRoam(dec, 0)),
                                      {"linking"})
                      \/ /\ m.to_roam > 1
                         /\ \E k \in SiteSurvey(dec) :
                               n = Clear([k EXCEPT !.to_join = TRUE], {"linking"})
    OBVIOUS
  <2> DEFINE fail == CASE m.to_roam = 0 -> {IndicateDisconnect(try)}
                       [] m.to_roam = 1 -> {IndicateDisconnect(SetToRoam(dec, 0))}
                       [] OTHER -> {[k EXCEPT !.to_join = TRUE] :
                                      k \in SiteSurvey(dec)}
  <2>1. \E k \in fail : n = Clear(k, {"linking"})
    BY DEF SurveyJoin
  <2> HIDE DEF try, dec
  <2>2. CASE m.to_roam = 0
    <3>1. fail = {IndicateDisconnect(try)}
      BY <2>2
    <3> QED
      BY <2>1, <2>2, <3>1
  <2>3. CASE m.to_roam = 1
    <3>1. fail = {IndicateDisconnect(SetToRoam(dec, 0))}
      BY <2>3
    <3> QED
      BY <2>1, <2>3, <3>1
  <2>4. CASE m.to_roam > 1
    <3>1. fail = {[k EXCEPT !.to_join = TRUE] : k \in SiteSurvey(dec)}
      BY <1>0, <2>4
    <3> HIDE DEF fail
    <3> QED
      BY <2>1, <2>4, <3>1
  <2> QED
    BY <1>0, <2>2, <2>3, <2>4
<1> QED
  BY <1>3, <1>4, <1>5, <1>6, <1>7, <1>8

LEMMA ScanTimeoutMoves ==
    ASSUME NEW m \in MlmeStates, Going(m)
    PROVE  Moves(m, ScanTimeout(m))
<1> DEFINE k == [m EXCEPT !.scan_timer = FALSE]
<1>1. Rest(k, m) /\ k.fw = m.fw
  BY DEF MlmeStates, Rest
<1> HIDE DEF k
<1>2. Rest(Clear(k, {"survey"}), k) /\ Clear(k, {"survey"}).fw \subseteq k.fw
  BY <1>1, RestFacts, SetFacts DEF Rest
<1>3. /\ Rest(ScanDone(Clear(k, {"survey"})), Clear(k, {"survey"}))
      /\ ScanDone(Clear(k, {"survey"})).fw = Clear(k, {"survey"}).fw
  BY <1>2, RestFacts, ScanDoneFacts DEF Rest
<1> QED
  BY <1>1, <1>2, <1>3 DEF ScanTimeout, Moves, Going, Rest, k

\* A connect waits behind the survey it finds.
LEMMA SetConnectMoves ==
    ASSUME NEW m \in MlmeStates, Going(m), NEW r \in SetConnect(m)
    PROVE  Moves(m, r.m)
<1>1. \/ r.m = m
      \/ "survey" \in m.fw /\ r.m = [m EXCEPT !.to_join = TRUE]
      \/ r \in DoJoin(m)
  <2>1. CASE "linking" \in m.fw /\ "survey" \notin m.fw
    <3>1. SetConnect(m) = {[ok |-> TRUE, m |-> m]}
      BY <2>1 DEF SetConnect
    <3> QED
      BY <3>1
  <2>2. CASE "survey" \in m.fw
    <3>1. SetConnect(m) = {[ok |-> FALSE, m |-> m]}
                          \cup {[ok |-> TRUE, m |-> [m EXCEPT !.to_join = TRUE]]}
      BY <2>2 DEF SetConnect
    <3>2. \/ r = [ok |-> FALSE, m |-> m]
          \/ r = [ok |-> TRUE, m |-> [m EXCEPT !.to_join = TRUE]]
      BY <3>1
    <3> DEFINE w == [m EXCEPT !.to_join = TRUE]
    <3>3. r = [ok |-> FALSE, m |-> m] \/ r = [ok |-> TRUE, m |-> w]
      BY <3>2
    <3> HIDE DEF w
    <3>4. r.m = m \/ r.m = w
      BY <3>3
    <3> QED
      BY <2>2, <3>4 DEF w
  <2>3. CASE "linking" \notin m.fw /\ "survey" \notin m.fw
    <3>1. SetConnect(m) = {[ok |-> FALSE, m |-> m]} \cup DoJoin(m)
      BY <2>3 DEF SetConnect
    <3>2. r = [ok |-> FALSE, m |-> m] \/ r \in DoJoin(m)
      BY <3>1
    <3> QED
      BY <3>2
  <2> QED
    BY <2>1, <2>2, <2>3
<1>2. CASE r.m = m
  BY <1>2 DEF Moves
<1>3. CASE "survey" \in m.fw /\ r.m = [m EXCEPT !.to_join = TRUE]
  <2>1. r.m.q = m.q /\ r.m.fw = m.fw /\ r.m.to_join = TRUE
    BY <1>3 DEF MlmeStates
  <2> QED
    BY <1>3, <2>1 DEF Moves, Going
<1>4. CASE r \in DoJoin(m)
  BY <1>4, DoJoinMoves
<1> QED
  BY <1>1, <1>2, <1>3, <1>4

\* What changes none of these fields, and sets no survey flag.
LEMMA RestMoves ==
    ASSUME NEW m, NEW n, Going(m), Rest(n, m), "survey" \in n.fw => "survey" \in m.fw
    PROVE  Moves(m, n)
  BY DEF Rest, Moves, Going

LEMMA SelfMoves ==
    ASSUME NEW m, Going(m) PROVE Moves(m, m)
  BY DEF Moves

LEMMA EnqMoves ==
    ASSUME NEW m \in MlmeStates, Going(m), NEW cmd \in Cmds
    PROVE  Moves(m, Enq(m, cmd))
  BY EnqAdds, EnqFacts DEF Moves, Going

LEMMA SiteSurveyMoves ==
    ASSUME NEW m \in MlmeStates, Going(m), NEW n \in SiteSurvey(m)
    PROVE  Moves(m, n)
  BY SiteSurveyAdds DEF Moves, Going

\* A step of anybody but the command thread in a survey command or its event.
LEMMA AheadKept ==
    ASSUME AheadInv, Moves(mlme, mlme'),
           thr' = thr \/ thr.cmd \notin {"survey", "surveydone"},
           sc.timer /\ sc.st # "off" =>
               (sc'.timer /\ sc'.st # "off") \/ "survey" \in ToSet(mlme'.q)
    PROVE  AheadInv'
<1>1. Ahead => Ahead'
  BY DEF Ahead, Moves
<1>2. "survey" \in ToSet(mlme'.q) => Ahead'
  BY DEF Ahead
<1>3. thr.cmd = "surveydone" /\ thr.pc \in 0 .. 2 => thr' = thr
  OBVIOUS
<1> QED
  BY <1>1, <1>2, <1>3 DEF AheadInv, Moves, Going

LEMMA SoftirqAhead ==
    ASSUME mlme \in MlmeStates, PlaceTypes, AheadInv, Softirq
    PROVE  AheadInv'
<1>g. Going(mlme)
  BY DEF AheadInv
<1>r. ASSUME NEW report, Report(report)
      PROVE  Moves(mlme, mlme')
  <2>1. \/ mlme' = mlme \/ mlme' = JoinSucceeds(mlme)
        \/ mlme' = Enq(mlme, "delsta") \/ mlme' = JoinFails(mlme)
    BY <1>r DEF Report
  <2> QED
    BY <1>g, <2>1, SelfMoves, JoinSucceedsMoves, JoinFailsMoves, EnqMoves DEF Cmds
<1>1. CASE Frame
  <2>1. UNCHANGED <<sc, thr>> /\ \E report \in Reports : Report(report)
    BY <1>1 DEF Frame
  <2> QED
    BY <1>r, <2>1, AheadKept
<1>2. CASE Heard
  <2>1. UNCHANGED <<sc, thr>> /\ mlme' = [mlme EXCEPT !.bss = TRUE]
    BY <1>2 DEF Heard
  <2>2. Rest(mlme', mlme) /\ mlme'.fw = mlme.fw
    BY <2>1, RestBss, BssFacts
  <2> QED
    BY <1>g, <2>1, <2>2, RestMoves, AheadKept
<1>3. CASE HandshakeTimer
  <2>1. UNCHANGED <<sc, thr>> /\ \E report \in Reports : Report(report)
    BY <1>3 DEF HandshakeTimer
  <2> QED
    BY <1>r, <2>1, AheadKept
<1>4. CASE AssocTimer
  <2> DEFINE m == [mlme EXCEPT !.assoc_timer = FALSE]
  <2>1. /\ m \in MlmeStates /\ m.fw = mlme.fw /\ m.q = mlme.q
        /\ m.to_join = mlme.to_join
    BY DEF MlmeStates
  <2>2. mlme' \in JoinTimeout(m) /\ UNCHANGED <<sc, thr>>
    BY <1>4 DEF AssocTimer
  <2> HIDE DEF m
  <2>3. Moves(m, mlme') /\ Below(m, mlme)
    BY <2>1, <2>2, JoinTimeoutMoves DEF Below
  <2>4. Moves(mlme, mlme')
    BY <2>3, BelowMoves
  <2> QED
    BY <2>2, <2>4, AheadKept
<1>5. CASE ScanTimer
  <2>1. mlme' = ScanTimeout(mlme) /\ UNCHANGED <<sc, thr>>
    BY <1>5 DEF ScanTimer
  <2>2. Moves(mlme, mlme')
    BY <1>g, <2>1, ScanTimeoutMoves
  <2> QED
    BY <2>1, <2>2, AheadKept
<1>6. CASE SurveyTimer
  <2>1. CASE sc.st = "off"
    <3>1. mlme' = mlme /\ thr' = thr
      BY <1>6, <2>1 DEF SurveyTimer
    <3> QED
      BY <1>g, <2>1, <3>1, SelfMoves, AheadKept
  <2>2. CASE sc.st # "off"
    <3>1. mlme' = Enq(mlme, "survey") /\ thr' = thr
      BY <1>6, <2>2 DEF SurveyTimer
    <3>2. Moves(mlme, mlme') /\ "survey" \in ToSet(mlme'.q)
      BY <1>g, <3>1, EnqMoves, EnqAdds DEF Cmds
    <3> QED
      BY <3>1, <3>2, AheadKept
  <2> QED
    BY <2>1, <2>2
<1> QED
  BY <1>1, <1>2, <1>3, <1>4, <1>5, <1>6 DEF Softirq

\* Taking a command off the queue.
LEMMA TakeAhead ==
    ASSUME mlme \in MlmeStates, AheadInv, Take
    PROVE  AheadInv'
<1> DEFINE q == mlme.q
<1>1. /\ thr.cmd = "none" /\ q # <<>> /\ thr' = [cmd |-> Head(q), pc |-> 0]
      /\ mlme' = [mlme EXCEPT !.q = Tail(q)] /\ sc' = sc
  BY DEF Take
<1>2. q \in Seq(Cmds)
  BY DEF MlmeStates
<1>3. ToSet(q) \subseteq {Head(q)} \cup ToSet(Tail(q))
  <2> HIDE DEF q
  <2>1. /\ DOMAIN q = 1 .. Len(q) /\ Len(q) \in Nat \ {0} /\ Head(q) = q[1]
        /\ DOMAIN Tail(q) = 1 .. Len(q) - 1
        /\ \A i \in 1 .. Len(q) - 1 : Tail(q)[i] = q[i + 1]
    BY <1>1, <1>2
  <2>2. ASSUME NEW i \in DOMAIN q, i # 1
        PROVE  q[i] \in ToSet(Tail(q))
    <3>1. i - 1 \in DOMAIN Tail(q) /\ Tail(q)[i - 1] = q[i]
      BY <2>1, <2>2
    <3> QED
      BY <3>1 DEF ToSet
  <2> QED
    BY <2>1, <2>2 DEF ToSet
<1>4. /\ mlme'.q = Tail(q) /\ mlme'.fw = mlme.fw /\ mlme'.to_join = mlme.to_join
      /\ mlme'.to_roam = mlme.to_roam /\ mlme'.assoc_timer = mlme.assoc_timer
  BY <1>1 DEF MlmeStates
<1>5. thr'.cmd = Head(q) /\ thr'.pc = 0
  BY <1>1
<1>6. Ahead => Ahead'
  BY <1>1, <1>3, <1>4, <1>5 DEF Ahead
<1> QED
  BY <1>1, <1>4, <1>6 DEF AheadInv, Going

\* A survey command goes to the next channel or reports the end.
LEMMA SurveyAhead ==
    ASSUME mlme \in MlmeStates, PlaceTypes, AheadInv, CmdSurvey
    PROVE  AheadInv'
<1> DEFINE left == IF sc.st = "off" THEN MaxCh ELSE sc.left
<1>1. \/ sc' = [sc EXCEPT !.st = "txnull", !.left = left, !.timer = TRUE]
         /\ mlme' = mlme
      \/ sc' = [sc EXCEPT !.st = "process", !.left = left, !.timer = TRUE]
         /\ mlme' = mlme
      \/ mlme' = Enq(mlme, "surveydone")
  BY DEF CmdSurvey
<1>2. Going(mlme)
  BY DEF AheadInv
<1>3. CASE mlme' = mlme /\ sc'.timer /\ sc'.st # "off"
  <2>1. Ahead'
    BY <1>3 DEF Ahead
  <2> QED
    BY <1>2, <1>3, <2>1 DEF AheadInv
<1>4. CASE mlme' = Enq(mlme, "surveydone")
  <2>1. ToSet(mlme'.q) = ToSet(mlme.q) \cup {"surveydone"}
    BY <1>4, EnqAdds DEF Cmds
  <2>2. Ahead'
    BY <2>1 DEF Ahead
  <2>3. Moves(mlme, mlme')
    BY <1>2, <1>4, EnqMoves DEF Cmds
  <2>4. Going(mlme)'
    BY <2>3 DEF Moves, Going
  <2> QED
    BY <2>2, <2>4 DEF AheadInv
<1> HIDE DEF left
<1>5. \/ mlme' = mlme /\ sc'.timer /\ sc'.st # "off"
      \/ mlme' = Enq(mlme, "surveydone")
  BY <1>1 DEF PlaceTypes
<1> QED
  BY <1>3, <1>4, <1>5

\* The end of a survey: the flag goes first, then the join that waits.
LEMMA SurveyDoneAhead ==
    ASSUME mlme \in MlmeStates, PlaceTypes, AheadInv, CmdSurveyDone
    PROVE  AheadInv'
<1>1. thr.cmd = "surveydone" /\ sc' = sc /\ Going(mlme)
  BY DEF CmdSurveyDone, AheadInv
<1>2. CASE thr.pc = 0
  <2>1. /\ mlme' = Clear(mlme, {"survey"})
        /\ thr'.cmd = "surveydone" /\ thr'.pc \in {1, 2}
    BY <1>1, <1>2 DEF CmdSurveyDone, Go, PlaceTypes
  <2>2. Rest(mlme', mlme) /\ "survey" \notin mlme'.fw
    BY <2>1, RestFacts, SetFacts
  <2> QED
    BY <1>1, <2>1, <2>2 DEF AheadInv, Rest, Going
<1>3. CASE thr.pc = 1
  <2>1. /\ mlme' = [mlme EXCEPT !.scan_timer = FALSE]
        /\ thr'.cmd = "surveydone" /\ thr'.pc = 2
    BY <1>1, <1>3 DEF CmdSurveyDone, Go, PlaceTypes
  <2>2. Rest(mlme', mlme) /\ mlme'.fw = mlme.fw
    BY <2>1 DEF Rest, MlmeStates
  <2>3. Ahead => Ahead'
    BY <1>1, <1>3, <2>2 DEF Ahead, Rest
  <2> QED
    BY <1>1, <2>1, <2>2, <2>3 DEF AheadInv, Rest, Going
<1>4. CASE thr.pc = 2
  <2>1. mlme' \in SurveyJoin(mlme)
    BY <1>1, <1>4 DEF CmdSurveyDone
  <2>2. Moves(mlme, mlme') /\ (mlme'.to_join => "survey" \in ToSet(mlme'.q))
    BY <1>1, <2>1, SurveyJoinMoves
  <2>3. Ahead => Ahead'
    BY <1>1, <1>4, <2>2 DEF Ahead, Moves
  <2>4. "survey" \in ToSet(mlme'.q) => Ahead'
    BY DEF Ahead
  <2> QED
    BY <2>2, <2>3, <2>4 DEF AheadInv, Moves, Going
<1>5. CASE thr.pc = 3
  <2>1. mlme' = ScanDone(mlme)
    BY <1>1, <1>5 DEF CmdSurveyDone
  <2>2. Rest(mlme', mlme) /\ mlme'.fw = mlme.fw
    BY <2>1, RestFacts, ScanDoneFacts
  <2>3. Ahead => Ahead'
    BY <1>1, <1>5, <2>2 DEF Ahead, Rest
  <2>4. mlme.to_join => Ahead
    BY <1>5 DEF AheadInv
  <2> QED
    BY <1>1, <2>2, <2>3, <2>4 DEF AheadInv, Rest, Going
<1> QED
  BY <1>2, <1>3, <1>4, <1>5 DEF CmdSurveyDone

LEMMA ThreadAhead ==
    ASSUME mlme \in MlmeStates, PlaceTypes, AheadInv, CmdThread \/ Expire
    PROVE  AheadInv'
<1>g. Going(mlme)
  BY DEF AheadInv
<1>1. CASE CmdJoin
  <2>1. mlme' = mlme \/ mlme' = [mlme EXCEPT !.assoc_timer = TRUE]
    BY <1>1 DEF CmdJoin
  <2>2. ASSUME NEW n, n = [mlme EXCEPT !.assoc_timer = TRUE]
        PROVE  Moves(mlme, n)
    BY <2>2 DEF Moves, Going, MlmeStates
  <2>3. Moves(mlme, mlme')
    BY <1>g, <2>1, <2>2, SelfMoves
  <2>4. thr.cmd = "join" /\ sc' = sc
    BY <1>1 DEF CmdJoin
  <2> QED
    BY <2>3, <2>4, AheadKept
<1>2. CASE CmdDisc \/ Expire
  <2>1. mlme' = mlme /\ sc' = sc /\ thr.cmd \notin {"survey", "surveydone"}
    BY <1>2 DEF CmdDisc, Expire
  <2> QED
    BY <1>g, <2>1, SelfMoves, AheadKept
<1>3. CASE CmdStaDel
  <2>1. /\ mlme' = mlme \/ mlme' \in StaDel(mlme, thr.cmd = "delstaRoam")
        /\ sc' = sc /\ thr.cmd \notin {"survey", "surveydone"}
    BY <1>3 DEF CmdStaDel
  <2>2. (thr.cmd = "delstaRoam") \in BOOLEAN
    OBVIOUS
  <2>3. Moves(mlme, mlme')
    BY <1>g, <2>1, <2>2, SelfMoves, StaDelMoves
  <2> QED
    BY <2>1, <2>3, AheadKept
<1>4. CASE CmdExpire
  <2>1. /\ mlme' = Enq(mlme, "delstaRoam") /\ sc' = sc
        /\ thr.cmd \notin {"survey", "surveydone"}
    BY <1>4 DEF CmdExpire
  <2>2. Moves(mlme, mlme')
    BY <1>g, <2>1, EnqMoves DEF Cmds
  <2> QED
    BY <2>1, <2>2, AheadKept
<1> QED
  BY <1>1, <1>2, <1>3, <1>4, TakeAhead, SurveyAhead, SurveyDoneAhead DEF CmdThread

\* A request of the host.
LEMMA UserAhead ==
    ASSUME mlme \in MlmeStates, PlaceTypes, AheadInv,
           UserStep \/ Connect \/ Disconnect \/ Scan
    PROVE  AheadInv'
<1>g. Going(mlme)
  BY DEF AheadInv
<1>s. Rest(ScanDone(mlme), mlme) /\ ScanDone(mlme).fw = mlme.fw
  BY RestFacts, ScanDoneFacts
<1>a. ASSUME NEW from, NEW to, AbortScan(from, to) \/ AbortWait(from, to), thr' = thr
      PROVE  AheadInv'
  <2>1. mlme' = mlme \/ mlme' = ScanDone(mlme)
    BY <1>a DEF AbortScan, AbortWait
  <2>2. Moves(mlme, mlme')
    BY <1>g, <1>s, <2>1, SelfMoves, RestMoves
  <2>3. sc'.timer = sc.timer /\ sc'.st = sc.st
    BY <1>a DEF AbortScan, AbortWait, PlaceTypes
  <2> QED
    BY <1>a, <2>2, <2>3, AheadKept
<1>k. ASSUME Moves(mlme, mlme'), UNCHANGED <<sc, thr>>
      PROVE  AheadInv'
  BY <1>k, AheadKept
<1>q. ASSUME Rest(mlme', mlme), "survey" \in mlme'.fw => "survey" \in mlme.fw
      PROVE  Moves(mlme, mlme')
  BY <1>g, <1>q, RestMoves
<1>1. CASE Connect
  <2>1. UNCHANGED <<sc, thr>>
        /\ mlme' = [mlme EXCEPT !.disco = TRUE,
                                !.sme = IF @ = "idle" THEN "connecting" ELSE @]
    BY <1>1 DEF Connect
  <2>2. Rest(mlme', mlme) /\ mlme'.fw = mlme.fw
    BY <2>1 DEF Rest, MlmeStates
  <2> QED
    BY <1>k, <1>q, <2>1, <2>2
<1>2. CASE ConnectStep
  <2>0. thr' = thr
    BY <1>2 DEF ConnectStep
  <2>1. CASE AbortScan(2, 3) \/ AbortWait(3, 4)
    BY <1>a, <2>0, <2>1
  <2>2. CASE user.pc = 1 /\ UNCHANGED <<mlme, sc>>
    <3>1. Moves(mlme, mlme')
      BY <1>g, <2>2, SelfMoves
    <3> QED
      BY <1>k, <2>0, <2>2, <3>1
  <2>3. CASE user.pc = 4 /\ UNCHANGED <<link, sc>> /\ \E r \in SetConnect(mlme) : mlme' = r.m
    <3>1. Moves(mlme, mlme')
      BY <1>g, <2>3, SetConnectMoves
    <3> QED
      BY <1>k, <2>0, <2>3, <3>1
  <2>4. CASE /\ user.pc \in {0, 5} /\ UNCHANGED <<link, sc>>
             /\ mlme' = [mlme EXCEPT !.disco = FALSE,
                          !.sme = IF user.pc = 5 /\ @ = "connecting" THEN "idle" ELSE @]
    <3>1. Rest(mlme', mlme) /\ mlme'.fw = mlme.fw
      BY <2>4 DEF Rest, MlmeStates
    <3> QED
      BY <1>k, <1>q, <2>0, <2>4, <3>1
  <2> QED
    BY <1>2, <2>1, <2>2, <2>3, <2>4 DEF ConnectStep
<1>3. CASE Disconnect
  <2>1. UNCHANGED <<sc, thr>> /\ mlme' = SetToRoam(mlme, 0)
    BY <1>3 DEF Disconnect
  <2>2. 0 \in 0 .. MaxRoam
    BY MlmeAssumption
  <2>3. Below(mlme', mlme) /\ mlme'.to_roam = 0
    BY <2>1, <2>2, SetToRoamBelow, SetToRoamFacts
  <2>4. Moves(mlme, mlme')
    BY <2>3, StopMoves
  <2> QED
    BY <1>k, <2>1, <2>4
<1>4. CASE DisconnectStep
  <2>0. thr' = thr
    BY <1>4 DEF DisconnectStep
  <2>1. CASE AbortScan(1, 2) \/ AbortWait(2, 3)
    BY <1>a, <2>0, <2>1
  <2>2. CASE UNCHANGED <<mlme, sc>>
    <3>1. Moves(mlme, mlme')
      BY <1>g, <2>2, SelfMoves
    <3> QED
      BY <1>k, <2>0, <2>2, <3>1
  <2>3. CASE UNCHANGED sc /\ mlme' = Clear(mlme, {"linking"})
    <3>1. Rest(mlme', mlme) /\ mlme'.fw \subseteq mlme.fw
      BY <2>3, RestFacts, SetFacts
    <3> QED
      BY <1>k, <1>q, <2>0, <2>3, <3>1
  <2>4. CASE UNCHANGED sc /\ mlme' = [IndicateDisconnect(mlme) EXCEPT
                          !.sme = IF @ = "connecting" THEN "idle" ELSE @]
    <3> DEFINE d == IndicateDisconnect(mlme)
    <3>1. Rest(d, mlme) /\ d.fw \subseteq mlme.fw
      BY RestFacts, DisconnectFacts
    <3>2. mlme' = [d EXCEPT !.sme = IF @ = "connecting" THEN "idle" ELSE @]
      BY <2>4
    <3> HIDE DEF d
    <3>3. Rest(mlme', d) /\ mlme'.fw = d.fw
      BY <3>1, <3>2 DEF Rest, MlmeStates
    <3> QED
      BY <1>k, <1>q, <2>0, <2>4, <3>1, <3>3 DEF Rest
  <2> QED
    BY <1>4, <2>1, <2>2, <2>3, <2>4 DEF DisconnectStep
<1>5. CASE Scan
  <2>1. UNCHANGED <<sc, thr>> /\ mlme' = [mlme EXCEPT !.scan = "live"]
    BY <1>5 DEF Scan
  <2>2. Rest(mlme', mlme) /\ mlme'.fw = mlme.fw
    BY <2>1 DEF Rest, MlmeStates
  <2> QED
    BY <1>k, <1>q, <2>1, <2>2
<1>6. CASE ScanStep
  <2>0. UNCHANGED <<sc, thr>>
    BY <1>6 DEF ScanStep
  <2>1. \/ mlme' = mlme \/ mlme' = [mlme EXCEPT !.scan = "stale"]
        \/ mlme' = ScanDone(mlme) \/ mlme' \in SiteSurvey(mlme)
    BY <1>6 DEF ScanStep
  <2>2. ASSUME mlme' = [mlme EXCEPT !.scan = "stale"]
        PROVE  Moves(mlme, mlme')
    <3>1. Rest(mlme', mlme) /\ mlme'.fw = mlme.fw
      BY <2>2 DEF Rest, MlmeStates
    <3> QED
      BY <1>q, <3>1
  <2>3. Moves(mlme, mlme')
    BY <1>g, <1>s, <2>1, <2>2, SelfMoves, RestMoves, SiteSurveyMoves
  <2> QED
    BY <1>k, <2>0, <2>3
<1> QED
  BY <1>1, <1>2, <1>3, <1>4, <1>5, <1>6 DEF UserStep

LEMMA AheadInit == Init => AheadInv
  BY DEF Init, MlmeInit, AheadInv, Going

LEMMA AheadStep == StationInv /\ AheadInv /\ [Next]_vars => AheadInv'
<1> SUFFICES ASSUME StationInv, AheadInv, [Next]_vars
             PROVE  AheadInv'
  OBVIOUS
<1>1. mlme \in MlmeStates /\ PlaceTypes
  BY DEF StationInv, Sound
<1>2. CASE UNCHANGED vars
  BY <1>2 DEF vars, AheadInv, Ahead, Going
<1> QED
  BY <1>1, <1>2, SoftirqAhead, ThreadAhead, UserAhead DEF Next

LEMMA AheadAlways == Spec => []AheadInv
  BY StationInit, StationStep, AheadInit, AheadStep, PTL DEF Spec

\* While _FW_UNDER_SURVEY is set something is on its way to clear it, whatever
\* else was surveyed, aborted or timed out meanwhile.
THEOREM StationSurveyEnds == Spec => []SurveyEnds
<1>1. AheadInv => SurveyEnds
  BY DEF AheadInv, Ahead, SurveyEnds, SurveyComing
<1> QED
  BY <1>1, AheadAlways, PTL

\* A join that waits for a survey has one to wait for, and a station that roams
\* has an attempt under way: with any number of attempts, channels and retries.
THEOREM StationAttemptGoesOn == Spec => []AttemptGoesOn
<1>1. StationInv /\ AheadInv => AttemptGoesOn
  <2> SUFFICES ASSUME StationInv, AheadInv
               PROVE  AttemptGoesOn
    OBVIOUS
  <2>1. mlme.to_join => SurveyComing
    BY DEF AheadInv, Ahead, SurveyComing
  <2>2. "linked" \in mlme.fw => mlme.to_roam = 0
    BY DEF StationInv, Sound, Alone
  <2> QED
    BY <2>1, <2>2 DEF AheadInv, Going, AttemptGoesOn
<1> QED
  BY <1>1, StationAlways, AheadAlways, PTL
=============================================================================
