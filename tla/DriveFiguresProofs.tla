------------------------- MODULE DriveFiguresProofs -------------------------
(***************************************************************************)
(* The numbers of a drive object are right for any word size, intervals,   *)
(* estimates and links.                                                    *)
(***************************************************************************)
EXTENDS DriveFigures, TLAPS

-----------------------------------------------------------------------------
(* The percentage.                                                         *)

\* A number that is less than a hundred times another is not a hundred of it.
LEMMA DivBound ==
  ASSUME NEW x \in Nat, NEW d \in Nat \ {0}, x < 100 * d
  PROVE  x \div d \in 0..99
  OBVIOUS

\* A word that wraps is not more than the number.
LEMMA WrappedBound ==
  ASSUME NEW n \in Nat
  PROVE  Wrapped(n) \in 0..UintMax /\ Wrapped(n) <= n
<1> UintMax + 1 \in Nat \ {0}
  BY FigureConstants
<1> QED BY FigureConstants DEF Wrapped

\* Below 100 per cent, whatever wraps.
LEMMA PercentBound ==
  ASSUME NEW time \in 0..UintMax, NEW endTime \in 0..UintMax
  PROVE  Percent(time, endTime) \in 0..99
<1>1. CASE time >= endTime
  BY <1>1 DEF Percent
<1>2. CASE ~(time >= endTime)
  <2>1. time \in Nat /\ endTime \in Nat \ {0} /\ time < endTime
    BY <1>2, FigureConstants
  <2>2. Wrapped(time * 100) \in Nat /\ Wrapped(time * 100) <= time * 100
    BY <2>1, WrappedBound
  <2>3. Wrapped(time * 100) < 100 * endTime
    BY <2>1, <2>2
  <2>4. Wrapped(time * 100) \div endTime \in 0..99
    BY <2>1, <2>2, <2>3, DivBound
  <2> QED BY <1>2, <2>4 DEF Percent
<1> QED BY <1>1, <1>2

LEMMA WrappedSmall ==
  ASSUME NEW n \in 0..UintMax
  PROVE  Wrapped(n) = n
<1>1. UintMax \in Nat /\ n < UintMax + 1
  BY FigureConstants
<1>2. ASSUME NEW m \in Nat \ {0}, NEW k \in Nat, k < m PROVE k % m = k
  BY <1>2
<1> QED BY <1>1, <1>2 DEF Wrapped

LEMMA DivExact ==
  ASSUME NEW x \in Nat, NEW d \in Nat \ {0}
  PROVE  x \div d \in Nat /\ (x \div d) * d <= x /\ x < (x \div d + 1) * d
  OBVIOUS

\* Where nothing wraps, the percentage is the rounded quotient.
LEMMA PercentRight ==
  ASSUME NEW time \in Nat, 100 * time <= UintMax, NEW endTime \in 0..UintMax,
         NEW percent, percent = Percent(time, endTime)
  PROVE  IF time >= endTime THEN percent = 99
         ELSE /\ percent \in 0..99
              /\ percent * endTime <= 100 * time /\ 100 * time < (percent + 1) * endTime
<1>1. CASE time >= endTime
  BY <1>1 DEF Percent
<1>2. CASE ~(time >= endTime)
  <2>1. UintMax \in Nat /\ endTime \in Nat \ {0} /\ time \in 0..UintMax /\ time * 100 = 100 * time
    BY <1>2, FigureConstants
  <2>2. Wrapped(time * 100) = 100 * time
    BY <2>1, WrappedSmall
  <2>3. percent = (100 * time) \div endTime
    BY <1>2, <2>2 DEF Percent
  <2>4. percent \in 0..99
    BY <2>1, PercentBound
  <2> QED BY <1>2, <2>1, <2>3, <2>4, DivExact
<1> QED BY <1>1, <1>2

\* The quotients of two times compare as the times do.
LEMMA DivGrows ==
  ASSUME NEW p \in Nat, NEW q \in Nat, NEW e \in Nat \ {0}, p * e < (q + 1) * e
  PROVE  p <= q
<1>1. CASE q + 1 <= p
  <2>1. (q + 1) * e <= p * e
    BY <1>1
  <2> QED BY <2>1
<1> QED BY <1>1

LEMMA PercentGrows ==
  ASSUME NEW early \in Nat, NEW late \in Nat, early <= late, 100 * late <= UintMax,
         NEW endTime \in 0..UintMax
  PROVE  Percent(early, endTime) <= Percent(late, endTime)
<1>1. PICK p : p = Percent(early, endTime)
  OBVIOUS
<1>2. PICK q : q = Percent(late, endTime)
  OBVIOUS
<1>3. UintMax \in Nat /\ 100 * early <= UintMax /\ 100 * early <= 100 * late
      /\ early \in 0..UintMax /\ late \in 0..UintMax /\ endTime \in Nat
  BY FigureConstants
<1>4. p \in 0..99 /\ q \in 0..99
  BY <1>1, <1>2, <1>3, PercentBound
<1>5. CASE late >= endTime
  <2>1. q = 99
    BY <1>2, <1>5 DEF Percent
  <2> QED BY <1>1, <1>2, <1>4, <2>1
<1>6. CASE ~(late >= endTime)
  <2>1. ~(early >= endTime) /\ endTime # 0
    BY <1>3, <1>6
  <2>2. p * endTime <= 100 * early
    BY <1>1, <1>3, <2>1, PercentRight
  <2>3. 100 * late < (q + 1) * endTime
    BY <1>2, <1>3, <1>6, PercentRight
  <2>4. p * endTime \in Nat /\ (q + 1) * endTime \in Nat
    BY <1>3, <1>4
  <2>5. p * endTime < (q + 1) * endTime
    BY <1>3, <2>2, <2>3, <2>4
  <2>6. p <= q
    BY <1>3, <1>4, <2>1, <2>5, DivGrows
  <2> QED BY <1>1, <1>2, <2>6
<1> QED BY <1>5, <1>6

-----------------------------------------------------------------------------
(* The speeds.                                                             *)

\* Some supported speed that is known is the fastest.
LEMMA Fastest ==
  ASSUME NEW sls, Known(sls) # {}
  PROVE  LET i == CHOOSE i \in Known(sls) : \A j \in Known(sls) : j <= i IN
         i \in Known(sls) /\ \A j \in Known(sls) : j <= i
<1> Known(sls) \subseteq 0..4
  BY DEF Known
<1> \E i \in Known(sls) : \A j \in Known(sls) : j <= i
  <2> CASE 4 \in Known(sls)
    OBVIOUS
  <2> CASE 4 \notin Known(sls) /\ 3 \in Known(sls)
    OBVIOUS
  <2> CASE 4 \notin Known(sls) /\ 3 \notin Known(sls) /\ 2 \in Known(sls)
    OBVIOUS
  <2> CASE 4 \notin Known(sls) /\ 3 \notin Known(sls) /\ 2 \notin Known(sls) /\ 1 \in Known(sls)
    OBVIOUS
  <2> CASE 4 \notin Known(sls) /\ 3 \notin Known(sls) /\ 2 \notin Known(sls) /\ 1 \notin Known(sls)
    OBVIOUS
  <2> QED OBVIOUS
<1> QED OBVIOUS

\* A faster generation has the higher rate, and none is below 1.
LEMMA Rates ==
  /\ \A i \in 0..4 : Rate[i] \in Nat /\ Rate[i] >= 1
  /\ \A i, j \in 0..4 : i <= j => Rate[i] <= Rate[j]
<1> Rate[0] = 2 /\ Rate[1] = 4 /\ Rate[2] = 8 /\ Rate[3] = 16 /\ Rate[4] = 32
  BY DEF Rate
<1> HIDE DEF Rate
<1> QED BY \A i \in 0..4 : i = 0 \/ i = 1 \/ i = 2 \/ i = 3 \/ i = 4

\* More lanes and a higher rate are faster.
LEMMA Faster ==
  ASSUME NEW a \in Nat, NEW b \in Nat, NEW m \in Nat, NEW n \in Nat, a <= b, m <= n
  PROVE  a * m <= b * n
<1> a * m <= b * m
  OBVIOUS
<1> b * m <= b * n
  OBVIOUS
<1> a * m \in Nat /\ b * m \in Nat /\ b * n \in Nat
  OBVIOUS
<1> QED OBVIOUS

\* The speeds shown for one port information agree.
LEMMA LinkSpeeds ==
  ASSUME NEW l \in Link, Consistent(l)
  PROVE  /\ getMaxLinkSpeed(l.sls, l.mlw) \in Nat
         /\ getCurrLinkSpeed(l.cls, l.nlw) \in Nat
         /\ getCurrLinkSpeed(l.cls, l.nlw) <= getMaxLinkSpeed(l.sls, l.mlw)
         /\ l.cls \in 1..5 /\ (\A i \in Known(l.sls) : i < l.cls) /\ l.nlw = l.mlw
              => getCurrLinkSpeed(l.cls, l.nlw) = getMaxLinkSpeed(l.sls, l.mlw)
<1> DEFINE fastest == CHOOSE i \in Known(l.sls) : \A j \in Known(l.sls) : j <= i
           max == IF Known(l.sls) = {} THEN 1 ELSE Rate[fastest]
           cur == IF l.cls - 1 \in 0..4 THEN Rate[l.cls - 1] ELSE 1
<1>1. l.mlw \in Nat /\ l.nlw \in Nat /\ l.cls \in Nat /\ l.nlw <= l.mlw
  BY DEF Link, Consistent
<1>2. getMaxLinkSpeed(l.sls, l.mlw) = max * l.mlw
  BY DEF getMaxLinkSpeed
<1>3. getCurrLinkSpeed(l.cls, l.nlw) = IF l.cls = 0 THEN 0 ELSE cur * l.nlw
  BY DEF getCurrLinkSpeed
<1>4. Known(l.sls) # {} => fastest \in Known(l.sls) /\ \A j \in Known(l.sls) : j <= fastest
  BY Fastest
<1> HIDE DEF fastest
<1>5. Known(l.sls) \subseteq 0..4
  BY DEF Known
<1>6. max \in Nat /\ max >= 1
  BY <1>4, <1>5, Rates
<1>7. cur \in Nat
  BY Rates
<1>8. l.cls # 0 => cur <= max
  <2>1. CASE l.cls # 0 /\ l.cls - 1 \in 0..4
    <3>1. l.cls - 1 \in Known(l.sls)
      BY <2>1 DEF Known, Consistent
    <3>2. l.cls - 1 <= fastest /\ fastest \in 0..4
      BY <3>1, <1>4, <1>5
    <3> QED BY <2>1, <3>1, <3>2, Rates
  <2>2. CASE l.cls - 1 \notin 0..4
    BY <2>2, <1>6
  <2> QED BY <2>1, <2>2
<1>9. ASSUME l.cls \in 1..5, \A i \in Known(l.sls) : i < l.cls
      PROVE  cur = max
  <2>1. l.cls - 1 \in 0..4 /\ l.cls - 1 \in Known(l.sls)
    BY <1>9 DEF Known, Consistent
  <2>2. fastest = l.cls - 1
    BY <2>1, <1>4, <1>5, <1>9
  <2> QED BY <2>1, <2>2
<1> HIDE DEF max, cur
<1>10. 0 <= max * l.mlw /\ max * l.mlw \in Nat /\ cur * l.nlw \in Nat
  BY <1>1, <1>6, <1>7
<1>11. l.cls # 0 => cur * l.nlw <= max * l.mlw
  BY <1>1, <1>6, <1>7, <1>8, Faster
<1>12. l.cls \in 1..5 /\ (\A i \in Known(l.sls) : i < l.cls) /\ l.nlw = l.mlw
         => l.cls # 0 /\ cur * l.nlw = max * l.mlw
  BY <1>9
<1> QED BY <1>2, <1>3, <1>10, <1>11, <1>12

-----------------------------------------------------------------------------
(* The invariant.                                                          *)

\* What Init and Reset leave.
StartsOver ==
  /\ drive \in Drives
  /\ saniCap = {}
  /\ nodmmas = Unset /\ eraseType = Unset /\ estimatedTime = Unset
  /\ inProgress = FALSE
  /\ progress = 0
  /\ polls = 0
  /\ link = Unset
  /\ maxSpeed = 0 /\ currentSpeed = 0

LEMMA StartsOverInv ==
  ASSUME StartsOver
  PROVE  IInv
<1> USE DEF StartsOver
<1>1. 0 \in 0..MaxPolls /\ 0 \in 0..100 /\ 0 \in Nat
  BY FigureConstants
<1>2. TypeOK
  BY <1>1 DEF TypeOK
<1>3. SetBeforeRead /\ BelowFull /\ SpeedsAgree
  BY DEF SetBeforeRead, BelowFull, SpeedsAgree
<1>4. TimeCounted
  BY FigureConstants DEF TimeCounted
<1> QED BY <1>2, <1>3, <1>4 DEF IInv

LEMMA InitInv == Init => IInv
  BY StartsOverInv DEF Init, StartsOver

\* The time is counted on where nothing it depends on changes.
LEMMA TimeKept ==
  ASSUME IInv, drive' = drive, nodmmas' = nodmmas, eraseType' = eraseType,
         estimatedTime' = estimatedTime, progress' = progress, polls' = polls,
         inProgress' = inProgress
  PROVE  TimeCounted'
  BY DEF IInv, TimeCounted, EndTime, Estimate

LEMMA IdentifyInv ==
  ASSUME IInv, Identify
  PROVE  IInv'
<1>1. nodmmas' \in BOOLEAN /\ nodmmas' # Unset
  <2> nodmmas' \in BOOLEAN
    BY DEF Identify, SetNodmmas
  <2> QED BY FigureConstants
<1>2. saniCap' = Supported
  BY DEF Identify
<1>3. UNCHANGED <<drive, eraseType, estimatedTime, inProgress, progress, polls,
                  link, maxSpeed, currentSpeed>>
  BY DEF Identify, linkVars
<1>4. TypeOK'
  BY <1>1, <1>2, <1>3 DEF IInv, TypeOK, Supported
<1>5. inProgress => eraseType \in Supported
  BY DEF IInv, TypeOK, SetBeforeRead
<1>6. SetBeforeRead'
  BY <1>1, <1>2, <1>3, <1>5 DEF IInv, SetBeforeRead
<1>7. BelowFull' /\ SpeedsAgree'
  BY <1>3 DEF IInv, BelowFull, SpeedsAgree
<1>8. TimeCounted'
  <2>1. nodmmas' = FALSE
    <3>1. 31 \notin Byte(drive.sanicap)
      BY DEF Byte
    <3>2. nodmmas' <=> 31 \in Byte(drive.sanicap)
      BY DEF Identify, SetNodmmas
    <3> QED BY <3>1, <3>2, <1>1
  <2>2. CASE inProgress
    <3>1. nodmmas = FALSE
      BY <2>2 DEF IInv, TypeOK, SetBeforeRead, TimeCounted
    <3> QED BY <2>1, <3>1, <1>3, TimeKept
  <2>3. CASE ~inProgress
    BY <2>1, <2>3, <1>3 DEF TimeCounted, IInv, TypeOK
  <2> QED BY <2>2, <2>3
<1> QED BY <1>4, <1>6, <1>7, <1>8 DEF IInv

LEMMA LogDoneInv ==
  ASSUME IInv, LogDone
  PROVE  IInv'
<1>1. UNCHANGED <<drive, saniCap, nodmmas, eraseType, estimatedTime, polls,
                  link, maxSpeed, currentSpeed>>
  BY DEF LogDone, linkVars
<1>2. inProgress' = FALSE /\ progress' \in 0..100
  BY DEF LogDone
<1>3. TypeOK'
  BY <1>1, <1>2 DEF IInv, TypeOK, Supported
<1>4. SetBeforeRead' /\ BelowFull' /\ SpeedsAgree'
  BY <1>1, <1>2 DEF IInv, SetBeforeRead, BelowFull, SpeedsAgree
<1>5. TimeCounted'
  BY <1>1, <1>2 DEF IInv, TimeCounted
<1> QED BY <1>3, <1>4, <1>5 DEF IInv

LEMMA EndTimeType ==
  ASSUME IInv, inProgress
  PROVE  EndTime \in 0..UintMax
<1>1. drive.estimates \in [Methods \X BOOLEAN -> 0..UintMax]
  BY FigureConstants DEF IInv, TypeOK, Estimates
<1>2. eraseType \in Methods /\ nodmmas \in BOOLEAN
  BY FigureConstants DEF IInv, TypeOK, SetBeforeRead, Supported
<1> QED BY <1>1, <1>2, FigureConstants DEF EndTime, Estimate

\* The seconds after one more log.
LEMMA LogTimes ==
  ASSUME IInv, LogBusy, 100 * pollInterval * polls' <= UintMax
  PROVE  /\ polls \in Nat /\ polls' = polls + 1
         /\ pollInterval * polls \in Nat /\ pollInterval * polls' \in Nat
         /\ pollInterval * polls <= pollInterval * polls'
         /\ 100 * (pollInterval * polls') <= UintMax
         /\ 100 * pollInterval * polls <= UintMax
         /\ estimatedTime = pollInterval * polls
         /\ estimatedTime' = pollInterval * polls'
<1>1. polls \in Nat /\ polls' = polls + 1 /\ inProgress
      /\ estimatedTime' = Wrapped(estimatedTime + pollInterval)
  BY FigureConstants DEF LogBusy, IInv, TypeOK
<1>2. pollInterval \in Nat /\ UintMax \in Nat
  BY FigureConstants
<1>3. /\ pollInterval * polls \in Nat
      /\ pollInterval * polls' = pollInterval * polls + pollInterval
      /\ pollInterval * polls' \in Nat
  BY <1>1, <1>2
<1>4. /\ 100 * pollInterval * polls' = 100 * (pollInterval * polls')
      /\ 100 * pollInterval * polls = 100 * (pollInterval * polls)
  BY <1>1, <1>2
<1>5. /\ pollInterval * polls <= pollInterval * polls'
      /\ 100 * (pollInterval * polls') <= UintMax
      /\ 100 * (pollInterval * polls) <= UintMax
      /\ pollInterval * polls' \in 0..UintMax
  BY <1>2, <1>3, <1>4
<1>6. 100 * pollInterval * polls <= UintMax
  BY <1>4, <1>5
<1>7. estimatedTime = pollInterval * polls
  BY <1>1, <1>6 DEF IInv, TimeCounted
<1>8. estimatedTime' = pollInterval * polls'
  BY <1>1, <1>3, <1>5, <1>7, WrappedSmall
<1> QED BY <1>1, <1>3, <1>5, <1>6, <1>7, <1>8

LEMMA LogBusyInv ==
  ASSUME IInv, LogBusy
  PROVE  IInv'
<1>1. estimatedTime \in 0..UintMax
  BY DEF IInv, TypeOK, SetBeforeRead, LogBusy
<1>2. estimatedTime' \in 0..UintMax
  <2> estimatedTime + pollInterval \in Nat
    BY <1>1, FigureConstants
  <2> QED BY WrappedBound DEF LogBusy
<1>3. EndTime \in 0..UintMax
  BY EndTimeType DEF LogBusy
<1>4. progress' \in 0..99
  BY <1>2, <1>3, PercentBound DEF LogBusy
<1>5. polls' \in 0..MaxPolls
  BY FigureConstants DEF LogBusy, IInv, TypeOK
<1>6. UNCHANGED <<drive, saniCap, nodmmas, eraseType, inProgress, link, maxSpeed, currentSpeed>>
  BY DEF LogBusy, linkVars
<1>7. estimatedTime' # Unset
  BY <1>2, FigureConstants
<1>8. TypeOK'
  BY <1>2, <1>4, <1>5, <1>6 DEF IInv, TypeOK, Supported
<1>9. SetBeforeRead' /\ BelowFull' /\ SpeedsAgree'
  BY <1>4, <1>6, <1>7 DEF IInv, SetBeforeRead, BelowFull, SpeedsAgree
<1>10. TimeCounted'
  <2>1. nodmmas' # TRUE
    BY <1>6 DEF IInv, TimeCounted
  <2>2. EndTime' = EndTime
    BY <1>6 DEF EndTime, Estimate
  <2>3. ASSUME 100 * pollInterval * polls' <= UintMax
        PROVE  estimatedTime' = pollInterval * polls'
               /\ progress' = Percent(pollInterval * polls', EndTime)
    <3>1. estimatedTime' = pollInterval * polls'
      BY <2>3, LogTimes
    <3>2. progress' = Percent(estimatedTime', EndTime)
      BY DEF LogBusy
    <3> QED BY <3>1, <3>2
  <2> QED BY <2>1, <2>2, <2>3 DEF TimeCounted
<1> QED BY <1>8, <1>9, <1>10 DEF IInv

LEMMA PortInv ==
  ASSUME IInv, PortInformation
  PROVE  IInv'
<1>1. link' \in Link /\ Consistent(link') /\ link' \in Links
  BY FigureConstants DEF PortInformation
<1>2. /\ maxSpeed' \in Nat /\ currentSpeed' \in Nat
      /\ SpeedsAgree'
  BY <1>1, LinkSpeeds DEF PortInformation, SpeedsAgree
<1>3. UNCHANGED <<drive, saniCap, nodmmas, eraseType, estimatedTime, inProgress, progress, polls>>
  BY DEF PortInformation, sanitizeVars
<1>4. TimeCounted'
  BY <1>3, TimeKept
<1> QED BY <1>1, <1>2, <1>3, <1>4 DEF IInv, TypeOK, SetBeforeRead, BelowFull, Supported

LEMMA SanitizeInv ==
  ASSUME IInv, NEW method \in Methods, Sanitize(method)
  PROVE  IInv'
<1>1. TypeOK' /\ SetBeforeRead' /\ BelowFull' /\ SpeedsAgree'
  BY FigureConstants
     DEF Sanitize, IInv, TypeOK, SetBeforeRead, BelowFull, SpeedsAgree, Supported, linkVars
<1>2. TimeCounted'
  <2>1. polls' = 0 /\ estimatedTime' = 0 /\ nodmmas' = nodmmas
    BY DEF Sanitize
  <2>2. pollInterval * 0 = 0
    BY FigureConstants
  <2>3. nodmmas' # TRUE
    BY <2>1 DEF IInv, TimeCounted
  <2>4. estimatedTime' = pollInterval * polls'
    BY <2>1, <2>2
  <2>5. ~(polls' > 0)
    BY <2>1
  <2> QED BY <2>3, <2>4, <2>5, Zenon DEF TimeCounted
<1> QED BY <1>1, <1>2 DEF IInv

LEMMA NextInv == IInv /\ [Next]_vars => IInv'
<1> SUFFICES ASSUME IInv, [Next]_vars PROVE IInv'
  OBVIOUS
<1>1. CASE Identify
  BY <1>1, IdentifyInv
<1>2. CASE \E method \in Methods : Sanitize(method)
  BY <1>2, SanitizeInv
<1>3. CASE LogBusy
  BY <1>3, LogBusyInv
<1>4. CASE DivisionTraps \/ Reset
  <2>1. drive' \in Drives
    BY <1>4 DEF DivisionTraps, Reset, IInv, TypeOK
  <2>2. StartsOver'
    BY <1>4, <2>1 DEF DivisionTraps, Reset, StartsOver
  <2>3. StartsOver' => IInv'
    BY StartsOverInv, PTL
  <2> QED BY <2>2, <2>3
<1>5. CASE LogDone
  BY <1>5, LogDoneInv
<1>6. CASE PortInformation
  BY <1>6, PortInv
<1>7. CASE UNCHANGED vars
  <2>1. TimeCounted'
    BY <1>7, TimeKept DEF vars, sanitizeVars, linkVars
  <2>2. /\ UNCHANGED <<drive, saniCap, nodmmas, eraseType, estimatedTime, inProgress, progress>>
        /\ UNCHANGED <<polls, link, maxSpeed, currentSpeed>>
    BY <1>7 DEF vars, sanitizeVars, linkVars
  <2>3. TypeOK'
    BY <2>2 DEF IInv, TypeOK, Supported
  <2>4. SetBeforeRead' /\ BelowFull' /\ SpeedsAgree'
    BY <2>2 DEF IInv, SetBeforeRead, BelowFull, SpeedsAgree
  <2> QED BY <2>1, <2>3, <2>4 DEF IInv
<1> QED BY <1>1, <1>2, <1>3, <1>4, <1>5, <1>6, <1>7 DEF Next

\* The invariant of the numbers (NVMeDevice.cpp:181-280, 441-565).
THEOREM FiguresInvariant == Spec => []IInv
  BY InitInv, NextInv, PTL DEF Spec

\* No operation in progress is shown as complete, whatever its estimate and its
\* length (NVMeDevice.cpp:441-461).
THEOREM StaysBelowFull == Spec => []BelowFull
<1> IInv => BelowFull
  BY DEF IInv
<1> QED BY FiguresInvariant, PTL

\* nodmmas, eraseType and estimatedTime are set before they are read.
THEOREM NothingReadUnset == Spec => []SetBeforeRead
<1> IInv => SetBeforeRead
  BY DEF IInv
<1> QED BY FiguresInvariant, PTL

\* The speeds of the link agree, for any vectors and lanes.
THEOREM LinkShownRight == Spec => []SpeedsAgree
<1> IInv => SpeedsAgree
  BY DEF IInv
<1> QED BY FiguresInvariant, PTL

\* The percentage is that of the operation's own time and method, at every log,
\* for any estimates and word size (NVMeDevice.cpp:441-461, 524-560).
THEOREM PercentIsOwn == Spec => []PercentOfOwnTime
<1>1. IInv => PercentOfOwnTime
  <2> SUFFICES ASSUME IInv, inProgress, polls > 0, 100 * pollInterval * polls <= UintMax
               PROVE  LET time == pollInterval * polls IN
                      IF time >= EndTime THEN progress = 99
                      ELSE /\ progress * EndTime <= 100 * time
                           /\ 100 * time < (progress + 1) * EndTime
    BY DEF PercentOfOwnTime
  <2>1. progress = Percent(pollInterval * polls, EndTime)
    BY DEF IInv, TimeCounted
  <2>2. pollInterval * polls \in Nat /\ 100 * (pollInterval * polls) <= UintMax
    <3>1. polls \in Nat /\ pollInterval \in Nat
      BY FigureConstants DEF IInv, TypeOK
    <3> QED BY <3>1
  <2> QED BY <2>1, <2>2, EndTimeType, PercentRight
<1> QED BY <1>1, FiguresInvariant, PTL

\* It does not fall from one log to the next (NVMeDevice.cpp:441-461, 667).
THEOREM PercentNeverFalls == Spec => NeverFalls
<1>1. IInv /\ [Next]_vars =>
        [inProgress /\ inProgress' /\ polls > 0 /\ polls' = polls + 1
         /\ 100 * pollInterval * polls' <= UintMax => progress' >= progress]_vars
  <2> SUFFICES ASSUME IInv, Next, inProgress, inProgress', polls > 0, polls' = polls + 1,
                      100 * pollInterval * polls' <= UintMax
               PROVE  progress' >= progress
    OBVIOUS
  <2>1. polls \in Nat
    BY FigureConstants DEF IInv, TypeOK
  <2>2. LogBusy
    BY <2>1 DEF Next, Identify, Sanitize, DivisionTraps, LogDone, PortInformation, Reset,
                sanitizeVars
  <2>3. progress = Percent(pollInterval * polls, EndTime)
    BY <2>2, LogTimes DEF IInv, TimeCounted
  <2>4. progress' = Percent(pollInterval * polls', EndTime)
    <3>1. progress' = Percent(estimatedTime', EndTime)
      BY <2>2 DEF LogBusy
    <3> QED BY <3>1, <2>2, LogTimes
  <2>5. Percent(pollInterval * polls, EndTime) <= Percent(pollInterval * polls', EndTime)
    BY <2>2, LogTimes, EndTimeType, PercentGrows
  <2>6. progress \in Int /\ progress' \in Int
    BY <2>2, LogBusyInv DEF IInv, TypeOK
  <2> QED BY <2>3, <2>4, <2>5, <2>6
<1> QED BY <1>1, FiguresInvariant, PTL DEF Spec, NeverFalls

\* The masked bit is lost for the drives that set it, and for no others: where none
\* modifies media after a sanitize operation, the flag is right (NVMeDevice.hpp:104-113).
THEOREM NodmmasKeptOtherwise == ASSUME NoneModifies PROVE Spec => []NodmmasKept
<1>1. IInv => NodmmasKept
  BY DEF IInv, TypeOK, TimeCounted, NodmmasKept, NoneModifies
<1> QED
  BY <1>1, FiguresInvariant, PTL
=============================================================================
