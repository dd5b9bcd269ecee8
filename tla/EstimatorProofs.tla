-------------------------- MODULE EstimatorProofs --------------------------
(***************************************************************************)
(* For any connections, interfaces, rates, clock errors and numbers of     *)
(* restarts: an estimate is not trusted beyond its age, and neither        *)
(* estimate nor demand exceeds what the connections can carry.             *)
(***************************************************************************)
EXTENDS Estimator, TLAPS

FileRow == [bps : Nat, confidence : 0 .. Full, age : Nat \union {None}]

\* Types, where each connection is, and what readings and estimates look back on:
\* no time that is still to come.
TypeInv ==
    /\ real \in Nat /\ boot \in Nat /\ boot <= real /\ skew \in Skews
    /\ on \in [Iface -> Link \union {None}] /\ Placed(on)
    /\ counter \in [Iface -> Nat] /\ lan \in Nat /\ demand \in Nat
    /\ station \in Link \union {None}
    /\ lastLan = None \/ lastLan \in Reading
    /\ \A l \in Link : last[l] = None \/ last[l] \in Reading
    /\ \A l \in Link : capacity[l] \in Estimate
                       /\ (Known(capacity[l]) => capacity[l].measured_at # None)
    /\ \A l \in Link : truth[l] = None \/ (truth[l] \in Earned /\ truth[l].at <= real)
    /\ running => \A l \in Link : capacity[l].measured_at = None \/ capacity[l].measured_at <= Now

RowsInv ==
    file # None =>
        /\ file.wall \in Int /\ file.at \in Nat /\ file.at <= real
        /\ \A l \in Link : file.rows[l] \in FileRow
                           /\ (file.rows[l].confidence > 0 => file.rows[l].age # None)
        /\ \A l \in Link : file.truth[l] = None
                           \/ (file.truth[l] \in Earned /\ file.truth[l].at <= file.at)

\* The confidence that is left after `age` is covered by what was earned.
Covered(confidence, age, earned, since) ==
    IF earned = None THEN confidence = 0
    ELSE \/ earned.doubtful \/ age = None
         \/ Halved(confidence, age) <= Halved(earned.confidence, since)

\* In memory by the age the monotonic clock gives, on disk by the age that was
\* written: the time since then is added to both sides by the next start.
HonestInv ==
    /\ running => \A l \in Link :
          Covered(capacity[l].confidence, AgeOf(capacity[l]), truth[l], real - truth[l].at)
    /\ file # None => \A l \in Link :
          Covered(file.rows[l].confidence, file.rows[l].age, file.truth[l],
                  file.at - file.truth[l].at)

\* Since a reading of this process a counter has grown by no more than the time
\* allows, or it was reset.
Within(bytes, reading, rate) ==
    reading # None => /\ reading.at <= Now
                      /\ bytes - reading.bytes <= rate * (Now - reading.at)

Alone(l) == \A k \in Link \ {l} : IfaceOf[k] # IfaceOf[l]
FloorInv ==
    /\ running => /\ \A l \in Link : Alone(l) => Within(counter[IfaceOf[l]], last[l], Rate[l])
                  /\ Within(lan, lastLan, TotalRate)
    /\ \A l \in Link : Alone(l) => capacity[l].bps <= Rate[l]
    /\ file # None => \A l \in Link : Alone(l) => file.rows[l].bps <= Rate[l]
    /\ demand <= TotalRate

-----------------------------------------------------------------------------
(* Arithmetic *)

LEMMA MaxWithZero == ASSUME NEW x \in Int PROVE Max({0, x}) = IF x > 0 THEN x ELSE 0
BY DEF Max

LEMMA MinWithFull == ASSUME NEW x \in Int PROVE Min({Full, x}) = IF x < Full THEN x ELSE Full
BY DEF Min, Full

LEMMA HalvedValues ==
    ASSUME NEW c \in 0 .. Full
    PROVE  /\ Halved(c, 0) = c /\ Halved(c, 1) = c \div 2 /\ Halved(c, 2) = c \div 4
           /\ Halved(c, 3) = c \div 8 /\ Halved(c, 4) = c \div 16
           /\ \A a \in Nat : a >= 5 => Halved(c, a) = 0
BY DEF Halved, Full

LEMMA Ages == ASSUME NEW a \in Nat PROVE a \in {0, 1, 2, 3, 4} \/ a >= 5
OBVIOUS

\* Confidence only ever falls, and what is left keeps its order.
LEMMA HalvedFalls ==
    ASSUME NEW c \in 0 .. Full, NEW a \in Nat
    PROVE  Halved(c, a) \in 0 .. Full /\ Halved(c, a) <= c
BY HalvedValues, Ages DEF Full

LEMMA HalvedMonotone ==
    ASSUME NEW c \in 0 .. Full, NEW d \in 0 .. Full, c <= d, NEW a \in Nat
    PROVE  Halved(c, a) <= Halved(d, a)
BY HalvedValues, Ages DEF Full

LEMMA HalvedAgain ==
    ASSUME NEW c \in 0 .. Full, NEW a \in Nat PROVE Halved(c, a + 1) = Halved(c, a) \div 2
BY HalvedValues, Ages DEF Full

\* Two spans of time, one after the other: what fold() and a restart compute.
LEMMA HalvedTwice ==
    ASSUME NEW c \in 0 .. Full, NEW a \in Nat, NEW b \in Nat
    PROVE  Halved(Halved(c, a), b) = Halved(c, a + b)
<1> DEFINE h == Halved(c, a)
<1>1. h \in 0 .. Full
  BY HalvedFalls
<1> HIDE DEF h
<1>2. ASSUME NEW n \in Nat, Halved(h, n) = Halved(c, a + n)
      PROVE  Halved(h, n + 1) = Halved(c, a + (n + 1))
  <2>1. Halved(h, n + 1) = Halved(h, n) \div 2
    BY <1>1, HalvedAgain
  <2>2. Halved(c, (a + n) + 1) = Halved(c, a + n) \div 2
    BY HalvedAgain
  <2> QED
    BY <1>2, <2>1, <2>2
<1>3. Halved(h, 0) = Halved(c, a + 0)
  BY <1>1, HalvedValues DEF h
<1>4. CASE b \in {0, 1, 2, 3, 4}
  <2>1. Halved(h, 1) = Halved(c, a + 1)
    BY <1>2, <1>3
  <2>2. Halved(h, 2) = Halved(c, a + 2)
    BY <1>2, <2>1
  <2>3. Halved(h, 3) = Halved(c, a + 3)
    BY <1>2, <2>2
  <2>4. Halved(h, 4) = Halved(c, a + 4)
    BY <1>2, <2>3
  <2> QED
    BY <1>3, <1>4, <2>1, <2>2, <2>3, <2>4 DEF h
<1>5. CASE b >= 5
  <2>1. Halved(h, b) = 0 /\ Halved(c, a + b) = 0
    BY <1>1, <1>5, HalvedValues
  <2> QED
    BY <2>1 DEF h
<1> QED
  BY <1>4, <1>5, Ages

LEMMA HalvedOlder ==
    ASSUME NEW c \in 0 .. Full, NEW a \in Nat, NEW b \in Nat, a <= b
    PROVE  Halved(c, b) <= Halved(c, a)
<1>1. Halved(Halved(c, a), b - a) = Halved(c, a + (b - a)) /\ a + (b - a) = b
  BY HalvedTwice
<1>2. Halved(c, a) \in 0 .. Full
  BY HalvedFalls
<1>3. Halved(Halved(c, a), b - a) <= Halved(c, a)
  BY <1>2, HalvedFalls
<1> QED
  BY <1>1, <1>3

\* Bytes that were within a rate are a throughput within it.
LEMMA RateBound ==
    ASSUME NEW x \in Int, NEW d \in Nat \ {0}, NEW r \in Nat, x <= r * d
    PROVE  Max({0, x}) \div d \in 0 .. r
<1> DEFINE y == Max({0, x})
<1>1. r * d \in Nat
  OBVIOUS
<1>2. y \in Nat /\ y <= r * d
  BY <1>1, MaxWithZero
<1> HIDE DEF y
<1> DEFINE q == y \div d
<1>3. q \in Nat /\ q * d <= y
  BY <1>2
<1> HIDE DEF q
<1>4. q <= r
  <2> SUFFICES ASSUME q >= r + 1 PROVE FALSE
    BY <1>3
  <2>1. q * d >= (r + 1) * d
    BY <1>3
  <2>2. (r + 1) * d = r * d + d
    OBVIOUS
  <2> QED
    BY <1>1, <1>2, <1>3, <2>1, <2>2
<1> QED
  BY <1>3, <1>4 DEF q, y

\* The moving average stays between what it averages.
LEMMA EwmaBound ==
    ASSUME NEW old \in Nat, NEW new \in Nat, NEW decayed
    PROVE  /\ Ewma(old, new, decayed) \in Nat
           /\ \A r \in Nat : old <= r /\ new <= r => Ewma(old, new, decayed) <= r
BY DEF Ewma

-----------------------------------------------------------------------------
(* One estimate *)

LEMMA DecayType ==
    ASSUME NEW c \in Estimate, NEW now \in Int
    PROVE  decay_confidence(c, now) \in 0 .. Full
<1>1. CASE c.measured_at = None \/ ~ Known(c)
  BY <1>1 DEF decay_confidence, Full
<1>2. CASE c.measured_at # None /\ Known(c)
  <2>1. c.measured_at \in Int /\ c.confidence \in 0 .. Full
    BY <1>2 DEF Estimate
  <2>2. Max({0, now - c.measured_at}) \in Nat
    BY <2>1, MaxWithZero
  <2> QED
    BY <1>2, <2>1, <2>2, HalvedFalls DEF decay_confidence
<1> QED
  BY <1>1, <1>2

\* Without a measurement that is still to come, decay is one halving.
LEMMA DecayValue ==
    ASSUME NEW c \in Estimate, NEW now \in Int, c.measured_at # None, c.measured_at <= now
    PROVE  /\ now - c.measured_at \in Nat
           /\ decay_confidence(c, now) = Halved(c.confidence, now - c.measured_at)
<1>1. c.measured_at \in Int /\ c.confidence \in 0 .. Full
  BY DEF Estimate
<1>2. Max({0, now - c.measured_at}) = now - c.measured_at /\ now - c.measured_at \in Nat
  BY <1>1, MaxWithZero
<1>3. CASE Known(c)
  BY <1>2, <1>3 DEF decay_confidence
<1>4. CASE ~ Known(c)
  <2>1. c.confidence = 0
    BY <1>1, <1>4 DEF Known, Full
  <2>2. Halved(c.confidence, now - c.measured_at) = 0
    <3>1. Halved(c.confidence, now - c.measured_at) \in 0 .. Full
          /\ Halved(c.confidence, now - c.measured_at) <= c.confidence
      BY <1>1, <1>2, HalvedFalls
    <3> QED
      BY <2>1, <3>1
  <2> QED
    BY <1>2, <1>4, <2>2 DEF decay_confidence
<1> QED
  BY <1>3, <1>4

LEMMA FoldType ==
    ASSUME NEW c \in Estimate, NEW bps \in Nat, NEW saturated \in BOOLEAN, NEW now \in Int,
           Known(c) => c.measured_at # None,
           c.measured_at = None \/ c.measured_at <= now
    PROVE  LET d == fold(c, bps, saturated, now)
           IN  /\ d \in Estimate
               /\ Known(d) => d.measured_at # None
               /\ d.measured_at = None \/ d.measured_at <= now
<1> DEFINE decayed == decay_confidence(c, now)
<1>1. decayed \in 0 .. Full
  BY DecayType
<1>2. CASE ~ saturated
  <2>1. fold(c, bps, saturated, now) = [c EXCEPT !.confidence = decayed]
    BY <1>2 DEF fold
  <2>2. c.measured_at = None => decayed = 0
    BY DEF decay_confidence
  <2> QED
    BY <1>1, <2>1, <2>2 DEF Estimate, Known
<1>3. CASE saturated
  <2>1. fold(c, bps, saturated, now) =
            [bps |-> Ewma(c.bps, bps, decayed), confidence |-> Min({Full, decayed + 6}),
             measured_at |-> now]
    BY <1>3 DEF fold
  <2>2. Min({Full, decayed + 6}) \in 0 .. Full
    BY <1>1, MinWithFull DEF Full
  <2>3. Ewma(c.bps, bps, decayed) \in Nat
    BY EwmaBound DEF Estimate
  <2>4. now # None
    BY EstimatorAssumption
  <2> QED
    BY <2>1, <2>2, <2>3, <2>4 DEF Estimate, Known
<1> QED
  BY <1>2, <1>3

\* The records of what was earned, when an estimate is made and when it is loaded.
LEMMA EarnedNow ==
    ASSUME NEW t \in Nat, NEW c \in 0 .. Full
    PROVE  LET e == [at |-> t, confidence |-> c, doubtful |-> FALSE]
           IN  e \in Earned /\ e.at = t /\ e.confidence = c /\ ~ e.doubtful
BY DEF Earned

LEMMA EarnedLoaded ==
    ASSUME NEW e \in Earned, NEW b
    PROVE  LET d == [e EXCEPT !.doubtful = e.doubtful \/ b]
           IN  /\ d \in Earned
               /\ d.at = e.at /\ d.confidence = e.confidence
               /\ e.doubtful \/ b => d.doubtful
               /\ d.doubtful => e.doubtful \/ b
<1> DEFINE f == (e.doubtful \/ b)
           d == [e EXCEPT !.doubtful = f]
<1>1. f \in BOOLEAN
  OBVIOUS
<1>2. f <=> e.doubtful \/ b
  OBVIOUS
<1> HIDE DEF f
<1>3. d \in Earned /\ d.at = e.at /\ d.confidence = e.confidence /\ d.doubtful = f
  BY <1>1 DEF Earned
<1> QED
  BY <1>2, <1>3 DEF f

LEMMA UnknownType == Unknown \in Estimate /\ ~ Known(Unknown) /\ Unknown.measured_at = None
BY DEF Unknown, Estimate, Known, Full

-----------------------------------------------------------------------------
(* Types *)

LEMMA TypeInit == Init => TypeInv /\ RowsInv /\ running \in BOOLEAN
<1> SUFFICES ASSUME Init PROVE TypeInv /\ RowsInv /\ running \in BOOLEAN
  OBVIOUS
<1> QED
  BY UnknownType, EstimatorAssumption DEF Init, TypeInv, RowsInv, Placed

\* What a medium loop reads is a throughput.
LEMMA ThroughputType ==
    ASSUME TypeInv, NEW l \in Link, Usable(last[l])
    PROVE  /\ last[l] \in Reading /\ Now - last[l].at \in Nat \ {0} /\ Now \in Int
           /\ counter[IfaceOf[l]] \in Nat
           /\ Throughput(counter[IfaceOf[l]], last[l], Now) \in Nat
<1>1. last[l] \in Reading
  BY DEF TypeInv, Usable
<1>2. Now \in Int /\ counter[IfaceOf[l]] \in Nat /\ last[l].at \in Int /\ last[l].bytes \in Nat
  BY <1>1, EstimatorAssumption DEF TypeInv, Now, Reading
<1>3. Now - last[l].at \in Nat \ {0}
  BY <1>2 DEF Usable
<1>4. Max({0, counter[IfaceOf[l]] - last[l].bytes}) \in Nat
  BY <1>2, MaxWithZero
<1> QED
  BY <1>1, <1>2, <1>3, <1>4 DEF Throughput

LEMMA SampledType ==
    ASSUME TypeInv, Usable(lastLan)
    PROVE  lastLan \in Reading /\ Now - lastLan.at \in Nat \ {0} /\ Now \in Int /\ Sampled \in Nat
<1>1. lastLan \in Reading
  BY DEF TypeInv, Usable
<1>2. Now \in Int /\ lastLan.at \in Int /\ lastLan.bytes \in Nat /\ lan \in Nat
  BY <1>1 DEF TypeInv, Now, Reading
<1>3. Now - lastLan.at \in Nat \ {0}
  BY <1>2 DEF Usable
<1>4. Max({0, lan - lastLan.bytes}) \in Nat
  BY <1>2, MaxWithZero
<1> QED
  BY <1>1, <1>2, <1>3, <1>4 DEF Throughput, Sampled

\* What a medium loop leaves of one connection's estimate.
LEMMA MediumEstimate ==
    ASSUME TypeInv, NEW S \in SUBSET Link, MediumLoop(S), NEW l \in Link
    PROVE  /\ capacity'[l] \in Estimate
           /\ Known(capacity'[l]) => capacity'[l].measured_at # None
           /\ capacity'[l].measured_at = None \/ capacity'[l].measured_at <= Now
           /\ last'[l] = last[l] \/ last'[l] = [at |-> Now, bytes |-> counter[IfaceOf[l]]]
           /\ \/ truth'[l] = truth[l] /\ capacity'[l] = capacity[l]
              \/ /\ Usable(last[l]) /\ truth'[l] = truth[l]
                 /\ capacity'[l] = fold(capacity[l], Throughput(counter[IfaceOf[l]], last[l], Now),
                                        FALSE, Now)
              \/ /\ Usable(last[l])
                 /\ truth'[l] = [at |-> real, confidence |-> capacity'[l].confidence,
                                 doubtful |-> FALSE]
                 /\ capacity'[l] = fold(capacity[l], Throughput(counter[IfaceOf[l]], last[l], Now),
                                        TRUE, Now)
<1> DEFINE bps == Throughput(counter[IfaceOf[l]], last[l], Now)
<1>1. /\ running
      /\ capacity'[l] = IF l \in Named /\ Usable(last[l]) THEN fold(capacity[l], bps, l \in S, Now)
                        ELSE capacity[l]
      /\ last'[l] = IF l \in Named THEN [at |-> Now, bytes |-> counter[IfaceOf[l]]] ELSE last[l]
      /\ truth'[l] = IF l \in Named /\ Usable(last[l]) /\ l \in S
                     THEN [at |-> real, confidence |-> capacity'[l].confidence, doubtful |-> FALSE]
                     ELSE truth[l]
  BY DEF MediumLoop
<1>2. /\ capacity[l] \in Estimate /\ (Known(capacity[l]) => capacity[l].measured_at # None)
      /\ capacity[l].measured_at = None \/ capacity[l].measured_at <= Now
  BY <1>1 DEF TypeInv
<1>3. CASE l \in Named /\ Usable(last[l])
  <2>1. bps \in Nat /\ Now \in Int
    BY <1>3, ThroughputType
  <2> HIDE DEF bps
  <2>2. ASSUME NEW sat \in BOOLEAN, capacity'[l] = fold(capacity[l], bps, sat, Now)
        PROVE  /\ capacity'[l] \in Estimate
               /\ Known(capacity'[l]) => capacity'[l].measured_at # None
               /\ capacity'[l].measured_at = None \/ capacity'[l].measured_at <= Now
    BY <1>2, <2>1, <2>2, FoldType
  <2>3. CASE l \in S
    <3>1. capacity'[l] = fold(capacity[l], bps, TRUE, Now)
      BY <1>1, <1>3, <2>3 DEF fold
    <3> QED
      BY <1>1, <1>3, <2>2, <2>3, <3>1 DEF bps
  <2>4. CASE l \notin S
    <3>1. capacity'[l] = fold(capacity[l], bps, FALSE, Now)
      BY <1>1, <1>3, <2>4 DEF fold
    <3> QED
      BY <1>1, <1>3, <2>2, <2>4, <3>1 DEF bps
  <2> QED
    BY <2>3, <2>4
<1>4. CASE ~ (l \in Named /\ Usable(last[l]))
  BY <1>1, <1>2, <1>4
<1> QED
  BY <1>3, <1>4

\* What _load() makes of a row.
LEMMA LoadedEstimate ==
    ASSUME TypeInv, RowsInv, Start, NEW l \in Link
    PROVE  /\ capacity'[l] \in Estimate
           /\ Known(capacity'[l]) => capacity'[l].measured_at # None
           /\ capacity'[l].measured_at = None \/ capacity'[l].measured_at <= Now
           /\ truth'[l] = None \/ (truth'[l] \in Earned /\ truth'[l].at <= real)
           /\ file = None => capacity'[l] = Unknown /\ truth'[l] = None
           /\ file # None =>
                 /\ Elapsed \in Nat
                 /\ capacity'[l].bps = file.rows[l].bps
                 /\ capacity'[l].confidence = file.rows[l].confidence
                 /\ IF file.rows[l].age = None THEN capacity'[l].measured_at = None
                    ELSE capacity'[l].measured_at = Now - (file.rows[l].age + Elapsed)
                 /\ file.truth[l] = None => truth'[l] = None
                 /\ file.truth[l] # None =>
                       /\ truth'[l] \in Earned /\ truth'[l].at = file.truth[l].at
                       /\ truth'[l].confidence = file.truth[l].confidence
                       /\ ~ truth'[l].doubtful => ~ file.truth[l].doubtful
                                                  /\ Elapsed >= real - file.at
<1>1. CASE file = None
  <2>1. capacity'[l] = Unknown /\ truth'[l] = None
    BY <1>1 DEF Start
  <2> QED
    BY <1>1, <2>1, UnknownType
<1>2. CASE file # None
  <2>1. /\ capacity'[l] = [bps |-> file.rows[l].bps, confidence |-> file.rows[l].confidence,
                           measured_at |-> IF file.rows[l].age = None THEN None
                                           ELSE Now - (file.rows[l].age + Elapsed)]
        /\ truth'[l] = IF file.truth[l] = None THEN None
                       ELSE [file.truth[l] EXCEPT !.doubtful =
                                file.truth[l].doubtful \/ Elapsed < real - file.at]
    BY <1>2 DEF Start, _reconstruct_capacity
  <2>2. /\ file.rows[l].bps \in Nat /\ file.rows[l].confidence \in 0 .. Full
        /\ file.rows[l].age \in Nat \union {None}
        /\ file.rows[l].confidence > 0 => file.rows[l].age # None
    BY <1>2 DEF RowsInv, FileRow
  <2>3. /\ Now \in Int /\ Wall - file.wall \in Int
        /\ file.at \in Nat /\ file.at <= real /\ real \in Nat
    BY <1>2, EstimatorAssumption DEF RowsInv, TypeInv, Now, Wall
  <2>4. Elapsed \in Nat
    BY <2>3, MaxWithZero DEF Elapsed
  <2>5. ASSUME file.truth[l] # None
        PROVE  /\ truth'[l] \in Earned /\ truth'[l].at = file.truth[l].at /\ truth'[l].at <= real
               /\ truth'[l].confidence = file.truth[l].confidence
               /\ ~ truth'[l].doubtful => ~ file.truth[l].doubtful /\ Elapsed >= real - file.at
    <3> DEFINE e == file.truth[l]
               younger == Elapsed < real - file.at
    <3>1. e \in Earned /\ e.at <= file.at
      BY <1>2, <2>5 DEF RowsInv
    <3>2. truth'[l] = [e EXCEPT !.doubtful = e.doubtful \/ younger]
      BY <2>1, <2>5, Zenon
    <3>3. ~ younger => Elapsed >= real - file.at
      BY <2>3, <2>4
    <3> HIDE DEF e, younger
    <3>4. /\ truth'[l] \in Earned /\ truth'[l].at = e.at /\ truth'[l].confidence = e.confidence
          /\ e.doubtful \/ younger => truth'[l].doubtful
      <4> DEFINE d == [e EXCEPT !.doubtful = e.doubtful \/ younger]
      <4>1. /\ d \in Earned /\ d.at = e.at /\ d.confidence = e.confidence
            /\ e.doubtful \/ younger => d.doubtful
        BY <3>1, EarnedLoaded
      <4>2. truth'[l] = d
        BY <3>2, Zenon
      <4> HIDE DEF d
      <4> QED
        BY <4>1, <4>2, Zenon
    <3>5. e.at \in Nat
      BY <3>1 DEF Earned
    <3>6. truth'[l].at <= real
      BY <2>3, <3>1, <3>4, <3>5
    <3> QED
      BY <3>3, <3>4, <3>6 DEF e
  <2>6. file.truth[l] = None => truth'[l] = None
    BY <2>1, Zenon
  <2>7. /\ capacity'[l].bps = file.rows[l].bps
        /\ capacity'[l].confidence = file.rows[l].confidence
        /\ capacity'[l].measured_at = IF file.rows[l].age = None THEN None
                                      ELSE Now - (file.rows[l].age + Elapsed)
    <3>1. capacity'[l] = [bps |-> file.rows[l].bps, confidence |-> file.rows[l].confidence,
                          measured_at |-> IF file.rows[l].age = None THEN None
                                          ELSE Now - (file.rows[l].age + Elapsed)]
      BY <2>1, Zenon
    <3> QED
      BY <3>1
  <2>8. file.rows[l].age # None => /\ Now - (file.rows[l].age + Elapsed) \in Int
                                   /\ Now - (file.rows[l].age + Elapsed) <= Now
                                   /\ Now - (file.rows[l].age + Elapsed) # None
    BY <2>2, <2>3, <2>4, EstimatorAssumption
  <2>9. capacity'[l] \in Estimate
    <3> DEFINE at == IF file.rows[l].age = None THEN None
                     ELSE Now - (file.rows[l].age + Elapsed)
    <3>1. at \in Int \union {None}
      BY <2>8
    <3>2. capacity'[l] = [bps |-> file.rows[l].bps, confidence |-> file.rows[l].confidence,
                          measured_at |-> at]
      BY <2>1, Zenon
    <3> HIDE DEF at
    <3> QED
      BY <2>2, <3>1, <3>2 DEF Estimate
  <2>10. Known(capacity'[l]) => capacity'[l].measured_at # None
    BY <2>2, <2>7, <2>8 DEF Known
  <2> QED
    BY <1>2, <2>4, <2>5, <2>6, <2>7, <2>8, <2>9, <2>10
<1> QED
  BY <1>1, <1>2

LEMMA RunningType == Spec => [](running \in BOOLEAN)
<1>1. Init => running \in BOOLEAN
  BY DEF Init
<1>2. running \in BOOLEAN /\ [Next]_vars => (running \in BOOLEAN)'
  BY Zenon DEF Next, vars, MediumLoop, Advance, Scan, Persist, Start, Move, SetClock, Crash
<1> QED
  BY <1>1, <1>2, PTL DEF Spec

LEMMA TypeStep == TypeInv /\ RowsInv /\ [Next]_vars => TypeInv'
<1> SUFFICES ASSUME TypeInv, RowsInv, [Next]_vars PROVE TypeInv'
  OBVIOUS
<1> USE EstimatorAssumption
<1>1. ASSUME NEW S \in SUBSET Link, MediumLoop(S) PROVE TypeInv'
  <2>1. UNCHANGED <<clocks, on, counter, lan, station>> /\ running /\ Now' = Now
    BY <1>1 DEF MediumLoop, clocks, world, Now
  <2>2. Now \in Int /\ real \in Nat /\ \A l \in Link : counter[IfaceOf[l]] \in Nat
    BY DEF TypeInv, Now
  <2>3. ASSUME NEW l \in Link PROVE last'[l] = None \/ last'[l] \in Reading
    <3>1. last'[l] = last[l] \/ last'[l] = [at |-> Now, bytes |-> counter[IfaceOf[l]]]
      BY <1>1, MediumEstimate
    <3>2. [at |-> Now, bytes |-> counter[IfaceOf[l]]] \in Reading
      BY <2>2 DEF Reading
    <3> QED
      BY <3>1, <3>2 DEF TypeInv
  <2>4. demand' \in Nat
    BY <1>1, SampledType DEF MediumLoop, Sampled
  <2>5. lastLan' \in Reading
    BY <1>1, <2>2 DEF MediumLoop, Reading, TypeInv
  <2>6. \A l \in Link : /\ capacity'[l] \in Estimate
                        /\ Known(capacity'[l]) => capacity'[l].measured_at # None
                        /\ capacity'[l].measured_at = None \/ capacity'[l].measured_at <= Now'
    BY <1>1, <2>1, MediumEstimate
  <2>7. ASSUME NEW l \in Link PROVE truth'[l] = None \/ (truth'[l] \in Earned /\ truth'[l].at <= real')
    <3>1. \/ truth'[l] = truth[l]
          \/ truth'[l] = [at |-> real, confidence |-> capacity'[l].confidence, doubtful |-> FALSE]
      BY <1>1, MediumEstimate
    <3>2. capacity'[l].confidence \in 0 .. Full
      BY <2>6 DEF Estimate
    <3>3. real' = real
      BY <2>1 DEF clocks
    <3>4. CASE truth'[l] = truth[l]
      BY <3>3, <3>4 DEF TypeInv
    <3>5. CASE truth'[l] = [at |-> real, confidence |-> capacity'[l].confidence, doubtful |-> FALSE]
      <4>1. truth'[l] \in Earned
        BY <2>2, <3>2, <3>5, EarnedNow
      <4>2. truth'[l].at = real
        BY <2>2, <3>2, <3>5, EarnedNow
      <4> QED
        BY <2>2, <3>3, <4>1, <4>2
    <3> QED
      BY <3>1, <3>4, <3>5
  <2> QED
    BY <2>1, <2>3, <2>4, <2>5, <2>6, <2>7 DEF TypeInv, clocks, Known, Placed
<1>2. ASSUME NEW S \in SUBSET Link, Advance(S) PROVE TypeInv'
  <2>1. /\ real' = real + 1 /\ UNCHANGED <<boot, skew, on, running, memory>>
        /\ counter' = [i \in Iface |-> counter[i] + Carried(on[i], S)]
        /\ lan' = lan + Delivered(on, S)
    BY <1>2 DEF Advance
  <2>2. Delivered(on, S) \in Nat
    <3>1. Delivered(on, S) \in 0 .. TotalRate
      BY SumAssumption DEF TypeInv
    <3> QED
      BY <3>1, SumAssumption
  <2>3. \A i \in Iface : Carried(on[i], S) \in Nat
    BY DEF Carried, TypeInv
  <2>4. counter' \in [Iface -> Nat] /\ lan' \in Nat
    BY <2>1, <2>2, <2>3 DEF TypeInv
  <2>5. Now' = Now + 1 /\ Now \in Int /\ real \in Nat
    BY <2>1 DEF Now, TypeInv
  <2>6. \A l \in Link : truth'[l] = None \/ (truth'[l] \in Earned /\ truth'[l].at <= real')
    BY <2>1, <2>5 DEF TypeInv, memory, Earned
  <2>7. running' => \A l \in Link : capacity'[l].measured_at = None \/ capacity'[l].measured_at <= Now'
    <3> SUFFICES ASSUME running, NEW l \in Link
                 PROVE  capacity[l].measured_at = None \/ capacity[l].measured_at <= Now + 1
      BY <2>1, <2>5 DEF memory
    <3>1. capacity[l].measured_at = None \/ (capacity[l].measured_at \in Int /\ capacity[l].measured_at <= Now)
      BY DEF TypeInv, Estimate
    <3> QED
      BY <2>5, <3>1
  <2> QED
    BY <2>1, <2>4, <2>5, <2>6, <2>7 DEF TypeInv, memory, Known, Placed
<1>3. CASE Scan
  BY <1>3 DEF Scan, TypeInv, Now, clocks, world, Placed, Known
<1>4. CASE Persist \/ UNCHANGED vars
  BY <1>4 DEF Persist, vars, TypeInv, Now, clocks, world, memory, Placed, Known
<1>5. CASE Start
  <2>1. /\ UNCHANGED <<clocks, world>> /\ Now' = Now /\ running'
        /\ station' = None /\ lastLan' = None /\ demand' = 0
        /\ \A l \in Link : last'[l] = None
    BY <1>5 DEF Start, Now, clocks
  <2>2. \A l \in Link : /\ capacity'[l] \in Estimate
                        /\ Known(capacity'[l]) => capacity'[l].measured_at # None
                        /\ capacity'[l].measured_at = None \/ capacity'[l].measured_at <= Now'
                        /\ truth'[l] = None \/ (truth'[l] \in Earned /\ truth'[l].at <= real')
    <3>1. real' = real
      BY <2>1 DEF clocks
    <3> QED
      BY <1>5, <2>1, <3>1, LoadedEstimate
  <2> QED
    BY <2>1, <2>2 DEF TypeInv, clocks, world, Known, Placed
<1>6. ASSUME NEW i \in Iface, NEW l \in Link \union {None}, Move(i, l) PROVE TypeInv'
  <2>1. /\ UNCHANGED <<clocks, lan, running, memory>>
        /\ on' = [on EXCEPT ![i] = l] /\ (l = None \/ IfaceOf[l] = i)
        /\ counter' = [counter EXCEPT ![i] = IF i = Radio THEN counter[i] ELSE 0]
    BY <1>6 DEF Move
  <2>2. on' \in [Iface -> Link \union {None}] /\ counter' \in [Iface -> Nat]
    BY <2>1 DEF TypeInv
  <2>3. Placed(on)'
    BY <2>1 DEF TypeInv, Placed
  <2> QED
    BY <2>1, <2>2, <2>3 DEF TypeInv, Now, clocks, memory, Known
<1>7. ASSUME NEW z \in Skews, SetClock(z) PROVE TypeInv'
  BY <1>7 DEF SetClock, TypeInv, Now, world, memory, Placed, Known
<1>8. ASSUME NEW reboot \in BOOLEAN, Crash(reboot) PROVE TypeInv'
  <2>1. /\ UNCHANGED <<real, skew, on, memory>> /\ ~ running'
        /\ boot' = real \/ boot' = boot
        /\ counter' = [i \in Iface |-> 0] \/ counter' = counter
        /\ lan' = 0 \/ lan' = lan
    BY <1>8 DEF Crash
  <2> QED
    BY <2>1 DEF TypeInv, memory, Known, Placed
<1> QED
  BY <1>1, <1>2, <1>3, <1>4, <1>5, <1>6, <1>7, <1>8 DEF Next

LEMMA RowsStep == TypeInv /\ RowsInv /\ [Next]_vars => RowsInv'
<1> SUFFICES ASSUME TypeInv, RowsInv, [Next]_vars PROVE RowsInv'
  OBVIOUS
<1>1. CASE Persist
  <2>1. /\ real' = real /\ file'.wall = Wall /\ file'.at = real /\ file'.truth = truth
        /\ \A l \in Link : file'.rows[l] = [bps |-> capacity[l].bps,
                                            confidence |-> capacity[l].confidence,
                                            age |-> AgeOf(capacity[l])]
    BY <1>1 DEF Persist, clocks
  <2>2. Wall \in Int /\ real \in Nat /\ Now \in Int
    BY EstimatorAssumption DEF TypeInv, Wall, Now
  <2>3. ASSUME NEW l \in Link
        PROVE  /\ file'.rows[l] \in FileRow
               /\ file'.rows[l].confidence > 0 => file'.rows[l].age # None
    <3>1. /\ capacity[l].bps \in Nat /\ capacity[l].confidence \in 0 .. Full
          /\ capacity[l].measured_at \in Int \union {None}
          /\ capacity[l].confidence > 0 => capacity[l].measured_at # None
      BY DEF TypeInv, Estimate, Known
    <3>2. CASE capacity[l].measured_at = None
      <4>1. AgeOf(capacity[l]) = None
        BY <3>2 DEF AgeOf
      <4>2. file'.rows[l] = [bps |-> capacity[l].bps, confidence |-> capacity[l].confidence,
                             age |-> None]
        BY <2>1, <4>1
      <4>3. [bps |-> capacity[l].bps, confidence |-> capacity[l].confidence, age |-> None] \in FileRow
        BY <3>1 DEF FileRow
      <4>4. ~ (capacity[l].confidence > 0) /\ file'.rows[l].confidence = capacity[l].confidence
        BY <3>1, <3>2, <4>2
      <4> QED
        BY <4>2, <4>3, <4>4, Zenon
    <3>3. CASE capacity[l].measured_at # None
      <4>1. AgeOf(capacity[l]) \in Nat
        BY <2>2, <3>1, <3>3, MaxWithZero DEF AgeOf
      <4>2. AgeOf(capacity[l]) # None
        BY <4>1, EstimatorAssumption
      <4>3. [bps |-> capacity[l].bps, confidence |-> capacity[l].confidence,
             age |-> AgeOf(capacity[l])] \in FileRow
        BY <3>1, <4>1 DEF FileRow
      <4>4. file'.rows[l] = [bps |-> capacity[l].bps, confidence |-> capacity[l].confidence,
                             age |-> AgeOf(capacity[l])]
        BY <2>1
      <4>5. file'.rows[l].age = AgeOf(capacity[l])
        BY <4>4
      <4> QED
        BY <4>2, <4>3, <4>4, <4>5, Zenon
    <3> QED
      BY <3>2, <3>3
  <2> QED
    BY <2>1, <2>2, <2>3 DEF RowsInv, TypeInv
<1>2. ASSUME file' = file, real' = real \/ real' = real + 1 PROVE RowsInv'
  BY <1>2 DEF RowsInv, TypeInv
<1>3. CASE ~ Persist
  BY <1>2, <1>3 DEF Next, vars, clocks, MediumLoop, Advance, Scan, Start, Move, SetClock, Crash
<1> QED
  BY <1>1, <1>3

-----------------------------------------------------------------------------
(* Confidence *)

LEMMA HalvedLater ==
    ASSUME NEW c \in 0 .. Full, NEW e \in 0 .. Full, NEW age \in Nat, NEW since \in Nat,
           NEW n \in Nat, NEW m \in Nat, n <= m, Halved(c, age) <= Halved(e, since)
    PROVE  Halved(c, age + m) <= Halved(e, since + n)
<1>1. Halved(c, age) \in 0 .. Full /\ Halved(e, since) \in 0 .. Full
  BY HalvedFalls
<1>2. Halved(Halved(c, age), m) <= Halved(Halved(c, age), n)
  BY <1>1, HalvedOlder
<1>3. Halved(Halved(c, age), n) <= Halved(Halved(e, since), n)
  BY <1>1, HalvedMonotone
<1>4. /\ Halved(Halved(c, age), m) = Halved(c, age + m)
      /\ Halved(Halved(e, since), n) = Halved(e, since + n)
  BY HalvedTwice
<1>5. /\ Halved(Halved(c, age), m) \in 0 .. Full /\ Halved(Halved(c, age), n) \in 0 .. Full
      /\ Halved(Halved(e, since), n) \in 0 .. Full
  BY <1>1, HalvedFalls
<1> QED
  BY <1>2, <1>3, <1>4, <1>5

\* The age of an estimate in memory.
LEMMA AgeValue ==
    ASSUME TypeInv, running, NEW l \in Link
    PROVE  LET c == capacity[l]
           IN  /\ c.confidence \in 0 .. Full
               /\ c.measured_at = None => AgeOf(c) = None /\ decay_confidence(c, Now) = 0
               /\ c.measured_at # None =>
                     /\ c.measured_at \in Int /\ AgeOf(c) = Now - c.measured_at
                     /\ AgeOf(c) \in Nat /\ AgeOf(c) # None
                     /\ decay_confidence(c, Now) = Halved(c.confidence, AgeOf(c))
<1> DEFINE c == capacity[l]
<1>1. c \in Estimate /\ Now \in Int /\ (c.measured_at = None \/ c.measured_at <= Now)
  BY DEF TypeInv, Now
<1> HIDE DEF c
<1>2. c.confidence \in 0 .. Full
  BY <1>1 DEF Estimate
<1>3. c.measured_at = None => AgeOf(c) = None /\ decay_confidence(c, Now) = 0
  BY DEF AgeOf, decay_confidence
<1>4. ASSUME c.measured_at # None
      PROVE  /\ c.measured_at \in Int /\ AgeOf(c) = Now - c.measured_at
             /\ AgeOf(c) \in Nat /\ AgeOf(c) # None
             /\ decay_confidence(c, Now) = Halved(c.confidence, AgeOf(c))
  <2>1. c.measured_at \in Int
    BY <1>1, <1>4 DEF Estimate
  <2>2. Now - c.measured_at \in Nat /\ AgeOf(c) = Now - c.measured_at
    BY <1>1, <1>4, <2>1, MaxWithZero DEF AgeOf
  <2>3. decay_confidence(c, Now) = Halved(c.confidence, Now - c.measured_at)
    BY <1>1, <1>4, DecayValue
  <2> QED
    BY <2>1, <2>2, <2>3, EstimatorAssumption
<1> QED
  BY <1>2, <1>3, <1>4 DEF c

LEMMA HonestInit == Init => HonestInv
BY DEF Init, HonestInv, Covered, Unknown

\* fold() takes from a confidence, or earns it anew.
LEMMA MediumHonest ==
    ASSUME TypeInv, TypeInv', HonestInv, NEW S \in SUBSET Link, MediumLoop(S), NEW l \in Link
    PROVE  Covered(capacity'[l].confidence, AgeOf(capacity[l])', truth'[l], real - truth'[l].at)
<1>1. running /\ running' /\ Now' = Now /\ real' = real
  BY DEF MediumLoop, clocks, Now
<1>2. Covered(capacity[l].confidence, AgeOf(capacity[l]), truth[l], real - truth[l].at)
  BY <1>1 DEF HonestInv
<1>3. /\ capacity[l] \in Estimate
      /\ truth[l] = None \/ (truth[l] \in Earned /\ truth[l].at <= real)
      /\ real \in Nat /\ Now \in Int
  BY DEF TypeInv, Now
<1>4. CASE truth'[l] = truth[l] /\ capacity'[l] = capacity[l]
  <2>1. AgeOf(capacity[l])' = AgeOf(capacity[l])
    BY <1>1, <1>4 DEF AgeOf
  <2> QED
    BY <1>2, <1>4, <2>1
<1>5. CASE /\ truth'[l] = truth[l]
           /\ capacity'[l] = fold(capacity[l], Throughput(counter[IfaceOf[l]], last[l], Now), FALSE, Now)
  <2> DEFINE c == capacity[l]
  <2>1. capacity'[l] = [c EXCEPT !.confidence = decay_confidence(c, Now)]
    BY <1>5 DEF fold
  <2>2. /\ capacity'[l].confidence = decay_confidence(c, Now)
        /\ capacity'[l].measured_at = c.measured_at
    BY <1>3, <2>1 DEF Estimate
  <2>3. AgeOf(capacity[l])' = AgeOf(c)
    BY <1>1, <2>2 DEF AgeOf
  <2>4. CASE c.measured_at = None
    <3>1. decay_confidence(c, Now) = 0 /\ AgeOf(c) = None
      BY <1>1, <2>4, AgeValue
    <3> QED
      BY <1>5, <2>2, <2>3, <3>1 DEF Covered
  <2>5. CASE c.measured_at # None
    <3>1. /\ c.confidence \in 0 .. Full /\ AgeOf(c) \in Nat /\ AgeOf(c) # None
          /\ decay_confidence(c, Now) = Halved(c.confidence, AgeOf(c))
      BY <1>1, <2>5, AgeValue
    <3>2. Halved(c.confidence, AgeOf(c)) \in 0 .. Full
          /\ Halved(c.confidence, AgeOf(c)) <= c.confidence
      BY <3>1, HalvedFalls
    <3>3. /\ Halved(Halved(c.confidence, AgeOf(c)), AgeOf(c)) <= Halved(c.confidence, AgeOf(c))
          /\ Halved(Halved(c.confidence, AgeOf(c)), AgeOf(c)) \in 0 .. Full
      BY <3>1, <3>2, HalvedFalls
    <3>4. CASE truth[l] = None
      <4>1. c.confidence = 0
        BY <1>2, <3>4 DEF Covered
      <4>2. decay_confidence(c, Now) = 0
        BY <3>1, <3>2, <4>1
      <4> QED
        BY <1>5, <2>2, <3>4, <4>2 DEF Covered
    <3>5. CASE truth[l] # None /\ truth[l].doubtful
      BY <1>5, <3>5 DEF Covered
    <3>6. CASE truth[l] # None /\ ~ truth[l].doubtful
      <4>1. Halved(c.confidence, AgeOf(c)) <= Halved(truth[l].confidence, real - truth[l].at)
        BY <1>2, <3>1, <3>6 DEF Covered
      <4>2. Halved(truth[l].confidence, real - truth[l].at) \in 0 .. Full
        <5>1. truth[l].confidence \in 0 .. Full /\ real - truth[l].at \in Nat
          BY <1>3, <3>6 DEF Earned
        <5> QED
          BY <5>1, HalvedFalls
      <4>3. Halved(capacity'[l].confidence, AgeOf(c)) <= Halved(truth[l].confidence, real - truth[l].at)
        BY <2>2, <3>1, <3>2, <3>3, <4>1, <4>2
      <4> QED
        BY <1>5, <2>3, <3>6, <4>3 DEF Covered
    <3> QED
      BY <3>4, <3>5, <3>6
  <2> QED
    BY <2>4, <2>5
<1>6. CASE /\ Usable(last[l])
           /\ truth'[l] = [at |-> real, confidence |-> capacity'[l].confidence, doubtful |-> FALSE]
           /\ capacity'[l] = fold(capacity[l], Throughput(counter[IfaceOf[l]], last[l], Now), TRUE, Now)
  <2>1. capacity'[l].measured_at = Now
    BY <1>6 DEF fold
  <2>2. Now # None /\ capacity'[l].confidence \in 0 .. Full
    BY <1>3, EstimatorAssumption DEF TypeInv, Estimate
  <2>3. AgeOf(capacity[l])' = 0
    BY <1>1, <1>3, <2>1, <2>2, MaxWithZero DEF AgeOf
  <2>4. truth'[l] \in Earned /\ truth'[l].at = real /\ truth'[l].confidence = capacity'[l].confidence
    <3> DEFINE c == capacity'[l].confidence
    <3>1. truth'[l] = [at |-> real, confidence |-> c, doubtful |-> FALSE]
      BY <1>6, Zenon
    <3>2. c \in 0 .. Full
      BY <2>2
    <3> HIDE DEF c
    <3>3. truth'[l] \in Earned /\ truth'[l].at = real /\ truth'[l].confidence = c
      BY <1>3, <3>1, <3>2, EarnedNow
    <3> QED
      BY <3>3 DEF c
  <2>5. truth'[l] # None /\ real - truth'[l].at = 0
    BY <1>3, <2>4, EstimatorAssumption
  <2>6. Halved(capacity'[l].confidence, 0) \in 0 .. Full
    BY <2>2, HalvedFalls
  <2> QED
    BY <2>3, <2>4, <2>5, <2>6 DEF Covered
<1> QED
  BY <1>4, <1>5, <1>6, MediumEstimate

\* A restart adds what the wall clock says has passed to the age that was written.
LEMMA LoadedHonest ==
    ASSUME TypeInv, TypeInv', RowsInv, HonestInv, Start, NEW l \in Link
    PROVE  Covered(capacity'[l].confidence, AgeOf(capacity[l])', truth'[l], real - truth'[l].at)
<1>1. Now' = Now /\ real' = real /\ running'
  BY DEF Start, Now, clocks
<1>2. CASE file = None
  <2>1. truth'[l] = None /\ capacity'[l].confidence = 0
    BY <1>2, LoadedEstimate DEF Unknown
  <2> QED
    BY <2>1 DEF Covered
<1>3. CASE file # None
  <2> DEFINE row == file.rows[l]
             e   == file.truth[l]
  <2>1. /\ Elapsed \in Nat /\ capacity'[l].confidence = row.confidence
        /\ row.age = None => capacity'[l].measured_at = None
        /\ row.age # None => capacity'[l].measured_at = Now - (row.age + Elapsed)
    BY <1>3, LoadedEstimate
  <2>2. /\ e = None => truth'[l] = None
        /\ e # None => /\ truth'[l] \in Earned /\ truth'[l].at = e.at
                       /\ truth'[l].confidence = e.confidence
                       /\ ~ truth'[l].doubtful => ~ e.doubtful /\ Elapsed >= real - file.at
    BY <1>3, LoadedEstimate
  <2>3. Covered(row.confidence, row.age, e, file.at - e.at)
    BY <1>3 DEF HonestInv
  <2>4. /\ row.confidence \in 0 .. Full /\ row.age \in Nat \union {None}
        /\ file.at \in Nat /\ file.at <= real /\ real \in Nat /\ Now \in Int
        /\ e = None \/ (e \in Earned /\ e.at <= file.at)
    BY <1>3 DEF RowsInv, FileRow, TypeInv, Now
  <2> HIDE DEF row, e
  <2>5. CASE e = None
    BY <2>1, <2>2, <2>3, <2>5 DEF Covered
  <2>6. CASE e # None /\ row.age = None
    <3>1. AgeOf(capacity[l])' = None
      BY <2>1, <2>6 DEF AgeOf
    <3> QED
      BY <2>2, <2>6, <3>1, EstimatorAssumption DEF Covered
  <2>7. CASE e # None /\ row.age # None
    <3>1. AgeOf(capacity[l])' = row.age + Elapsed
      <4>1. Now - (row.age + Elapsed) \in Int /\ Now - (Now - (row.age + Elapsed)) = row.age + Elapsed
            /\ row.age + Elapsed \in Nat
        BY <2>1, <2>4, <2>7
      <4>2. Now - (row.age + Elapsed) # None
        BY <4>1, EstimatorAssumption
      <4> QED
        BY <1>1, <2>1, <2>7, <4>1, <4>2, MaxWithZero DEF AgeOf
    <3>2. truth'[l] # None
      BY <2>2, <2>7, EstimatorAssumption
    <3>3. CASE truth'[l].doubtful
      BY <3>2, <3>3 DEF Covered
    <3>4. CASE ~ truth'[l].doubtful
      <4>1. ~ e.doubtful /\ Elapsed >= real - file.at /\ truth'[l].at = e.at
            /\ truth'[l].confidence = e.confidence
        BY <2>2, <2>7, <3>4
      <4>2. Halved(row.confidence, row.age) <= Halved(e.confidence, file.at - e.at)
        BY <2>3, <2>7, <4>1 DEF Covered
      <4>3. e.confidence \in 0 .. Full /\ e.at \in Nat /\ file.at - e.at \in Nat
        BY <2>4, <2>7 DEF Earned
      <4>4. real - file.at \in Nat /\ (file.at - e.at) + (real - file.at) = real - e.at
        BY <2>4, <4>3
      <4>5. Halved(row.confidence, row.age + Elapsed)
               <= Halved(e.confidence, (file.at - e.at) + (real - file.at))
        <5>1. row.age \in Nat
          BY <2>4, <2>7
        <5> QED
          BY <2>1, <2>4, <4>1, <4>2, <4>3, <4>4, <5>1, HalvedLater
      <4> QED
        BY <2>1, <3>1, <3>2, <4>1, <4>4, <4>5 DEF Covered
    <3> QED
      BY <3>3, <3>4
  <2> QED
    BY <2>5, <2>6, <2>7
<1> QED
  BY <1>2, <1>3

LEMMA HonestStep ==
    TypeInv /\ TypeInv' /\ RowsInv /\ HonestInv /\ [Next]_vars => HonestInv'
<1> SUFFICES ASSUME TypeInv, TypeInv', RowsInv, HonestInv, [Next]_vars PROVE HonestInv'
  OBVIOUS
<1>1. ASSUME UNCHANGED <<real, boot, capacity, truth, file>>, running' => running PROVE HonestInv'
  BY <1>1 DEF HonestInv, AgeOf, Now
<1>2. ASSUME NEW S \in SUBSET Link, MediumLoop(S) PROVE HonestInv'
  <2>1. UNCHANGED <<real, file>>
    BY <1>2 DEF MediumLoop, clocks
  <2> QED
    BY <1>2, <2>1, MediumHonest DEF HonestInv
<1>3. ASSUME NEW S \in SUBSET Link, Advance(S) PROVE HonestInv'
  <2>1. real' = real + 1 /\ Now' = Now + 1 /\ UNCHANGED <<running, capacity, truth, file>>
        /\ real \in Nat /\ Now \in Int
    BY <1>3 DEF Advance, memory, Now, TypeInv
  <2>2. ASSUME running, NEW l \in Link
        PROVE  Covered(capacity[l].confidence, AgeOf(capacity[l])', truth[l], real' - truth[l].at)
    <3> DEFINE c == capacity[l]
    <3>1. Covered(c.confidence, AgeOf(c), truth[l], real - truth[l].at)
      BY <2>2 DEF HonestInv
    <3>2. CASE truth[l] = None
      BY <3>1, <3>2 DEF Covered
    <3>3. CASE truth[l] # None /\ c.measured_at = None
      <4>1. AgeOf(c)' = None
        BY <2>1, <3>3 DEF AgeOf
      <4> QED
        BY <3>3, <4>1 DEF Covered
    <3>4. CASE truth[l] # None /\ c.measured_at # None
      <4>1. /\ c.confidence \in 0 .. Full /\ AgeOf(c) = Now - c.measured_at
            /\ AgeOf(c) \in Nat /\ AgeOf(c) # None /\ c.measured_at \in Int
        BY <2>2, <3>4, AgeValue
      <4>2. AgeOf(c)' = AgeOf(c) + 1
        <5>1. Now' - c.measured_at = AgeOf(c) + 1 /\ Now' - c.measured_at \in Nat
          BY <2>1, <4>1
        <5>2. Max({0, Now' - c.measured_at}) = AgeOf(c) + 1
          BY <5>1, <4>1, MaxWithZero
        <5>3. AgeOf(c)' = Max({0, Now' - c.measured_at})
          BY <2>1, <3>4 DEF AgeOf
        <5> QED
          BY <5>2, <5>3
      <4>3. /\ truth[l].confidence \in 0 .. Full /\ real - truth[l].at \in Nat
            /\ real' - truth[l].at = (real - truth[l].at) + 1
        BY <2>1, <3>4 DEF TypeInv, Earned
      <4>4. CASE truth[l].doubtful
        BY <3>4, <4>4 DEF Covered
      <4>5. CASE ~ truth[l].doubtful
        <5>1. Halved(c.confidence, AgeOf(c)) <= Halved(truth[l].confidence, real - truth[l].at)
          BY <3>1, <3>4, <4>1, <4>5 DEF Covered
        <5>2. Halved(c.confidence, AgeOf(c) + 1) <= Halved(truth[l].confidence, (real - truth[l].at) + 1)
          <6>1. /\ Halved(c.confidence, AgeOf(c)) \in 0 .. Full
                /\ Halved(truth[l].confidence, real - truth[l].at) \in 0 .. Full
            BY <4>1, <4>3, HalvedFalls
          <6>2. /\ Halved(c.confidence, AgeOf(c) + 1) = Halved(c.confidence, AgeOf(c)) \div 2
                /\ Halved(truth[l].confidence, (real - truth[l].at) + 1)
                      = Halved(truth[l].confidence, real - truth[l].at) \div 2
            BY <4>1, <4>3, HalvedAgain
          <6> QED
            BY <5>1, <6>1, <6>2
        <5> QED
          BY <3>4, <4>2, <4>3, <5>2 DEF Covered
      <4> QED
        BY <4>4, <4>5
    <3> QED
      BY <3>2, <3>3, <3>4
  <2> QED
    BY <2>1, <2>2 DEF HonestInv
<1>4. CASE Start
  <2>1. UNCHANGED <<real, file>>
    BY <1>4 DEF Start, clocks
  <2> QED
    BY <1>4, <2>1, LoadedHonest DEF HonestInv
<1>5. CASE Persist
  <2>1. /\ UNCHANGED <<running, real, boot, capacity, truth>> /\ running
        /\ file'.at = real /\ file'.truth = truth
        /\ \A l \in Link : /\ file'.rows[l].confidence = capacity[l].confidence
                           /\ file'.rows[l].age = AgeOf(capacity[l])
    BY <1>5 DEF Persist, clocks, memory
  <2>2. \A l \in Link : AgeOf(capacity[l])' = AgeOf(capacity[l])
    BY <2>1 DEF AgeOf, Now
  <2> QED
    BY <2>1, <2>2 DEF HonestInv
<1>6. CASE Scan \/ UNCHANGED vars
  BY <1>1, <1>6 DEF Scan, vars, clocks, memory
<1>7. ASSUME NEW i \in Iface, NEW l \in Link \union {None}, Move(i, l) PROVE HonestInv'
  BY <1>1, <1>7 DEF Move, clocks, memory
<1>8. ASSUME NEW z \in Skews, SetClock(z) PROVE HonestInv'
  BY <1>1, <1>8 DEF SetClock, memory
<1>9. ASSUME NEW reboot \in BOOLEAN, Crash(reboot) PROVE HonestInv'
  BY <1>9 DEF Crash, memory, HonestInv
<1> QED
  BY <1>2, <1>3, <1>4, <1>5, <1>6, <1>7, <1>8, <1>9 DEF Next

\* The allocator never reads a confidence beyond what the last busy window earned,
\* halved with every half-life of real time since: a quiet window only takes from
\* it, persist() writes ages instead of a clock's readings, and _load() adds to
\* them. Only a wall clock that lost time while the daemon was down makes an
\* estimate look younger.
THEOREM TrustFades == Spec => []ConfidenceIsHonest
<1>1. TypeInv /\ HonestInv => ConfidenceIsHonest
  <2> SUFFICES ASSUME TypeInv, HonestInv, running, NEW l \in Link
               PROVE  IF truth[l] = None THEN decay_confidence(capacity[l], Now) = 0
                      ELSE truth[l].doubtful \/
                           decay_confidence(capacity[l], Now)
                              <= Halved(truth[l].confidence, real - truth[l].at)
    BY DEF ConfidenceIsHonest
  <2> DEFINE c == capacity[l]
  <2>1. Covered(c.confidence, AgeOf(c), truth[l], real - truth[l].at)
    BY DEF HonestInv
  <2>2. /\ c.confidence \in 0 .. Full
        /\ c.measured_at = None => AgeOf(c) = None /\ decay_confidence(c, Now) = 0
        /\ c.measured_at # None => /\ AgeOf(c) \in Nat /\ AgeOf(c) # None
                                   /\ decay_confidence(c, Now) = Halved(c.confidence, AgeOf(c))
    BY AgeValue
  <2>3. CASE truth[l] = None
    <3>1. c.confidence = 0
      BY <2>1, <2>3 DEF Covered
    <3>2. decay_confidence(c, Now) = 0
      BY <3>1 DEF decay_confidence, Known
    <3> QED
      BY <2>3, <3>2
  <2>4. CASE truth[l] # None /\ c.measured_at = None
    <3>1. truth[l].confidence \in 0 .. Full /\ real - truth[l].at \in Nat
      BY <2>4 DEF TypeInv, Earned
    <3>2. Halved(truth[l].confidence, real - truth[l].at) \in 0 .. Full
      BY <3>1, HalvedFalls
    <3> QED
      BY <2>2, <2>4, <3>2
  <2>5. CASE truth[l] # None /\ c.measured_at # None
    BY <2>1, <2>2, <2>5 DEF Covered
  <2> QED
    BY <2>3, <2>4, <2>5
<1> QED
  BY <1>1, TypeInit, TypeStep, RowsStep, HonestInit, HonestStep, PTL DEF Spec

\* Every variable keeps its shape, and an estimate with a confidence has a time of
\* measurement, in memory and after any restart.
THEOREM TypeCorrect == Spec => []TypeOK
<1>1. TypeInv /\ running \in BOOLEAN => TypeOK
  BY DEF TypeInv, TypeOK
<1> QED
  BY <1>1, TypeInit, TypeStep, RowsStep, RunningType, PTL DEF Spec

-----------------------------------------------------------------------------
(* Throughput *)

\* What a counter gains in a unit of time is within the rate.
LEMMA WithinLater ==
    ASSUME NEW bytes \in Nat, NEW gain \in Nat, NEW read \in Nat, NEW rate \in Nat,
           NEW span \in Nat, gain <= rate, bytes - read <= rate * span
    PROVE  (bytes + gain) - read <= rate * (span + 1)
<1>1. rate * (span + 1) = rate * span + rate /\ rate * span \in Nat
  OBVIOUS
<1> QED
  BY <1>1

\* An interface of its own carries its connection or nothing.
LEMMA CarriedAlone ==
    ASSUME TypeInv, NEW S \in SUBSET Link, NEW l \in Link, Alone(l)
    PROVE  Carried(on[IfaceOf[l]], S) \in 0 .. Rate[l]
<1>1. IfaceOf[l] \in Iface /\ Rate[l] \in Nat
  BY EstimatorAssumption
<1>2. on[IfaceOf[l]] \in Link \union {None}
      /\ (on[IfaceOf[l]] = None \/ IfaceOf[on[IfaceOf[l]]] = IfaceOf[l])
  BY <1>1 DEF TypeInv, Placed
<1>3. on[IfaceOf[l]] = None \/ on[IfaceOf[l]] = l
  BY <1>2 DEF Alone
<1> QED
  BY <1>1, <1>3, EstimatorAssumption DEF Carried

\* A reading that was taken just now has seen every byte.
LEMMA WithinNow ==
    ASSUME NEW bytes \in Nat, NEW rate \in Nat, NEW t \in Int
    PROVE  bytes - bytes <= rate * (t - t)
OBVIOUS

LEMMA FloorInit == Init => FloorInv
BY SumAssumption, EstimatorAssumption DEF Init, FloorInv, Within, Unknown

\* fold() averages what is within the rate.
LEMMA MediumFloor ==
    ASSUME TypeInv, FloorInv, NEW S \in SUBSET Link, MediumLoop(S), NEW l \in Link, Alone(l)
    PROVE  capacity'[l].bps <= Rate[l]
<1> DEFINE bps == Throughput(counter[IfaceOf[l]], last[l], Now)
<1>1. running /\ capacity[l].bps <= Rate[l] /\ Rate[l] \in Nat /\ capacity[l] \in Estimate
  BY EstimatorAssumption DEF MediumLoop, FloorInv, TypeInv
<1>2. CASE capacity'[l] = capacity[l]
  BY <1>1, <1>2
<1>3. ASSUME Usable(last[l]), NEW sat \in BOOLEAN, capacity'[l] = fold(capacity[l], bps, sat, Now)
      PROVE  capacity'[l].bps <= Rate[l]
  <2>1. /\ last[l] \in Reading /\ Now - last[l].at \in Nat \ {0} /\ counter[IfaceOf[l]] \in Nat
        /\ last[l] # None
    BY <1>3, ThroughputType DEF Usable
  <2>2. counter[IfaceOf[l]] - last[l].bytes <= Rate[l] * (Now - last[l].at)
    BY <1>1, <2>1 DEF FloorInv, Within
  <2>3. counter[IfaceOf[l]] - last[l].bytes \in Int
    BY <2>1 DEF Reading
  <2>4. bps \in 0 .. Rate[l]
    BY <1>1, <2>1, <2>2, <2>3, RateBound DEF Throughput
  <2> HIDE DEF bps
  <2>5. CASE ~ sat
    BY <1>1, <1>3, <2>5 DEF fold, Estimate
  <2>6. CASE sat
    <3>1. capacity'[l].bps = Ewma(capacity[l].bps, bps, decay_confidence(capacity[l], Now))
      BY <1>3, <2>6 DEF fold
    <3>2. capacity[l].bps \in Nat /\ bps \in Nat /\ bps <= Rate[l]
      BY <1>1, <2>4 DEF Estimate
    <3> QED
      BY <1>1, <3>1, <3>2, EwmaBound
  <2> QED
    BY <2>5, <2>6
<1> QED
  BY <1>2, <1>3, MediumEstimate

LEMMA FloorStep ==
    TypeInv /\ TypeInv' /\ RowsInv /\ FloorInv /\ [Next]_vars => FloorInv'
<1> SUFFICES ASSUME TypeInv, TypeInv', RowsInv, FloorInv, [Next]_vars PROVE FloorInv'
  OBVIOUS
<1> USE EstimatorAssumption, SumAssumption
<1>1. ASSUME UNCHANGED <<real, boot, counter, lan, last, lastLan, capacity, demand, file, running>>
      PROVE  FloorInv'
  BY <1>1 DEF FloorInv, Within, Now
<1>2. ASSUME NEW S \in SUBSET Link, MediumLoop(S) PROVE FloorInv'
  <2>1. UNCHANGED <<real, boot, counter, lan, file, running>> /\ Now' = Now /\ running
    BY <1>2 DEF MediumLoop, clocks, world, Now
  <2>2. Now \in Int /\ lan \in Nat /\ \A l \in Link : counter[IfaceOf[l]] \in Nat /\ Rate[l] \in Nat
    BY DEF TypeInv, Now
  <2>3. ASSUME NEW l \in Link, Alone(l) PROVE Within(counter[IfaceOf[l]], last[l], Rate[l])'
    <3>1. CASE last'[l] = last[l]
      BY <2>1, <2>3, <3>1 DEF FloorInv, Within
    <3>2. CASE last'[l] = [at |-> Now, bytes |-> counter[IfaceOf[l]]]
      <4>1. last'[l].at = Now /\ last'[l].bytes = counter[IfaceOf[l]]
        BY <3>2
      <4>2. counter[IfaceOf[l]] - counter[IfaceOf[l]] <= Rate[l] * (Now - Now)
        BY <2>2, WithinNow
      <4> QED
        BY <2>1, <2>2, <4>1, <4>2 DEF Within
    <3> QED
      BY <1>2, <3>1, <3>2, MediumEstimate
  <2>4. Within(lan, lastLan, TotalRate)'
    <3>1. lastLan'.at = Now /\ lastLan'.bytes = lan
      BY <1>2 DEF MediumLoop
    <3>2. lan - lan <= TotalRate * (Now - Now)
      BY <2>2, WithinNow
    <3> QED
      BY <2>1, <2>2, <3>1, <3>2 DEF Within
  <2>5. demand' <= TotalRate
    <3>1. demand' = Sampled
      BY <1>2 DEF MediumLoop
    <3>2. CASE ~ Usable(lastLan)
      BY <3>1, <3>2 DEF Sampled
    <3>3. CASE Usable(lastLan)
      <4>1. lastLan \in Reading /\ Now - lastLan.at \in Nat \ {0} /\ lastLan # None
        BY <3>3, SampledType DEF Usable
      <4>2. lan - lastLan.bytes <= TotalRate * (Now - lastLan.at)
        BY <2>1, <4>1 DEF FloorInv, Within
      <4>3. lan - lastLan.bytes \in Int
        BY <2>2, <4>1 DEF Reading
      <4>4. Max({0, lan - lastLan.bytes}) \div (Now - lastLan.at) \in 0 .. TotalRate
        BY <4>1, <4>2, <4>3, RateBound
      <4> QED
        BY <3>1, <3>3, <4>4 DEF Sampled, Throughput
    <3> QED
      BY <3>2, <3>3
  <2> QED
    BY <1>2, <2>1, <2>3, <2>4, <2>5, MediumFloor DEF FloorInv
<1>3. ASSUME NEW S \in SUBSET Link, Advance(S) PROVE FloorInv'
  <2>1. /\ UNCHANGED <<running, capacity, file, demand, last, lastLan>>
        /\ Now' = Now + 1 /\ Now \in Int
        /\ \A l \in Link : counter'[IfaceOf[l]] = counter[IfaceOf[l]] + Carried(on[IfaceOf[l]], S)
        /\ lan' = lan + Delivered(on, S)
    BY <1>3 DEF Advance, memory, Now, TypeInv
  <2>2. ASSUME running, NEW l \in Link, Alone(l) PROVE Within(counter[IfaceOf[l]], last[l], Rate[l])'
    <3>1. CASE last[l] = None
      BY <2>1, <3>1 DEF Within
    <3>2. CASE last[l] # None
      <4>1. /\ last[l].at \in Int /\ last[l].bytes \in Nat
            /\ counter[IfaceOf[l]] \in Nat /\ Rate[l] \in Nat
        BY <3>2 DEF TypeInv, Reading
      <4>2. /\ last[l].at <= Now
            /\ counter[IfaceOf[l]] - last[l].bytes <= Rate[l] * (Now - last[l].at)
        BY <2>2, <3>2 DEF FloorInv, Within
      <4>3. Carried(on[IfaceOf[l]], S) \in Nat /\ Carried(on[IfaceOf[l]], S) <= Rate[l]
        BY <2>2, <4>1, CarriedAlone
      <4>4. Now - last[l].at \in Nat /\ (Now - last[l].at) + 1 = (Now + 1) - last[l].at
        BY <2>1, <4>1, <4>2
      <4>5. (counter[IfaceOf[l]] + Carried(on[IfaceOf[l]], S)) - last[l].bytes
               <= Rate[l] * ((Now - last[l].at) + 1)
        BY <4>1, <4>2, <4>3, <4>4, WithinLater
      <4> QED
        BY <2>1, <4>1, <4>2, <4>4, <4>5 DEF Within
    <3> QED
      BY <3>1, <3>2
  <2>3. ASSUME running PROVE Within(lan, lastLan, TotalRate)'
    <3>1. CASE lastLan = None
      BY <2>1, <3>1 DEF Within
    <3>2. CASE lastLan # None
      <4>1. lastLan.at \in Int /\ lastLan.bytes \in Nat /\ lan \in Nat
        BY <3>2 DEF TypeInv, Reading
      <4>2. lastLan.at <= Now /\ lan - lastLan.bytes <= TotalRate * (Now - lastLan.at)
        BY <2>3, <3>2 DEF FloorInv, Within
      <4>3. Delivered(on, S) \in Nat /\ Delivered(on, S) <= TotalRate
        <5>1. Delivered(on, S) \in 0 .. TotalRate
          BY DEF TypeInv
        <5> QED
          BY <5>1
      <4>4. Now - lastLan.at \in Nat /\ (Now - lastLan.at) + 1 = (Now + 1) - lastLan.at
        BY <2>1, <4>1, <4>2
      <4>5. (lan + Delivered(on, S)) - lastLan.bytes <= TotalRate * ((Now - lastLan.at) + 1)
        BY <4>1, <4>2, <4>3, <4>4, WithinLater
      <4> QED
        BY <2>1, <4>1, <4>2, <4>4, <4>5 DEF Within
    <3> QED
      BY <3>1, <3>2
  <2> QED
    BY <2>1, <2>2, <2>3 DEF FloorInv
<1>4. CASE Start
  <2>1. UNCHANGED file /\ lastLan' = None /\ demand' = 0 /\ \A l \in Link : last'[l] = None
    BY <1>4 DEF Start
  <2>2. ASSUME NEW l \in Link, Alone(l) PROVE capacity'[l].bps <= Rate[l]
    BY <1>4, <2>2, LoadedEstimate DEF FloorInv, Unknown
  <2> QED
    BY <2>1, <2>2 DEF FloorInv, Within
<1>5. CASE Persist
  <2>1. /\ UNCHANGED <<real, boot, counter, lan, last, lastLan, capacity, demand, running>>
        /\ \A l \in Link : file'.rows[l].bps = capacity[l].bps
    BY <1>5 DEF Persist, clocks, world, memory
  <2> QED
    BY <2>1 DEF FloorInv, Within, Now
<1>6. CASE Scan \/ UNCHANGED vars
  BY <1>1, <1>6 DEF Scan, vars, clocks, world, memory
<1>7. ASSUME NEW i \in Iface, NEW k \in Link \union {None}, Move(i, k) PROVE FloorInv'
  <2>1. /\ UNCHANGED <<real, boot, lan, last, lastLan, capacity, demand, file, running>>
        /\ counter' = [counter EXCEPT ![i] = IF i = Radio THEN counter[i] ELSE 0]
    BY <1>7 DEF Move, clocks, memory
  <2>2. ASSUME running, NEW l \in Link, Alone(l) PROVE Within(counter[IfaceOf[l]], last[l], Rate[l])'
    <3>1. counter'[IfaceOf[l]] = counter[IfaceOf[l]] \/ counter'[IfaceOf[l]] = 0
      BY <2>1 DEF TypeInv
    <3>2. Within(counter[IfaceOf[l]], last[l], Rate[l])
      BY <2>2 DEF FloorInv
    <3>3. ASSUME last[l] # None
          PROVE  /\ last[l].bytes \in Nat /\ counter[IfaceOf[l]] \in Nat
                 /\ counter'[IfaceOf[l]] <= counter[IfaceOf[l]] /\ counter'[IfaceOf[l]] \in Nat
                 /\ Rate[l] * (Now - last[l].at) \in Int
      BY <3>1, <3>3 DEF TypeInv, Reading, Now
    <3> QED
      BY <2>1, <3>2, <3>3 DEF Within, Now
  <2> QED
    BY <2>1, <2>2 DEF FloorInv, Within, Now
<1>8. ASSUME NEW z \in Skews, SetClock(z) PROVE FloorInv'
  BY <1>1, <1>8 DEF SetClock, world, memory
<1>9. ASSUME NEW reboot \in BOOLEAN, Crash(reboot) PROVE FloorInv'
  BY <1>9 DEF Crash, memory, FloorInv
<1> QED
  BY <1>2, <1>3, <1>4, <1>5, <1>6, <1>7, <1>8, <1>9 DEF Next

\* No estimate exceeds what its connection carries and no demand what all carry
\* together, for any rates, through resets of the counters, unplugging, quiet
\* windows and restarts: a process begins without readings, and a counter that
\* went back counts as nothing.
THEOREM FloorHolds == Spec => []EstimateIsAFloor
<1>1. FloorInv => EstimateIsAFloor
  BY DEF FloorInv, EstimateIsAFloor, Alone
<1> QED
  BY <1>1, TypeInit, TypeStep, RowsStep, FloorInit, FloorStep, PTL DEF Spec
=============================================================================
