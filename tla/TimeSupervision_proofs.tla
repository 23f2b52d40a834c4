-------------------------- MODULE TimeSupervision_proofs --------------------------
(***************************************************************************)
(* What holds of the mutual supervision of time and temperature for every  *)
(* value of its constants: both controllers conclude the same, and clocks   *)
(* within the tolerances never cause an alarm.                             *)
(***************************************************************************)
EXTENDS TimeSupervision, SequenceTheorems, TLAPS

\* The values of the variables.
TypeInv ==
  /\ phase \in {2, 3, 10, 11, 18, 19}
  /\ done \subseteq C
  /\ time \in [C -> 0 .. Wrap - 1] /\ rate \in [C -> Rates]
  /\ curr \in [C -> 0 .. Wrap - 1]
  /\ local \in [C -> 0 .. Wrap - 1] /\ remote \in [C -> 0 .. Wrap - 1]
  /\ first \in [C -> BOOLEAN]
  /\ start \in [C -> 0 .. Wrap - 1] /\ diff \in [C -> 0 .. Wrap - 1]
  /\ results \in [C -> [1 .. FilterSize -> BOOLEAN]]
  /\ own \in [C -> {"NONE", "PASSED", "FAILED"}]
  /\ failSafe \in [C -> {"none", "APPL_TIMER_DEV_ERR", "TEMPERATURE_ERR", "CLK_CTRL"}]
  /\ off \in BOOLEAN
  /\ hot \in [C -> 0 .. Threshold]

\* A controller stops in the slices that compare, once it has executed them.
StopInv == \A c \in C : failSafe[c] # "none" => phase \in {3, 11, 19} /\ c \in done

\* A clock that is tolerable counts in the limits of a cycle.
RateInv == ~off => Tolerable(rate[C1], rate[C2])

\* Controller c has the times of this cycle.
HasTimes(c) == local[c] = time[c] /\ remote[c] = time[Peer(c)] /\ ~first[c]

\* Both controllers send and keep the times of the same cycle, and until
\* slice 3 compares them they have them from the cycle before.
TimeInv ==
  /\ \A c \in C : phase # 2 \/ c \in done => curr[c] = time[c]
  /\ phase \notin {2, 3} => \A c \in C : HasTimes(c)
  /\ phase = 3 => \A c \in done : Running(c) => HasTimes(c)
InTimeInv ==
  ~off => \A c \in C : phase = 2 \/ (phase = 3 /\ c \notin done) =>
    first[c] \/ (InTime(time[Peer(c)], remote[c]) /\ InTime(time[c], local[c]))

\* The time since the last comparison of the clocks.
Elapsed(c) == (time[c] - start[c]) % Wrap
\* Two elapsed times that do not deviate; the controllers have started one
\* after the other.
Close(a, b) == (a <= 1 /\ b <= 1) \/ ~Deviates(a, b)
\* Both controllers compare in this cycle.
Compare == diff[C1] >= TimeDiff /\ diff[C2] >= TimeDiff
\* The elapsed times are sent as they are, and start anew in both controllers
\* when they have been compared.
ElapsedInv ==
  ~off =>
    /\ phase # 19 => Close(Elapsed(C1), Elapsed(C2))
    /\ phase = 18 => \A c \in done : diff[c] = Elapsed(c)
    /\ phase = 19 => Close(diff[C1], diff[C2])
    /\ phase = 19 => \A c \in C : Elapsed(c) = IF c \in done /\ Compare THEN 0 ELSE diff[c]

\* The failures counted are the newest results, and no older ones have met the
\* threshold.
HotInv ==
  \A c \in C :
    /\ \A i \in 1 .. hot[c] : results[c][i]
    /\ hot[c] < Threshold => ~results[c][hot[c] + 1] /\ ~TestFailed(results[c])
\* What slice 10 has concluded from them is compared in slice 11.
TempInv ==
  /\ \A c \in C : phase = 11 \/ (phase = 10 /\ c \in done) =>
       (own[c] = "FAILED" <=> hot[c] >= Threshold)
  /\ \A c \in C : phase \notin {10, 11} \/ (phase = 10 /\ c \notin done) => hot[c] < Threshold
  /\ phase = 11 => \A c \in done : failSafe[c] # "none" <=> TooHot(c)

\* The inductive invariant.
IInv ==
  /\ TypeInv /\ StopInv /\ RateInv /\ TimeInv /\ InTimeInv /\ ElapsedInv /\ HotInv /\ TempInv
  /\ NoFalseAlarm

-----------------------------------------------------------------------------
(* Timers and deviations *)

\* A timer that has wrapped around once.
LEMMA Modulo ==
  ASSUME NEW W \in Nat \ {0}, NEW x \in Int
  PROVE  /\ x \in 0 .. W - 1 => x % W = x
         /\ x \in W .. 2 * W - 1 => x % W = x - W
         /\ x \in -W .. -1 => x % W = x + W
         /\ x % W \in 0 .. W - 1
<1>1. PICK q \in Int : x = W * q + (x % W) /\ x % W \in 0 .. W - 1
  <2>1. x \div W \in Int /\ x % W \in 0 .. W - 1 /\ x = W * (x \div W) + (x % W)
    BY SMT
  <2> QED
    BY <2>1
<1>2. PICK m \in 0 .. W - 1 : m = x % W
  BY <1>1
<1>3. \A n \in Int : n >= 1 => W * n >= W
  BY SMT
<1>4. \A n \in Int : n <= -1 => W * n <= -W
  BY SMT
<1>5. \A n \in Int : n >= 2 => W * n >= 2 * W
  BY SMT
<1>6. \A n \in Int : n <= -2 => W * n <= -2 * W
  BY SMT
<1>7. ASSUME x \in 0 .. W - 1 PROVE m = x
  <2>1. q = 0
    BY <1>1, <1>2, <1>3, <1>4, <1>7
  <2> QED
    BY <1>1, <1>2, <2>1
<1>8. ASSUME x \in W .. 2 * W - 1 PROVE m = x - W
  <2>1. ~(q >= 2) /\ ~(q <= -1)
    BY <1>1, <1>2, <1>4, <1>5, <1>8
  <2>2. q # 0
    BY <1>1, <1>2, <1>8
  <2>3. q = 1
    BY <2>1, <2>2
  <2> QED
    BY <1>1, <1>2, <2>3
<1>9. ASSUME x \in -W .. -1 PROVE m = x + W
  <2>1. ~(q >= 1) /\ ~(q <= -2)
    BY <1>1, <1>2, <1>3, <1>6, <1>9
  <2>2. q # 0
    BY <1>1, <1>2, <1>9
  <2>3. q = -1
    BY <2>1, <2>2
  <2> QED
    BY <1>1, <1>2, <2>3
<1> QED
  BY <1>2, <1>7, <1>8, <1>9

\* The same, for all values of a timer.
LEMMA ModuloRanges ==
  ASSUME NEW W \in Nat \ {0}
  PROVE  /\ \A x \in 0 .. W - 1 : x % W = x
         /\ \A x \in W .. 2 * W - 1 : x % W = x - W
         /\ \A x \in -W .. -1 : x % W = x + W
<1>1. ASSUME NEW x \in 0 .. W - 1 PROVE x % W = x
  BY Modulo
<1>2. ASSUME NEW x \in W .. 2 * W - 1 PROVE x % W = x - W
  <2>1. x \in Int
    OBVIOUS
  <2> QED
    BY <2>1, Modulo
<1>3. ASSUME NEW x \in -W .. -1 PROVE x % W = x + W
  <2>1. x \in Int
    OBVIOUS
  <2> QED
    BY <2>1, Modulo
<1> QED
  BY <1>1, <1>2, <1>3

\* The time since an earlier one, as the timer goes on.
LEMMA TimerGoesOn ==
  ASSUME NEW W \in Nat \ {0}, NEW t \in 0 .. W - 1, NEW s \in 0 .. W - 1, NEW r \in Nat,
         ((t - s) % W) + r < W
  PROVE  (((t + r) % W) - s) % W = ((t - s) % W) + r
<1>0. /\ \A x \in 0 .. W - 1 : x % W = x
      /\ \A x \in W .. 2 * W - 1 : x % W = x - W
      /\ \A x \in -W .. -1 : x % W = x + W
  BY ModuloRanges
<1>1. PICK e \in 0 .. W - 1 : e = (t - s) % W
  BY Modulo
<1>2. e = IF s <= t THEN t - s ELSE t - s + W
  <2>1. CASE s <= t
    <3>1. t - s \in 0 .. W - 1
      BY <2>1
    <3> QED
      BY <1>1, <2>1, <3>1, <1>0
  <2>2. CASE ~(s <= t)
    <3>1. t - s \in -W .. -1
      BY <2>2
    <3> QED
      BY <1>1, <2>2, <3>1, <1>0
  <2> QED
    BY <2>1, <2>2
<1>3. PICK u \in 0 .. W - 1 : u = (t + r) % W
  BY Modulo
<1>4. e + r < W
  BY <1>1
<1>5. u = IF t + r < W THEN t + r ELSE t + r - W
  <2>1. CASE t + r < W
    <3>1. t + r \in 0 .. W - 1
      BY <2>1
    <3> QED
      BY <1>3, <2>1, <3>1, <1>0
  <2>2. CASE ~(t + r < W)
    <3>1. t + r \in W .. 2 * W - 1
      BY <1>2, <1>4, <2>2
    <3> QED
      BY <1>3, <2>2, <3>1, <1>0
  <2> QED
    BY <2>1, <2>2
<1>6. (u - s) % W = e + r
  <2>1. CASE s <= u
    <3>1. u - s \in 0 .. W - 1 /\ u - s = e + r
      BY <1>2, <1>4, <1>5, <2>1
    <3> QED
      BY <3>1, <1>0
  <2>2. CASE ~(s <= u)
    <3>1. u - s \in -W .. -1 /\ u - s + W = e + r
      BY <1>2, <1>4, <1>5, <2>2
    <3> QED
      BY <3>1, <1>0
  <2> QED
    BY <2>1, <2>2
<1> QED
  BY <1>1, <1>3, <1>6

\* A start that is set on by the elapsed time is the present time.
LEMMA TimerRestarts ==
  ASSUME NEW W \in Nat \ {0}, NEW t \in 0 .. W - 1, NEW s \in 0 .. W - 1
  PROVE  (s + ((t - s) % W)) % W = t
<1>0. /\ \A x \in 0 .. W - 1 : x % W = x
      /\ \A x \in W .. 2 * W - 1 : x % W = x - W
      /\ \A x \in -W .. -1 : x % W = x + W
  BY ModuloRanges
<1>1. CASE s <= t
  <2>1. t - s \in 0 .. W - 1
    BY <1>1
  <2>2. (t - s) % W = t - s
    BY <2>1, <1>0
  <2>3. t % W = t
    BY Modulo
  <2>4. s + (t - s) = t
    OBVIOUS
  <2> QED
    BY <2>2, <2>3, <2>4
<1>2. CASE ~(s <= t)
  <2>1. t - s \in -W .. -1
    BY <1>2
  <2>2. (t - s) % W = t - s + W
    BY <2>1, <1>0
  <2>3. t + W \in W .. 2 * W - 1
    OBVIOUS
  <2>4. (t + W) % W = t
    BY <2>3, <1>0
  <2>5. s + (t - s + W) = t + W
    OBVIOUS
  <2> QED
    BY <2>2, <2>4, <2>5
<1> QED
  BY <1>1, <1>2

\* The deviation that is tolerated grows at least as the times do.
LEMMA DeviationAdds ==
  ASSUME NEW D \in Nat \ {0}, NEW a \in Nat, NEW b \in Nat
  PROVE  /\ a \div D \in Nat /\ b \div D \in Nat /\ (a + b) \div D \in Nat
         /\ a \div D <= a
         /\ (a \div D) + (b \div D) <= (a + b) \div D
<1>1. \A x \in Nat : \E q \in Nat : q = x \div D /\ D * q <= x /\ x < D * (q + 1)
  <2> SUFFICES ASSUME NEW x \in Nat
               PROVE  \E q \in Nat : q = x \div D /\ D * q <= x /\ x < D * (q + 1)
    OBVIOUS
  <2>1. PICK q \in Int : q = x \div D
    BY SMT
  <2>2. x % D \in 0 .. D - 1 /\ x = D * q + (x % D)
    BY <2>1, SMT
  <2>3. q >= 0
    <3>1. ASSUME q <= -1 PROVE FALSE
      <4>1. D * q <= -D
        BY <3>1, SMT
      <4> QED
        BY <2>2, <4>1
    <3> QED
      BY <3>1
  <2>4. D * (q + 1) = D * q + D
    BY SMT
  <2> QED
    BY <2>1, <2>2, <2>3, <2>4
<1>2. PICK i \in Nat : i = a \div D /\ D * i <= a
  BY <1>1
<1>3. PICK j \in Nat : j = b \div D /\ D * j <= b
  BY <1>1
<1>4. a + b \in Nat
  OBVIOUS
<1>5. PICK k \in Nat : k = (a + b) \div D /\ a + b < D * (k + 1)
  BY <1>1, <1>4
<1>6. D * (i + j) = D * i + D * j
  BY SMT
<1>7. D * (i + j) < D * (k + 1)
  BY <1>2, <1>3, <1>5, <1>6
<1>8. i + j <= k
  <2>1. ASSUME i + j >= k + 1 PROVE FALSE
    <3>1. D * (i + j) >= D * (k + 1)
      BY <2>1, SMT
    <3> QED
      BY <1>7, <3>1
  <2> QED
    BY <2>1
<1>9. D * i >= i
  BY SMT
<1> QED
  BY <1>2, <1>3, <1>5, <1>8, <1>9

\* The two controllers.
LEMMA PeerFacts ==
  /\ C1 \in C /\ C2 \in C /\ C1 # C2
  /\ \A c \in C : Peer(c) \in C /\ Peer(c) # c /\ C = {c, Peer(c)}
  BY TwoControllers DEF C, Peer

\* The range of the timers and what they count in a cycle.
LEMMA TimerFacts ==
  Wrap \in Nat \ {0} /\ Nominal \in Rates /\ \A r \in Rates : r \in 0 .. Wrap - 1
<1>1. Wrap \in Nat /\ TimeDiff \in Nat /\ MaxDiff \in Nat
  BY LimitsAssumption
<1>2. 2 * TimeDiff + MaxDiff < Wrap /\ \A r \in Rates : 4 * r < Wrap
  BY LimitsAssumption
<1>3. Rates \subseteq Nat /\ Nominal \in Rates
  BY RatesAssumption
<1> QED
  BY <1>1, <1>2, <1>3

\* The limits of the comparisons.
LEMMA LimitFacts ==
  /\ MinDiff \in Nat /\ MaxDiff \in Nat
  /\ TimeDiff \in Nat /\ TimeDiff > 1 /\ 2 * TimeDiff + MaxDiff < Wrap
  /\ Deviation \in Nat \ {0}
<1>1. MinDiff \in Nat /\ MaxDiff \in Nat /\ TimeDiff \in Nat /\ Deviation \in Nat
  BY LimitsAssumption
<1>2. TimeDiff > 1 /\ 2 * TimeDiff + MaxDiff < Wrap /\ Deviation > 0
  BY LimitsAssumption
<1> QED
  BY <1>1, <1>2

\* Two times do not deviate when none is beyond the deviation of the other.
LEMMA NotDeviating ==
  \A a, b \in Nat :
    ~Deviates(a, b) <=> a <= b + (b \div Deviation) /\ b <= a + (a \div Deviation)
<1> SUFFICES ASSUME NEW a \in Nat, NEW b \in Nat
             PROVE  ~Deviates(a, b) <=>
                      a <= b + (b \div Deviation) /\ b <= a + (a \div Deviation)
  OBVIOUS
<1>1. PICK i \in Nat : i = a \div Deviation
  BY LimitFacts, DeviationAdds
<1>2. PICK j \in Nat : j = b \div Deviation
  BY LimitFacts, DeviationAdds
<1>3. CASE a >= b
  <2>1. Deviates(a, b) <=> a > b + j
    BY <1>2, <1>3 DEF Deviates
  <2> QED
    BY <1>1, <1>2, <1>3, <2>1
<1>4. CASE ~(a >= b)
  <2>1. Deviates(a, b) <=> b > a + i
    BY <1>1, <1>4 DEF Deviates
  <2> QED
    BY <1>1, <1>2, <1>4, <2>1
<1> QED
  BY <1>3, <1>4

\* Elapsed times stay close in a cycle with tolerable rates.
LEMMA CloseGoesOn ==
  \A a, b, r, s \in Nat : Close(a, b) /\ Tolerable(r, s) => Close(a + r, b + s)
<1> SUFFICES ASSUME NEW a \in Nat, NEW b \in Nat, NEW r \in Nat, NEW s \in Nat,
                    Close(a, b), Tolerable(r, s)
             PROVE  Close(a + r, b + s)
  OBVIOUS
<1>1. PICK i \in Nat, j \in Nat : i = r \div Deviation /\ j = s \div Deviation
  BY LimitFacts, DeviationAdds
<1>2. r + 1 \in Nat /\ s + 1 \in Nat
  OBVIOUS
<1>3. r + 1 <= s + j /\ s + 1 <= r + i
  BY <1>1, <1>2, NotDeviating DEF Tolerable
<1>4. PICK k \in Nat, l \in Nat : k = a \div Deviation /\ l = b \div Deviation
  BY LimitFacts, DeviationAdds
<1>5. PICK m \in Nat, n \in Nat :
        m = (a + r) \div Deviation /\ n = (b + s) \div Deviation /\ k + i <= m /\ l + j <= n
  BY <1>1, <1>4, LimitFacts, DeviationAdds
<1>6. (a <= 1 /\ b <= 1) \/ (a <= b + l /\ b <= a + k)
  BY <1>4, NotDeviating DEF Close
<1>7. a + r <= (b + s) + n /\ b + s <= (a + r) + m
  BY <1>3, <1>5, <1>6
<1>8. a + r \in Nat /\ b + s \in Nat
  OBVIOUS
<1>9. ~Deviates(a + r, b + s)
  BY <1>5, <1>7, <1>8, NotDeviating
<1> QED
  BY <1>9 DEF Close

\* An elapsed time that is not measured yet is not longer than two intervals.
LEMMA CloseIsShort ==
  \A a, b \in Nat :
    Close(a, b) /\ (a < TimeDiff \/ b < TimeDiff) => a < 2 * TimeDiff /\ b < 2 * TimeDiff
<1> SUFFICES ASSUME NEW a \in Nat, NEW b \in Nat, Close(a, b), a < TimeDiff \/ b < TimeDiff
             PROVE  a < 2 * TimeDiff /\ b < 2 * TimeDiff
  OBVIOUS
<1>1. PICK k \in Nat, l \in Nat :
        k = a \div Deviation /\ l = b \div Deviation /\ k <= a /\ l <= b
  BY LimitFacts, DeviationAdds
<1>2. (a <= 1 /\ b <= 1) \/ (a <= b + l /\ b <= a + k)
  BY <1>1, NotDeviating DEF Close
<1> QED
  BY <1>1, <1>2, LimitFacts

-----------------------------------------------------------------------------
(* The invariants *)

\* The actions, for a proof by cases.
LEMMA StepCases ==
  ASSUME [Next]_vars
  PROVE  \/ \E c \in C : TIM_SendTimerVal(c)
         \/ \E c \in C : TIM_CheckAndSetTimerVal(c)
         \/ \E c \in C : tmSRV_CheckTemperature(c)
         \/ \E c \in C : tmSRV_SyncTemperature(c)
         \/ \E c \in C : clkCtrl_CalcAndSendTimeDiff(c)
         \/ \E c \in C : clkCtrl_CheckTimerVal(c)
         \/ NextSlice
         \/ RatesChange
         \/ UNCHANGED vars
  BY DEF Next, Slice

\* The filter after a measurement.
Shifted(old, bad) == <<bad>> \o SubSeq(old, 1, FilterSize - 1)

\* A filter holds the newest result and those before.
LEMMA FilterShifts ==
  \A old \in [1 .. FilterSize -> BOOLEAN] : \A bad \in BOOLEAN :
    /\ Shifted(old, bad) \in [1 .. FilterSize -> BOOLEAN]
    /\ Shifted(old, bad)[1] = bad
    /\ \A i \in 2 .. FilterSize : Shifted(old, bad)[i] = old[i - 1]
<1> SUFFICES ASSUME NEW old \in [1 .. FilterSize -> BOOLEAN], NEW bad \in BOOLEAN
             PROVE  /\ Shifted(old, bad) \in [1 .. FilterSize -> BOOLEAN]
                    /\ Shifted(old, bad)[1] = bad
                    /\ \A i \in 2 .. FilterSize : Shifted(old, bad)[i] = old[i - 1]
  OBVIOUS
<1>10. PICK bits : bits = Shifted(old, bad)
  OBVIOUS
<1>1. PICK n \in Nat : n = FilterSize /\ n >= 1
  BY FilterAssumption
<1>2. old \in Seq(BOOLEAN) /\ Len(old) = n
  BY <1>1
<1>3. PICK s : s = SubSeq(old, 1, n - 1)
  OBVIOUS
<1>4. s \in Seq(BOOLEAN) /\ Len(s) = n - 1 /\ \A i \in 1 .. n - 1 : s[i] = old[i]
  BY <1>1, <1>2, <1>3
<1>5. <<bad>> \in Seq(BOOLEAN) /\ Len(<<bad>>) = 1 /\ <<bad>>[1] = bad
  OBVIOUS
<1>11. bits = <<bad>> \o s
  BY <1>10, <1>1, <1>3 DEF Shifted
<1>6. bits \in Seq(BOOLEAN) /\ Len(bits) = n
  BY <1>1, <1>4, <1>5, <1>11
<1>7. bits[1] = bad
  BY <1>1, <1>4, <1>5, <1>11
<1>8. \A i \in 2 .. n : bits[i] = old[i - 1]
  BY <1>1, <1>4, <1>5, <1>11
<1>9. bits \in [1 .. n -> BOOLEAN]
  BY <1>6, LenProperties
<1> QED
  BY <1>1, <1>7, <1>8, <1>9, <1>10

\* A run of failures that meets the threshold after a measurement either was
\* there before or consists of the newest results.
LEMMA NewestRun ==
  ASSUME NEW old \in [1 .. FilterSize -> BOOLEAN], NEW bad \in BOOLEAN,
         NEW bits, bits = Shifted(old, bad),
         ~TestFailed(old)
  PROVE  TestFailed(bits) <=> \A j \in 1 .. Threshold : bits[j]
<1>1. FilterSize \in Nat /\ Threshold \in Nat /\ Threshold >= 1 /\ Threshold <= FilterSize
  BY FilterAssumption
<1>2. \A i \in 2 .. FilterSize : bits[i] = old[i - 1]
  BY FilterShifts
<1>3. ASSUME \A j \in 1 .. Threshold : bits[j] PROVE TestFailed(bits)
  <2>1. 1 \in 1 .. FilterSize - Threshold + 1 /\ 1 + Threshold - 1 = Threshold
    BY <1>1
  <2>2. \A j \in 1 .. 1 + Threshold - 1 : bits[j]
    BY <1>3, <2>1
  <2> QED
    BY <2>1, <2>2 DEF TestFailed
<1>4. ASSUME TestFailed(bits) PROVE \A j \in 1 .. Threshold : bits[j]
  <2>1. PICK i \in 1 .. FilterSize - Threshold + 1 : \A j \in i .. i + Threshold - 1 : bits[j]
    BY <1>4 DEF TestFailed
  <2>2. CASE i = 1
    <3>1. i + Threshold - 1 = Threshold
      BY <1>1, <2>2
    <3> QED
      BY <2>1, <2>2, <3>1
  <2>3. CASE i # 1
    <3>1. i - 1 \in 1 .. FilterSize - Threshold + 1
      BY <1>1, <2>3
    <3>2. ASSUME NEW j \in i - 1 .. (i - 1) + Threshold - 1 PROVE old[j]
      <4>1. j + 1 \in i .. i + Threshold - 1 /\ j + 1 \in 2 .. FilterSize /\ (j + 1) - 1 = j
        BY <1>1, <2>3
      <4> QED
        BY <1>2, <2>1, <4>1
    <3>3. TestFailed(old)
      BY <3>1, <3>2 DEF TestFailed
    <3> QED
      BY <3>3
  <2> QED
    BY <2>2, <2>3
<1> QED
  BY <1>3, <1>4

\* The values of the variables of a controller.
LEMMA TypeFacts ==
  ASSUME TypeInv, NEW c \in C
  PROVE  /\ time[c] \in 0 .. Wrap - 1 /\ curr[c] \in 0 .. Wrap - 1
         /\ local[c] \in 0 .. Wrap - 1 /\ remote[c] \in 0 .. Wrap - 1
         /\ start[c] \in 0 .. Wrap - 1 /\ diff[c] \in 0 .. Wrap - 1
         /\ rate[c] \in 0 .. Wrap - 1 /\ rate[c] \in Rates
         /\ results[c] \in [1 .. FilterSize -> BOOLEAN] /\ hot[c] \in 0 .. Threshold
<1>1. rate[c] \in Rates
  BY DEF TypeInv
<1>2. rate[c] \in 0 .. Wrap - 1
  BY <1>1, TimerFacts
<1> QED
  BY <1>1, <1>2 DEF TypeInv

\* The values of the variables stay in their ranges.
LEMMA TypePreserved ==
  ASSUME TypeInv, [Next]_vars
  PROVE  TypeInv'
<1>0. Wrap \in Nat \ {0} /\ Threshold \in Nat
  BY TimerFacts, FilterAssumption
<1>1. ASSUME NEW c \in C, TIM_SendTimerVal(c) PROVE TypeInv'
  BY <1>1 DEF TypeInv, TIM_SendTimerVal, InSlice, Set, clkVars, tempVars
<1>2. ASSUME NEW c \in C, TIM_CheckAndSetTimerVal(c) PROVE TypeInv'
  <2>1. curr[c] \in 0 .. Wrap - 1 /\ curr[Peer(c)] \in 0 .. Wrap - 1
    BY PeerFacts, TypeFacts
  <2>2. \/ /\ local' = [local EXCEPT ![c] = curr[c]]
           /\ remote' = [remote EXCEPT ![c] = curr[Peer(c)]]
           /\ first' = [first EXCEPT ![c] = FALSE]
           /\ UNCHANGED failSafe
        \/ /\ failSafe' = [failSafe EXCEPT ![c] = "APPL_TIMER_DEV_ERR"]
           /\ UNCHANGED <<local, remote, first>>
    BY <1>2 DEF TIM_CheckAndSetTimerVal, Set, FailIf
  <2>3. /\ local' \in [C -> 0 .. Wrap - 1] /\ remote' \in [C -> 0 .. Wrap - 1]
        /\ first' \in [C -> BOOLEAN]
        /\ failSafe' \in [C -> {"none", "APPL_TIMER_DEV_ERR", "TEMPERATURE_ERR", "CLK_CTRL"}]
    BY <2>1, <2>2 DEF TypeInv
  <2> QED
    BY <1>2, <2>3 DEF TypeInv, TIM_CheckAndSetTimerVal, InSlice, clkVars, tempVars
<1>3. ASSUME NEW c \in C, tmSRV_CheckTemperature(c) PROVE TypeInv'
  <2>1. PICK bad \in BOOLEAN :
          LET bits == <<bad>> \o SubSeq(results[c], 1, FilterSize - 1)
          IN  /\ Set(results, c, bits)
              /\ Set(own, c, IF TestFailed(bits) THEN "FAILED" ELSE "PASSED")
              /\ Set(hot, c, IF ~bad THEN 0 ELSE IF hot[c] < Threshold THEN hot[c] + 1
                             ELSE hot[c])
    BY <1>3 DEF tmSRV_CheckTemperature
  <2>2. PICK bits : bits = <<bad>> \o SubSeq(results[c], 1, FilterSize - 1)
    OBVIOUS
  <2>3. results[c] \in [1 .. FilterSize -> BOOLEAN]
    BY DEF TypeInv
  <2>4. bits \in [1 .. FilterSize -> BOOLEAN]
    BY <2>2, <2>3, FilterShifts DEF Shifted
  <2>5. results' = [results EXCEPT ![c] = bits]
    BY <2>1, <2>2 DEF Set
  <2>6. results' \in [C -> [1 .. FilterSize -> BOOLEAN]]
    BY <2>4, <2>5 DEF TypeInv
  <2>7. own' \in [C -> {"NONE", "PASSED", "FAILED"}]
    BY <2>1 DEF Set, TypeInv
  <2>8. hot' \in [C -> 0 .. Threshold]
    <3>1. PICK h : h = IF ~bad THEN 0 ELSE IF hot[c] < Threshold THEN hot[c] + 1 ELSE hot[c]
      OBVIOUS
    <3>2. h \in 0 .. Threshold
      BY <1>0, <3>1, TypeFacts
    <3>3. hot' = [hot EXCEPT ![c] = h]
      BY <2>1, <3>1 DEF Set
    <3> QED
      BY <3>2, <3>3 DEF TypeInv
  <2> QED
    BY <1>3, <2>6, <2>7, <2>8 DEF TypeInv, tmSRV_CheckTemperature, InSlice, clkVars
<1>4. ASSUME NEW c \in C, tmSRV_SyncTemperature(c) PROVE TypeInv'
  BY <1>4 DEF TypeInv, tmSRV_SyncTemperature, InSlice, FailIf, clkVars, tempVars
<1>5. ASSUME NEW c \in C, clkCtrl_CalcAndSendTimeDiff(c) PROVE TypeInv'
  <2>1. time[c] - start[c] \in Int
    BY <1>0, TypeFacts
  <2>2. (time[c] - start[c]) % Wrap \in 0 .. Wrap - 1
    BY <1>0, <2>1, Modulo
  <2> QED
    BY <1>5, <2>2 DEF TypeInv, clkCtrl_CalcAndSendTimeDiff, InSlice, Set, tempVars
<1>6. ASSUME NEW c \in C, clkCtrl_CheckTimerVal(c) PROVE TypeInv'
  <2>1. start[c] + diff[c] \in Int
    BY <1>0, TypeFacts
  <2>2. (start[c] + diff[c]) % Wrap \in 0 .. Wrap - 1
    BY <1>0, <2>1, Modulo
  <2>3. start' \in [C -> 0 .. Wrap - 1]
    BY <1>6, <2>2 DEF TypeInv, clkCtrl_CheckTimerVal, Set
  <2>4. failSafe' \in [C -> {"none", "APPL_TIMER_DEV_ERR", "TEMPERATURE_ERR", "CLK_CTRL"}]
    BY <1>6 DEF TypeInv, clkCtrl_CheckTimerVal, FailIf
  <2> QED
    BY <1>6, <2>3, <2>4 DEF TypeInv, clkCtrl_CheckTimerVal, InSlice, tempVars
<1>7. ASSUME NextSlice PROVE TypeInv'
  <2>1. ASSUME NEW c \in C PROVE (time[c] + rate[c]) % Wrap \in 0 .. Wrap - 1
    <3>1. time[c] + rate[c] \in Int
      BY <1>0, TypeFacts
    <3> QED
      BY <1>0, <3>1, Modulo
  <2>2. time' \in [C -> 0 .. Wrap - 1]
    BY <1>7, <2>1 DEF NextSlice, TypeInv
  <2>3. phase' \in {2, 3, 10, 11, 18, 19} /\ done' \subseteq C
    BY <1>7 DEF NextSlice, NextPhase, TypeInv
  <2> QED
    BY <1>7, <2>2, <2>3 DEF NextSlice, TypeInv, clkVars, tempVars
<1>8. ASSUME RatesChange PROVE TypeInv'
  <2>1. off' \in BOOLEAN
    BY <1>8 DEF RatesChange, TypeInv, Tolerable
  <2> QED
    BY <1>8, <2>1 DEF RatesChange, TypeInv, clkVars, tempVars
<1>9. ASSUME UNCHANGED vars PROVE TypeInv'
  BY <1>9 DEF TypeInv, vars, timeVars, clkVars, tempVars
<1> QED
  BY <1>1, <1>2, <1>3, <1>4, <1>5, <1>6, <1>7, <1>8, <1>9, StepCases

\* A controller that has stopped stays in the slice that has found a
\* difference.
LEMMA StopPreserved ==
  ASSUME TypeInv, StopInv, [Next]_vars
  PROVE  StopInv'
<1> USE DEF StopInv, InSlice
<1>1. ASSUME NEW c \in C, TIM_SendTimerVal(c) PROVE StopInv'
  BY <1>1 DEF TIM_SendTimerVal
<1>2. ASSUME NEW c \in C, TIM_CheckAndSetTimerVal(c) PROVE StopInv'
  BY <1>2 DEF TIM_CheckAndSetTimerVal, FailIf, TypeInv
<1>3. ASSUME NEW c \in C, tmSRV_CheckTemperature(c) PROVE StopInv'
  BY <1>3 DEF tmSRV_CheckTemperature
<1>4. ASSUME NEW c \in C, tmSRV_SyncTemperature(c) PROVE StopInv'
  BY <1>4 DEF tmSRV_SyncTemperature, FailIf, TypeInv
<1>5. ASSUME NEW c \in C, clkCtrl_CalcAndSendTimeDiff(c) PROVE StopInv'
  BY <1>5 DEF clkCtrl_CalcAndSendTimeDiff
<1>6. ASSUME NEW c \in C, clkCtrl_CheckTimerVal(c) PROVE StopInv'
  BY <1>6 DEF clkCtrl_CheckTimerVal, FailIf, TypeInv
<1>7. ASSUME NextSlice PROVE StopInv'
  BY <1>7 DEF NextSlice, Running
<1>8. ASSUME RatesChange PROVE StopInv'
  BY <1>8 DEF RatesChange
<1>9. ASSUME UNCHANGED vars PROVE StopInv'
  BY <1>9 DEF vars
<1> QED
  BY <1>1, <1>2, <1>3, <1>4, <1>5, <1>6, <1>7, <1>8, <1>9, StepCases

\* A rate that has not been tolerable is remembered.
LEMMA RatePreserved ==
  ASSUME TypeInv, RateInv, [Next]_vars
  PROVE  RateInv'
<1> USE DEF RateInv, InSlice
<1>1. ASSUME UNCHANGED <<rate, off>> PROVE RateInv'
  BY <1>1
<1>2. ASSUME RatesChange PROVE RateInv'
  BY <1>2 DEF RatesChange, TypeInv
<1>3. UNCHANGED <<rate, off>> \/ RatesChange
  BY StepCases DEF TIM_SendTimerVal, TIM_CheckAndSetTimerVal, tmSRV_CheckTemperature,
    tmSRV_SyncTemperature, clkCtrl_CalcAndSendTimeDiff, clkCtrl_CheckTimerVal, NextSlice,
    vars, timeVars
<1> QED
  BY <1>1, <1>2, <1>3

\* Both controllers have the times of a cycle.
LEMMA TimesPreserved ==
  ASSUME TypeInv, StopInv, TimeInv, [Next]_vars
  PROVE  TimeInv'
<1> USE DEF InSlice
<1> DEFINE Kept == UNCHANGED <<time, curr, local, remote, first>> /\ phase' = phase
<1>1. ASSUME NEW c \in C, TIM_SendTimerVal(c) PROVE TimeInv'
  <2>1. phase = 2 /\ phase' = 2 /\ done' = done \cup {c} /\ time' = time
    BY <1>1 DEF TIM_SendTimerVal
  <2>2. curr' = [curr EXCEPT ![c] = time[c]]
    BY <1>1 DEF TIM_SendTimerVal, Set
  <2>3. \A d \in C : d \in done' => curr'[d] = time'[d]
    BY <2>1, <2>2 DEF TimeInv, TypeInv
  <2> QED
    BY <2>1, <2>3 DEF TimeInv
<1>2. ASSUME NEW c \in C, TIM_CheckAndSetTimerVal(c) PROVE TimeInv'
  <2>1. /\ phase = 3 /\ phase' = 3 /\ done' = done \cup {c} /\ time' = time /\ curr' = curr
        /\ c \notin done
    BY <1>2 DEF TIM_CheckAndSetTimerVal
  <2>2. curr[c] = time[c] /\ curr[Peer(c)] = time[Peer(c)]
    BY <2>1, PeerFacts DEF TimeInv
  <2>3. CASE failSafe' = failSafe
    <3>1. ASSUME Running(c)' PROVE HasTimes(c)'
      <4>1. \/ /\ local' = [local EXCEPT ![c] = curr[c]]
               /\ remote' = [remote EXCEPT ![c] = curr[Peer(c)]]
               /\ first' = [first EXCEPT ![c] = FALSE]
            \/ failSafe' = [failSafe EXCEPT ![c] = "APPL_TIMER_DEV_ERR"]
        BY <1>2 DEF TIM_CheckAndSetTimerVal, Set, FailIf
      <4>2. failSafe' # [failSafe EXCEPT ![c] = "APPL_TIMER_DEV_ERR"]
        BY <3>1 DEF Running, TypeInv
      <4> QED
        BY <2>1, <2>2, <4>1, <4>2 DEF HasTimes, TypeInv
    <3>2. ASSUME NEW d \in done, Running(d)' PROVE HasTimes(d)'
      <4>1. d # c /\ d \in C /\ Running(d)
        BY <2>1, <2>3, <3>2 DEF TypeInv, Running
      <4>2. HasTimes(d)
        BY <2>1, <4>1 DEF TimeInv
      <4>3. local'[d] = local[d] /\ remote'[d] = remote[d] /\ first'[d] = first[d]
        BY <1>2, <4>1 DEF TIM_CheckAndSetTimerVal, Set, TypeInv
      <4> QED
        BY <2>1, <4>2, <4>3 DEF HasTimes
    <3> QED
      BY <2>1, <3>1, <3>2 DEF TimeInv
  <2>4. CASE failSafe' # failSafe
    <3>1. /\ failSafe' = [failSafe EXCEPT ![c] = "APPL_TIMER_DEV_ERR"]
          /\ UNCHANGED <<local, remote, first>>
      BY <1>2, <2>4 DEF TIM_CheckAndSetTimerVal, FailIf
    <3>2. ASSUME NEW d \in done', Running(d)' PROVE HasTimes(d)'
      <4>1. d # c /\ d \in done /\ d \in C /\ Running(d)
        BY <2>1, <3>1, <3>2 DEF TypeInv, Running
      <4> QED
        BY <2>1, <3>1, <4>1 DEF TimeInv, HasTimes
    <3> QED
      BY <2>1, <3>2 DEF TimeInv
  <2> QED
    BY <2>3, <2>4
<1>3. ASSUME Kept, phase \notin {2, 3} PROVE TimeInv'
  BY <1>3 DEF TimeInv, HasTimes
<1>4. ASSUME NextSlice PROVE TimeInv'
  <2>1. /\ done = C /\ done' = {} /\ \A c \in C : Running(c)
        /\ UNCHANGED <<curr, local, remote, first>>
    BY <1>4 DEF NextSlice
  <2>2. CASE phase = 2
    <3>1. phase' = 3 /\ time' = time
      BY <1>4, <2>2 DEF NextSlice, NextPhase
    <3> QED
      BY <2>1, <2>2, <3>1 DEF TimeInv
  <2>3. CASE phase = 19
    <3>1. phase' = 2
      BY <1>4, <2>3 DEF NextSlice, NextPhase
    <3> QED
      BY <2>1, <3>1 DEF TimeInv
  <2>4. CASE phase \notin {2, 19}
    <3>1. phase' \notin {2, 3} /\ time' = time
      BY <1>4, <2>4 DEF NextSlice, NextPhase, TypeInv
    <3>2. \A c \in C : HasTimes(c)
      BY <2>1, <2>4 DEF TimeInv, TypeInv
    <3>3. \A c \in C : HasTimes(c)' /\ curr'[c] = time'[c]
      BY <2>1, <2>4, <3>1, <3>2 DEF HasTimes, TimeInv
    <3> QED
      BY <3>1, <3>3 DEF TimeInv
  <2> QED
    BY <2>2, <2>3, <2>4
<1>5. ASSUME RatesChange PROVE TimeInv'
  BY <1>5 DEF RatesChange, TimeInv
<1>6. ASSUME UNCHANGED vars PROVE TimeInv'
  BY <1>6 DEF vars, timeVars, TimeInv, HasTimes, Running
<1>7. ASSUME NEW c \in C,
             \/ tmSRV_CheckTemperature(c) \/ tmSRV_SyncTemperature(c)
             \/ clkCtrl_CalcAndSendTimeDiff(c) \/ clkCtrl_CheckTimerVal(c)
      PROVE  Kept /\ phase \notin {2, 3}
  <2>1. CASE tmSRV_CheckTemperature(c)
    BY <2>1 DEF tmSRV_CheckTemperature
  <2>2. CASE tmSRV_SyncTemperature(c)
    BY <2>2 DEF tmSRV_SyncTemperature
  <2>3. CASE clkCtrl_CalcAndSendTimeDiff(c)
    BY <2>3 DEF clkCtrl_CalcAndSendTimeDiff
  <2>4. CASE clkCtrl_CheckTimerVal(c)
    BY <2>4 DEF clkCtrl_CheckTimerVal
  <2> QED
    BY <1>7, <2>1, <2>2, <2>3, <2>4
<1> QED
  BY <1>1, <1>2, <1>3, <1>4, <1>5, <1>6, <1>7, StepCases

\* Tolerable clocks count a cycle within its limits, also when the timers
\* overflow.
LEMMA InTimePreserved ==
  ASSUME TypeInv, StopInv, RateInv, TimeInv, InTimeInv, [Next]_vars
  PROVE  InTimeInv'
<1> USE DEF InSlice
<1>1. ASSUME NEW c \in C, TIM_CheckAndSetTimerVal(c) PROVE InTimeInv'
  <2>1. /\ phase = 3 /\ phase' = 3 /\ done' = done \cup {c} /\ time' = time /\ off' = off
        /\ c \notin done
    BY <1>1 DEF TIM_CheckAndSetTimerVal
  <2>2. ASSUME NEW d \in C, d \notin done', ~off,
               first[d] \/ (InTime(time[Peer(d)], remote[d]) /\ InTime(time[d], local[d]))
        PROVE  first'[d] \/ (InTime(time[Peer(d)], remote'[d]) /\ InTime(time[d], local'[d]))
    <3>1. local'[d] = local[d] /\ remote'[d] = remote[d] /\ first'[d] = first[d]
      BY <1>1, <2>1, <2>2 DEF TIM_CheckAndSetTimerVal, Set, TypeInv
    <3> QED
      BY <2>2, <3>1
  <2> QED
    BY <2>1, <2>2 DEF InTimeInv, InTime
<1>2. ASSUME UNCHANGED <<phase, time, local, remote, first>>, off' = off, done \subseteq done'
      PROVE  InTimeInv'
  BY <1>2 DEF InTimeInv, InTime
<1>3. ASSUME NEW c \in C,
             \/ TIM_SendTimerVal(c)
             \/ tmSRV_CheckTemperature(c) \/ tmSRV_SyncTemperature(c)
             \/ clkCtrl_CalcAndSendTimeDiff(c) \/ clkCtrl_CheckTimerVal(c)
      PROVE  UNCHANGED <<phase, time, local, remote, first>> /\ off' = off /\ done \subseteq done'
  BY <1>3 DEF TIM_SendTimerVal, tmSRV_CheckTemperature, tmSRV_SyncTemperature,
    clkCtrl_CalcAndSendTimeDiff, clkCtrl_CheckTimerVal
<1>4. ASSUME NextSlice PROVE InTimeInv'
  <2>1. /\ done = C /\ done' = {} /\ off' = off
        /\ UNCHANGED <<local, remote, first>>
    BY <1>4 DEF NextSlice
  <2>2. CASE phase = 2
    <3>1. phase' = 3 /\ time' = time
      BY <1>4, <2>2 DEF NextSlice, NextPhase
    <3> QED
      BY <2>1, <2>2, <3>1 DEF InTimeInv, InTime
  <2>3. CASE phase = 19
    <3>1. phase' = 2 /\ \A d \in C : time'[d] = (time[d] + rate[d]) % Wrap
      BY <1>4, <2>3 DEF NextSlice, NextPhase
    <3>2. ASSUME NEW d \in C, ~off PROVE InTime(time'[d], time[d])
      <4>1. rate[d] \in MinDiff .. MaxDiff
        BY <3>2 DEF RateInv, Tolerable, C
      <4>2. PICK t \in 0 .. Wrap - 1, r \in 0 .. Wrap - 1 : t = time[d] /\ r = rate[d]
        BY TypeFacts
      <4>3. t - t = 0 /\ 0 \in 0 .. Wrap - 1
        BY TimerFacts
      <4>4. (t - t) % Wrap = 0
        BY <4>3, TimerFacts, ModuloRanges
      <4>5. ((t - t) % Wrap) + r < Wrap /\ ((t - t) % Wrap) + r = r
        BY <4>4, TimerFacts
      <4>6. (((t + r) % Wrap) - t) % Wrap = r
        BY <4>5, TimerFacts, TimerGoesOn
      <4> QED
        BY <3>1, <4>1, <4>2, <4>6 DEF InTime
    <3>3. \A d \in C : HasTimes(d)
      BY <2>3 DEF TimeInv
    <3>4. ASSUME NEW d \in C, ~off
          PROVE  InTime(time'[Peer(d)], remote[d]) /\ InTime(time'[d], local[d])
      BY <3>2, <3>3, <3>4, PeerFacts DEF HasTimes
    <3>5. ASSUME ~off'
          PROVE  \A d \in C : InTime(time[Peer(d)], remote[d])' /\ InTime(time[d], local[d])'
      BY <2>1, <3>4, <3>5 DEF InTime
    <3> QED
      BY <3>5 DEF InTimeInv
  <2>4. CASE phase \notin {2, 19}
    <3>1. phase' \notin {2, 3}
      BY <1>4, <2>4 DEF NextSlice, NextPhase, TypeInv
    <3> QED
      BY <3>1 DEF InTimeInv
  <2> QED
    BY <2>2, <2>3, <2>4
<1>5. ASSUME RatesChange PROVE InTimeInv'
  <2>1. UNCHANGED <<phase, done, time, local, remote, first>> /\ (~off' => ~off)
    BY <1>5 DEF RatesChange
  <2> QED
    BY <2>1 DEF InTimeInv, InTime
<1>6. ASSUME UNCHANGED vars PROVE InTimeInv'
  BY <1>6 DEF vars, timeVars, InTimeInv, InTime
<1> QED
  BY <1>1, <1>2, <1>3, <1>4, <1>5, <1>6, StepCases

\* The elapsed times stay close, as long as the rates are tolerable.
LEMMA ElapsedPreserved ==
  ASSUME TypeInv, StopInv, RateInv, ElapsedInv, [Next]_vars
  PROVE  ElapsedInv'
<1> USE DEF InSlice
<1>1. ASSUME NEW c \in C,
             \/ TIM_SendTimerVal(c) \/ TIM_CheckAndSetTimerVal(c)
             \/ tmSRV_CheckTemperature(c) \/ tmSRV_SyncTemperature(c)
      PROVE  /\ UNCHANGED <<phase, time, start, diff, off>> /\ phase \notin {18, 19}
  <2>1. CASE TIM_SendTimerVal(c)
    BY <2>1 DEF TIM_SendTimerVal, clkVars
  <2>2. CASE TIM_CheckAndSetTimerVal(c)
    BY <2>2 DEF TIM_CheckAndSetTimerVal, clkVars
  <2>3. CASE tmSRV_CheckTemperature(c)
    BY <2>3 DEF tmSRV_CheckTemperature, clkVars
  <2>4. CASE tmSRV_SyncTemperature(c)
    BY <2>4 DEF tmSRV_SyncTemperature, clkVars
  <2> QED
    BY <1>1, <2>1, <2>2, <2>3, <2>4
<1>2. ASSUME UNCHANGED <<phase, time, start, diff, off>>, phase \notin {18, 19}
      PROVE  ElapsedInv'
  BY <1>2 DEF ElapsedInv, Elapsed
<1>3. ASSUME NEW c \in C, clkCtrl_CalcAndSendTimeDiff(c) PROVE ElapsedInv'
  <2>1. /\ phase = 18 /\ phase' = 18 /\ done' = done \cup {c} /\ UNCHANGED <<time, start, off>>
        /\ diff' = [diff EXCEPT ![c] = Elapsed(c)]
    BY <1>3 DEF clkCtrl_CalcAndSendTimeDiff, Set, Elapsed
  <2>2. \A d \in C : Elapsed(d)' = Elapsed(d)
    BY <2>1 DEF Elapsed
  <2>3. Close(Elapsed(C1), Elapsed(C2))' <=> Close(Elapsed(C1), Elapsed(C2))
    BY <2>2, PeerFacts DEF Close, Deviates
  <2>4. ASSUME ~off, NEW d \in done' PROVE diff'[d] = Elapsed(d)
    BY <2>1, <2>4 DEF ElapsedInv, TypeInv
  <2> QED
    BY <2>1, <2>2, <2>3, <2>4 DEF ElapsedInv, TypeInv
<1>4. ASSUME NEW c \in C, clkCtrl_CheckTimerVal(c) PROVE ElapsedInv'
  <2>1. /\ phase = 19 /\ phase' = 19 /\ done' = done \cup {c} /\ c \notin done
        /\ UNCHANGED <<time, diff, off>>
    BY <1>4 DEF clkCtrl_CheckTimerVal
  <2>2. Compare <=> diff[c] >= TimeDiff /\ diff[Peer(c)] >= TimeDiff
    BY PeerFacts DEF Compare, Peer, C
  <2>3. Compare' <=> Compare
    BY <2>1 DEF Compare
  <2>4. ASSUME ~off, NEW d \in C
        PROVE  Elapsed(d)' = IF d \in done' /\ Compare THEN 0 ELSE diff[d]
    <3>1. CASE d # c
      <4>1. start'[d] = start[d]
        BY <1>4, <3>1 DEF clkCtrl_CheckTimerVal, Set, TypeInv
      <4>2. Elapsed(d)' = Elapsed(d)
        BY <2>1, <4>1 DEF Elapsed
      <4> QED
        BY <2>1, <2>4, <3>1, <4>2 DEF ElapsedInv
    <3>2. CASE d = c
      <4>1. Elapsed(c) = diff[c]
        BY <2>1, <2>4 DEF ElapsedInv
      <4>2. CASE Compare
        <5>1. start' = [start EXCEPT ![c] = (start[c] + diff[c]) % Wrap]
          BY <1>4, <2>2, <4>2 DEF clkCtrl_CheckTimerVal, Set
        <5>2. PICK t \in 0 .. Wrap - 1, s \in 0 .. Wrap - 1 : t = time[c] /\ s = start[c]
          BY TypeFacts
        <5>3. (s + ((t - s) % Wrap)) % Wrap = t
          BY TimerFacts, TimerRestarts
        <5>4. start'[c] = t
          BY <4>1, <5>1, <5>2, <5>3 DEF Elapsed, TypeInv
        <5>5. t - t = 0 /\ 0 \in 0 .. Wrap - 1
          BY TimerFacts
        <5>6. (t - t) % Wrap = 0
          BY <5>5, TimerFacts, ModuloRanges
        <5> QED
          BY <2>1, <3>2, <4>2, <5>2, <5>4, <5>6 DEF Elapsed
      <4>3. CASE ~Compare
        <5>1. start' = start
          BY <1>4, <2>2, <4>3 DEF clkCtrl_CheckTimerVal
        <5> QED
          BY <2>1, <3>2, <4>1, <4>3, <5>1 DEF Elapsed
      <4> QED
        BY <4>2, <4>3
    <3> QED
      BY <3>1, <3>2
  <2>5. Close(diff[C1], diff[C2])' <=> Close(diff[C1], diff[C2])
    BY <2>1 DEF Close, Deviates
  <2> QED
    BY <2>1, <2>3, <2>4, <2>5 DEF ElapsedInv
<1>5. ASSUME NextSlice PROVE ElapsedInv'
  <2>1. /\ done = C /\ done' = {} /\ UNCHANGED <<start, diff, off>>
    BY <1>5 DEF NextSlice, clkVars
  <2>2. CASE phase = 19
    <3>1. phase' = 2 /\ \A c \in C : time'[c] = (time[c] + rate[c]) % Wrap
      BY <1>5, <2>2 DEF NextSlice, NextPhase
    <3>2. PICK a \in 0 .. Wrap - 1, b \in 0 .. Wrap - 1 : a = diff[C1] /\ b = diff[C2]
      BY PeerFacts, TypeFacts
    <3>3. PICK r \in 0 .. Wrap - 1, s \in 0 .. Wrap - 1 : r = rate[C1] /\ s = rate[C2]
      BY PeerFacts, TypeFacts
    <3>4. PICK e \in Nat, f \in Nat :
            /\ e = IF Compare THEN 0 ELSE a
            /\ f = IF Compare THEN 0 ELSE b
      <4>1. a \in Nat /\ b \in Nat
        BY TimerFacts
      <4> QED
        BY <4>1
    <3>5. ASSUME ~off PROVE Close(Elapsed(C1), Elapsed(C2))'
      <4>1. Elapsed(C1) = e /\ Elapsed(C2) = f
        BY <2>1, <2>2, <3>2, <3>4, <3>5, PeerFacts DEF ElapsedInv
      <4>2. Close(a, b) /\ Tolerable(r, s)
        BY <2>2, <3>2, <3>3, <3>5 DEF ElapsedInv, RateInv
      <4>3. Close(e, f)
        BY <3>4, <4>2 DEF Close
      <4>4. r <= MaxDiff /\ s <= MaxDiff
        BY <4>2, LimitFacts DEF Tolerable
      <4>5. e < 2 * TimeDiff /\ f < 2 * TimeDiff
        <5>1. CASE Compare
          BY <3>4, <5>1, LimitFacts
        <5>2. CASE ~Compare
          <6>1. (a < TimeDiff \/ b < TimeDiff) /\ a \in Nat /\ b \in Nat
            BY <3>2, <5>2, LimitFacts, TimerFacts DEF Compare
          <6> QED
            BY <3>4, <4>2, <5>2, <6>1, CloseIsShort
        <5> QED
          BY <5>1, <5>2
      <4>6. e + r < Wrap /\ f + s < Wrap
        BY <4>4, <4>5, LimitFacts, TimerFacts
      <4>7. r \in Nat /\ s \in Nat
        BY TimerFacts
      <4>8. ASSUME NEW c \in C, NEW g \in Nat, NEW q \in Nat, Elapsed(c) = g, rate[c] = q,
                   g + q < Wrap
            PROVE  Elapsed(c)' = g + q
        <5>1. PICK t \in 0 .. Wrap - 1, u \in 0 .. Wrap - 1 : t = time[c] /\ u = start[c]
          BY TypeFacts
        <5>2. (t - u) % Wrap = g
          BY <4>8, <5>1 DEF Elapsed
        <5>3. ((t - u) % Wrap) + q < Wrap
          BY <4>8, <5>2
        <5>4. (((t + q) % Wrap) - u) % Wrap = ((t - u) % Wrap) + q
          BY <5>3, TimerFacts, TimerGoesOn
        <5> QED
          BY <2>1, <3>1, <4>8, <5>1, <5>2, <5>4 DEF Elapsed
      <4>9. Elapsed(C1)' = e + r /\ Elapsed(C2)' = f + s
        BY <3>3, <4>1, <4>6, <4>7, <4>8, PeerFacts
      <4>10. Close(e + r, f + s)
        BY <4>2, <4>3, <4>7, CloseGoesOn
      <4> QED
        BY <4>9, <4>10 DEF Close, Deviates
    <3> QED
      BY <2>1, <3>1, <3>5 DEF ElapsedInv
  <2>3. CASE phase = 18
    <3>1. phase' = 19 /\ time' = time
      BY <1>5, <2>3 DEF NextSlice, NextPhase
    <3>2. \A c \in C : Elapsed(c)' = Elapsed(c)
      BY <2>1, <3>1 DEF Elapsed
    <3>3. ASSUME ~off PROVE /\ Close(diff[C1], diff[C2])
                            /\ \A c \in C : Elapsed(c) = diff[c]
      <4>1. Close(Elapsed(C1), Elapsed(C2)) /\ \A c \in C : Elapsed(c) = diff[c]
        BY <2>1, <2>3, <3>3 DEF ElapsedInv
      <4> QED
        BY <4>1, PeerFacts
    <3>4. Close(diff[C1], diff[C2])' <=> Close(diff[C1], diff[C2])
      BY <2>1 DEF Close, Deviates
    <3>5. \A c \in C : c \notin done'
      BY <2>1
    <3> QED
      BY <2>1, <3>1, <3>2, <3>3, <3>4, <3>5 DEF ElapsedInv
  <2>4. CASE phase \notin {18, 19}
    <3>1. phase' # 19 /\ time' = time
      BY <1>5, <2>4 DEF NextSlice, NextPhase, TypeInv
    <3>2. Close(Elapsed(C1), Elapsed(C2))' <=> Close(Elapsed(C1), Elapsed(C2))
      BY <2>1, <3>1 DEF Elapsed, Close, Deviates
    <3> QED
      BY <2>1, <2>4, <3>1, <3>2 DEF ElapsedInv
  <2> QED
    BY <2>2, <2>3, <2>4
<1>6. ASSUME RatesChange PROVE ElapsedInv'
  <2>1. UNCHANGED <<phase, done, time, start, diff>> /\ phase = 2 /\ (~off' => ~off)
    BY <1>6 DEF RatesChange, clkVars
  <2>2. Close(Elapsed(C1), Elapsed(C2))' <=> Close(Elapsed(C1), Elapsed(C2))
    BY <2>1 DEF Elapsed, Close, Deviates
  <2> QED
    BY <2>1, <2>2 DEF ElapsedInv
<1>7. ASSUME UNCHANGED vars PROVE ElapsedInv'
  BY <1>7 DEF vars, timeVars, clkVars, ElapsedInv, Elapsed, Compare, Close, Deviates
<1> QED
  BY <1>1, <1>2, <1>3, <1>4, <1>5, <1>6, <1>7, StepCases

\* The newest failures are counted.
LEMMA HotPreserved ==
  ASSUME TypeInv, HotInv, TempInv, [Next]_vars
  PROVE  HotInv'
<1>1. ASSUME NEW c \in C, tmSRV_CheckTemperature(c) PROVE HotInv'
  <2>1. PICK bad \in BOOLEAN :
          LET bits == <<bad>> \o SubSeq(results[c], 1, FilterSize - 1)
          IN  /\ Set(results, c, bits)
              /\ Set(own, c, IF TestFailed(bits) THEN "FAILED" ELSE "PASSED")
              /\ Set(hot, c, IF ~bad THEN 0 ELSE IF hot[c] < Threshold THEN hot[c] + 1
                             ELSE hot[c])
    BY <1>1 DEF tmSRV_CheckTemperature
  <2>2. phase = 10 /\ c \notin done
    BY <1>1 DEF tmSRV_CheckTemperature, InSlice
  <2>3. PICK old \in [1 .. FilterSize -> BOOLEAN], h \in 0 .. Threshold :
          old = results[c] /\ h = hot[c]
    BY TypeFacts
  <2>4. Threshold \in Nat /\ FilterSize \in Nat /\ 1 <= Threshold /\ Threshold <= FilterSize
    BY FilterAssumption
  <2>5. /\ h < Threshold /\ ~TestFailed(old)
        /\ \A i \in 1 .. h : old[i]
        /\ ~old[h + 1]
    BY <2>2, <2>3 DEF TempInv, HotInv
  <2>6. PICK bits : bits = Shifted(old, bad)
    OBVIOUS
  <2>7. bits[1] = bad /\ \A i \in 2 .. FilterSize : bits[i] = old[i - 1]
    BY <2>6, FilterShifts
  <2>8. PICK g \in Nat : g = IF ~bad THEN 0 ELSE h + 1
    BY <2>4
  <2>9. results'[c] = bits /\ hot'[c] = g
    <3>1. results' = [results EXCEPT ![c] = bits]
      BY <2>1, <2>3, <2>6 DEF Set, Shifted
    <3>2. hot' = [hot EXCEPT ![c] = g]
      BY <2>1, <2>3, <2>5, <2>8 DEF Set
    <3> QED
      BY <3>1, <3>2 DEF TypeInv
  <2>10. \A d \in C \ {c} : results'[d] = results[d] /\ hot'[d] = hot[d]
    BY <2>1 DEF Set, TypeInv
  <2>11. \A i \in 1 .. g : bits[i]
    <3>1. SUFFICES ASSUME NEW i \in 1 .. g PROVE bits[i]
      OBVIOUS
    <3>2. bad /\ g = h + 1
      BY <2>8
    <3>3. CASE i = 1
      BY <2>7, <3>2, <3>3
    <3>4. CASE i # 1
      <4>1. i \in 2 .. FilterSize /\ i - 1 \in 1 .. h
        BY <2>4, <2>5, <3>2, <3>4
      <4> QED
        BY <2>5, <2>7, <4>1
    <3> QED
      BY <3>3, <3>4
  <2>12. ASSUME g < Threshold PROVE ~bits[g + 1]
    <3>1. CASE bad
      <4>1. g = h + 1 /\ g + 1 \in 2 .. FilterSize /\ (g + 1) - 1 = h + 1
        BY <2>4, <2>8, <2>12, <3>1
      <4> QED
        BY <2>5, <2>7, <4>1
    <3>2. CASE ~bad
      BY <2>7, <2>8, <3>2
    <3> QED
      BY <3>1, <3>2
  <2>13. ASSUME g < Threshold PROVE ~TestFailed(bits)
    <3>1. g + 1 \in 1 .. Threshold
      BY <2>4, <2>13
    <3> QED
      BY <2>5, <2>6, <2>12, <2>13, <3>1, NewestRun
  <2> QED
    BY <2>9, <2>10, <2>11, <2>12, <2>13 DEF HotInv
<1>2. ASSUME UNCHANGED <<results, hot>> PROVE HotInv'
  BY <1>2 DEF HotInv
<1>3. ASSUME NEW c \in C,
             \/ TIM_SendTimerVal(c) \/ TIM_CheckAndSetTimerVal(c) \/ tmSRV_SyncTemperature(c)
             \/ clkCtrl_CalcAndSendTimeDiff(c) \/ clkCtrl_CheckTimerVal(c)
      PROVE  UNCHANGED <<results, hot>>
  BY <1>3 DEF TIM_SendTimerVal, TIM_CheckAndSetTimerVal, tmSRV_SyncTemperature,
    clkCtrl_CalcAndSendTimeDiff, clkCtrl_CheckTimerVal, tempVars
<1>4. NextSlice \/ RatesChange \/ UNCHANGED vars => UNCHANGED <<results, hot>>
  BY DEF NextSlice, RatesChange, vars, tempVars
<1> QED
  BY <1>1, <1>2, <1>3, <1>4, StepCases

\* A controller concludes that it is too hot exactly with Threshold failures in
\* a row, and both have compared that before the next measurement.
LEMMA TempPreserved ==
  ASSUME TypeInv, StopInv, HotInv, TempInv, [Next]_vars
  PROVE  TempInv'
<1> USE DEF InSlice
<1>1. ASSUME NEW c \in C, tmSRV_CheckTemperature(c) PROVE TempInv'
  <2>1. PICK bad \in BOOLEAN :
          LET bits == <<bad>> \o SubSeq(results[c], 1, FilterSize - 1)
          IN  /\ Set(results, c, bits)
              /\ Set(own, c, IF TestFailed(bits) THEN "FAILED" ELSE "PASSED")
              /\ Set(hot, c, IF ~bad THEN 0 ELSE IF hot[c] < Threshold THEN hot[c] + 1
                             ELSE hot[c])
    BY <1>1 DEF tmSRV_CheckTemperature
  <2>2. phase = 10 /\ phase' = 10 /\ c \notin done /\ done' = done \cup {c}
    BY <1>1 DEF tmSRV_CheckTemperature
  <2>3. PICK old \in [1 .. FilterSize -> BOOLEAN], h \in 0 .. Threshold :
          old = results[c] /\ h = hot[c]
    BY TypeFacts
  <2>4. Threshold \in Nat /\ FilterSize \in Nat /\ 1 <= Threshold /\ Threshold <= FilterSize
    BY FilterAssumption
  <2>5. h < Threshold /\ ~TestFailed(old)
    BY <2>2, <2>3 DEF TempInv, HotInv
  <2>6. PICK bits : bits = Shifted(old, bad)
    OBVIOUS
  <2>7. own'[c] = IF TestFailed(bits) THEN "FAILED" ELSE "PASSED"
    BY <2>1, <2>3, <2>6 DEF Set, Shifted, TypeInv
  <2>8. results'[c] = bits
    BY <2>1, <2>3, <2>6 DEF Set, Shifted, TypeInv
  <2>9. HotInv' /\ hot'[c] \in 0 .. Threshold
    BY HotPreserved, TypePreserved DEF TypeInv
  <2>10. TestFailed(bits) <=> hot'[c] >= Threshold
    <3>1. PICK g \in 0 .. Threshold : g = hot'[c]
      BY <2>9
    <3>2. CASE g >= Threshold
      <4>1. \A j \in 1 .. Threshold : bits[j]
        BY <2>4, <2>8, <2>9, <3>1, <3>2 DEF HotInv
      <4> QED
        BY <2>5, <2>6, <3>1, <3>2, <4>1, NewestRun
    <3>3. CASE ~(g >= Threshold)
      <4>1. g < Threshold
        BY <2>4, <3>3
      <4>2. ~TestFailed(bits)
        BY <2>8, <2>9, <3>1, <4>1 DEF HotInv, TestFailed
      <4> QED
        BY <3>1, <3>3, <4>2
    <3> QED
      BY <3>2, <3>3
  <2>11. own'[c] = "FAILED" <=> hot'[c] >= Threshold
    BY <2>7, <2>10
  <2>12. \A d \in C \ {c} : own'[d] = own[d] /\ hot'[d] = hot[d]
    BY <2>1 DEF Set, TypeInv
  <2> QED
    BY <2>2, <2>11, <2>12 DEF TempInv
<1>2. ASSUME NEW c \in C, tmSRV_SyncTemperature(c) PROVE TempInv'
  <2>1. /\ phase = 11 /\ phase' = 11 /\ c \notin done /\ done' = done \cup {c}
        /\ UNCHANGED <<own, hot>> /\ Running(c)
        /\ failSafe' = IF TooHot(c) THEN [failSafe EXCEPT ![c] = "TEMPERATURE_ERR"] ELSE failSafe
    BY <1>2 DEF tmSRV_SyncTemperature, tempVars, FailIf
  <2>2. \A d \in C : TooHot(d)' <=> TooHot(d)
    BY <2>1 DEF TooHot
  <2>3. failSafe'[c] # "none" <=> TooHot(c)
    BY <2>1 DEF Running, TypeInv
  <2>4. \A d \in done : d # c /\ failSafe'[d] = failSafe[d]
    BY <2>1 DEF TypeInv
  <2> QED
    BY <2>1, <2>2, <2>3, <2>4 DEF TempInv, TypeInv
<1>3. ASSUME NextSlice PROVE TempInv'
  <2>1. /\ done = C /\ done' = {} /\ UNCHANGED <<own, hot, failSafe>>
        /\ \A c \in C : failSafe[c] = "none"
    BY <1>3 DEF NextSlice, tempVars, Running
  <2>2. CASE phase = 3
    <3>1. phase' = 10
      BY <1>3, <2>2 DEF NextSlice, NextPhase
    <3> QED
      BY <2>1, <2>2, <3>1 DEF TempInv
  <2>3. CASE phase = 10
    <3>1. phase' = 11
      BY <1>3, <2>3 DEF NextSlice, NextPhase
    <3> QED
      BY <2>1, <2>3, <3>1 DEF TempInv
  <2>4. CASE phase = 11
    <3>1. phase' = 18
      BY <1>3, <2>4 DEF NextSlice, NextPhase
    <3>2. ASSUME NEW c \in C PROVE hot[c] < Threshold
      <4>1. ~TooHot(c)
        BY <2>1, <2>4 DEF TempInv
      <4>2. ~(hot[c] >= Threshold)
        BY <2>4, <4>1 DEF TempInv, TooHot
      <4>3. hot[c] \in 0 .. Threshold /\ Threshold \in Nat
        BY TypeFacts, FilterAssumption
      <4> QED
        BY <4>2, <4>3
    <3> QED
      BY <2>1, <3>1, <3>2 DEF TempInv
  <2>5. CASE phase \notin {3, 10, 11}
    <3>1. phase' \notin {10, 11}
      BY <1>3, <2>5 DEF NextSlice, NextPhase, TypeInv
    <3> QED
      BY <2>1, <2>5, <3>1 DEF TempInv
  <2> QED
    BY <2>2, <2>3, <2>4, <2>5
<1>4. ASSUME UNCHANGED <<phase, own, hot>>, phase \notin {10, 11} PROVE TempInv'
  BY <1>4 DEF TempInv
<1>5. ASSUME NEW c \in C,
             \/ TIM_SendTimerVal(c) \/ TIM_CheckAndSetTimerVal(c)
             \/ clkCtrl_CalcAndSendTimeDiff(c) \/ clkCtrl_CheckTimerVal(c)
      PROVE  UNCHANGED <<phase, own, hot>> /\ phase \notin {10, 11}
  <2>1. CASE TIM_SendTimerVal(c)
    BY <2>1 DEF TIM_SendTimerVal, tempVars
  <2>2. CASE TIM_CheckAndSetTimerVal(c)
    BY <2>2 DEF TIM_CheckAndSetTimerVal, tempVars
  <2>3. CASE clkCtrl_CalcAndSendTimeDiff(c)
    BY <2>3 DEF clkCtrl_CalcAndSendTimeDiff, tempVars
  <2>4. CASE clkCtrl_CheckTimerVal(c)
    BY <2>4 DEF clkCtrl_CheckTimerVal, tempVars
  <2> QED
    BY <1>5, <2>1, <2>2, <2>3, <2>4
<1>6. RatesChange => UNCHANGED <<phase, own, hot>> /\ phase \notin {10, 11}
  BY DEF RatesChange, tempVars
<1>7. ASSUME UNCHANGED vars PROVE TempInv'
  BY <1>7 DEF vars, tempVars, TempInv, TooHot
<1> QED
  BY <1>1, <1>2, <1>3, <1>4, <1>5, <1>6, <1>7, StepCases

\* No comparison fails while the rates are tolerable.
LEMMA NoAlarmPreserved ==
  ASSUME TypeInv, RateInv, TimeInv, InTimeInv, ElapsedInv, NoFalseAlarm, [Next]_vars
  PROVE  NoFalseAlarm'
<1> USE DEF InSlice
<1>1. ASSUME NEW c \in C, TIM_CheckAndSetTimerVal(c), ~off PROVE failSafe' = failSafe
  <2>1. phase = 3 /\ c \notin done
    BY <1>1 DEF TIM_CheckAndSetTimerVal
  <2>2. curr[c] = time[c] /\ curr[Peer(c)] = time[Peer(c)]
    BY <2>1, PeerFacts DEF TimeInv
  <2>3. first[c] \/ (InTime(curr[Peer(c)], remote[c]) /\ InTime(curr[c], local[c]))
    BY <1>1, <2>1, <2>2 DEF InTimeInv
  <2> QED
    BY <1>1, <2>3 DEF TIM_CheckAndSetTimerVal
<1>2. ASSUME NEW c \in C, clkCtrl_CheckTimerVal(c), ~off PROVE failSafe' = failSafe
  <2>1. Close(diff[C1], diff[C2])
    BY <1>2 DEF clkCtrl_CheckTimerVal, ElapsedInv
  <2>2. PICK a \in Nat, b \in Nat : a = diff[C1] /\ b = diff[C2]
    <3>1. \A d \in C : diff[d] \in Nat
      BY TypeFacts, TimerFacts
    <3> QED
      BY <3>1, PeerFacts
  <2>3. ASSUME a >= TimeDiff, b >= TimeDiff PROVE ~Deviates(a, b) /\ ~Deviates(b, a)
    <3>1. ~Deviates(a, b)
      BY <2>1, <2>2, <2>3, LimitFacts DEF Close
    <3> QED
      BY <3>1, NotDeviating
  <2>4. CASE c = C1
    BY <1>2, <2>2, <2>3, <2>4 DEF clkCtrl_CheckTimerVal, FailIf, Peer
  <2>5. CASE c = C2
    BY <1>2, <2>2, <2>3, <2>5, TwoControllers DEF clkCtrl_CheckTimerVal, FailIf, Peer
  <2> QED
    BY <2>4, <2>5 DEF C
<1>3. ASSUME NEW c \in C, tmSRV_SyncTemperature(c)
      PROVE  /\ off' = off
             /\ failSafe' \in {failSafe, [failSafe EXCEPT ![c] = "TEMPERATURE_ERR"]}
  BY <1>3 DEF tmSRV_SyncTemperature, FailIf
<1>4. ASSUME NEW c \in C,
             \/ TIM_SendTimerVal(c) \/ tmSRV_CheckTemperature(c) \/ clkCtrl_CalcAndSendTimeDiff(c)
      PROVE  UNCHANGED <<off, failSafe>>
  BY <1>4 DEF TIM_SendTimerVal, tmSRV_CheckTemperature, clkCtrl_CalcAndSendTimeDiff
<1>5. NextSlice \/ UNCHANGED vars => UNCHANGED <<off, failSafe>>
  BY DEF NextSlice, vars
<1>6. RatesChange => (~off' => ~off) /\ failSafe' = failSafe
  BY DEF RatesChange
<1>7. ASSUME NEW c \in C, TIM_CheckAndSetTimerVal(c) \/ clkCtrl_CheckTimerVal(c)
      PROVE  off' = off
  BY <1>7 DEF TIM_CheckAndSetTimerVal, clkCtrl_CheckTimerVal
<1>8. ASSUME ~off', failSafe' = failSafe, ~off' => ~off PROVE NoFalseAlarm'
  BY <1>8 DEF NoFalseAlarm
<1>9. ASSUME NEW c \in C, tmSRV_SyncTemperature(c), ~off' PROVE NoFalseAlarm'
  <2>1. \A d \in C : failSafe'[d] \in {failSafe[d], "TEMPERATURE_ERR"}
    BY <1>3, <1>9 DEF TypeInv
  <2> QED
    BY <1>3, <1>9, <2>1 DEF NoFalseAlarm
<1> SUFFICES ASSUME ~off' PROVE NoFalseAlarm'
  BY DEF NoFalseAlarm
<1> QED
  BY <1>1, <1>2, <1>4, <1>5, <1>6, <1>7, <1>8, <1>9, StepCases

\* The invariant holds when the controllers start.
LEMMA InitInvariant == Init => IInv
<1> SUFFICES ASSUME Init PROVE IInv
  OBVIOUS
<1>1. Wrap \in Nat /\ Wrap > 2
  BY TimerFacts, LimitFacts
<1>2. Threshold \in Nat /\ FilterSize \in Nat /\ 1 <= Threshold /\ Threshold <= FilterSize
  BY FilterAssumption
<1>3. TypeInv
  <2>1. 0 \in 0 .. Wrap - 1 /\ 1 \in 0 .. Wrap - 1 /\ 0 .. 1 \subseteq 0 .. Wrap - 1
    BY <1>1
  <2>2. start \in [C -> 0 .. Wrap - 1]
    BY <2>1 DEF Init
  <2>3. off \in BOOLEAN
    BY DEF Init, Tolerable
  <2>4. hot \in [C -> 0 .. Threshold] /\ rate \in [C -> Rates]
    BY <1>2, TimerFacts DEF Init
  <2>5. results \in [C -> [1 .. FilterSize -> BOOLEAN]]
    BY DEF Init
  <2> QED
    BY <2>1, <2>2, <2>3, <2>4, <2>5 DEF Init, TypeInv
<1>4. StopInv /\ NoFalseAlarm
  BY DEF Init, StopInv, NoFalseAlarm
<1>5. RateInv
  BY PeerFacts DEF Init, RateInv
<1>6. TimeInv /\ InTimeInv
  BY DEF Init, TimeInv, InTimeInv
<1>7. ElapsedInv
  <2>1. ASSUME NEW c \in C PROVE Elapsed(c) \in 0 .. 1
    <3>1. time[c] = 1 /\ start[c] \in 0 .. 1
      BY DEF Init
    <3>2. (1 - 0) % Wrap = 1 /\ (1 - 1) % Wrap = 0
      <4>1. 1 - 0 \in 0 .. Wrap - 1 /\ 1 - 1 \in 0 .. Wrap - 1
        BY <1>1
      <4> QED
        BY <4>1, TimerFacts, ModuloRanges
    <3> QED
      BY <3>1, <3>2 DEF Elapsed
  <2>2. Close(Elapsed(C1), Elapsed(C2))
    <3>1. Elapsed(C1) \in 0 .. 1 /\ Elapsed(C2) \in 0 .. 1
      BY <2>1, PeerFacts
    <3> QED
      BY <3>1 DEF Close
  <2> QED
    BY <2>2 DEF Init, ElapsedInv
<1>8. HotInv
  <2>1. ASSUME NEW c \in C PROVE hot[c] = 0 /\ \A i \in 1 .. FilterSize : ~results[c][i]
    BY DEF Init
  <2>2. ASSUME NEW c \in C PROVE ~TestFailed(results[c])
    <3>1. SUFFICES ASSUME NEW i \in 1 .. FilterSize - Threshold + 1
                   PROVE  ~(\A j \in i .. i + Threshold - 1 : results[c][j])
      BY DEF TestFailed
    <3>2. i \in i .. i + Threshold - 1 /\ i \in 1 .. FilterSize
      BY <1>2
    <3> QED
      BY <2>1, <3>2
  <2>3. 0 + 1 \in 1 .. FilterSize
    BY <1>2
  <2> QED
    BY <2>1, <2>2, <2>3 DEF HotInv
<1>9. TempInv
  <2>1. phase = 2 /\ \A c \in C : hot[c] = 0
    BY DEF Init
  <2>2. 0 < Threshold
    BY <1>2
  <2>3. \A c \in C : hot[c] < Threshold
    BY <2>1, <2>2
  <2> QED
    BY <2>1, <2>3 DEF TempInv
<1> QED
  BY <1>3, <1>4, <1>5, <1>6, <1>7, <1>8, <1>9 DEF IInv

\* Every step keeps it.
LEMMA StepInvariant == IInv /\ [Next]_vars => IInv'
  BY TypePreserved, StopPreserved, RatePreserved, TimesPreserved, InTimePreserved,
    ElapsedPreserved, HotPreserved, TempPreserved, NoAlarmPreserved DEF IInv

-----------------------------------------------------------------------------
(* The theorems *)

\* The values of the variables stay in their ranges: in particular no timer
\* exceeds its width.
THEOREM TypeCorrect == Spec => []TypeInv
<1>1. IInv => TypeInv
  BY DEF IInv
<1> QED
  BY InitInvariant, StepInvariant, <1>1, PTL DEF Spec

\* Both controllers see the same system time, though their clocks differ, and
\* draw the same conclusion from their temperatures: they stop exactly if one
\* has measured Threshold values out of range in a row (TIM_TimeGet_128us,
\* tmSRV_SyncTemperature).
THEOREM SameConclusions == Spec => []ConclusionsAgree
<1>1. ASSUME IInv PROVE SameSystemTime
  <2>1. \A c \in C : phase \notin {2, 3} => local[c] = time[c] /\ remote[c] = time[Peer(c)]
    BY <1>1 DEF IInv, TimeInv, HasTimes
  <2>2. Peer(C2) = C1
    BY TwoControllers DEF Peer
  <2> QED
    BY <2>1, <2>2, PeerFacts DEF SameSystemTime, TIM_TimeGet_128us
<1>2. ASSUME IInv PROVE TemperatureAgreed
  <2>1. SUFFICES ASSUME phase = 11, done = C, NEW c \in C
                 PROVE  failSafe[c] # "none" <=> \E d \in C : hot[d] >= Threshold
    BY DEF TemperatureAgreed
  <2>2. failSafe[c] # "none" <=> TooHot(c)
    BY <1>2, <2>1 DEF IInv, TempInv
  <2>3. \A d \in C : own[d] = "FAILED" <=> hot[d] >= Threshold
    BY <1>2, <2>1 DEF IInv, TempInv
  <2> QED
    BY <2>2, <2>3, PeerFacts DEF TooHot
<1>3. IInv => ConclusionsAgree
  BY <1>1, <1>2 DEF ConclusionsAgree
<1> QED
  BY InitInvariant, StepInvariant, <1>3, PTL DEF Spec

\* Clocks that count tolerably never cause an alarm, neither by the time of a
\* cycle nor by the elapsed time, however the timers overflow and whenever the
\* controllers have started (TIM_CheckAndSetTimerVal, clkCtrl_CheckTimerVal).
THEOREM TolerableClocksRun == Spec => []NoFalseAlarm
<1>1. IInv => NoFalseAlarm
  BY DEF IInv
<1> QED
  BY InitInvariant, StepInvariant, <1>1, PTL DEF Spec

================================================================================
