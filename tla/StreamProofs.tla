---------------------------- MODULE StreamProofs ----------------------------
(***************************************************************************)
(* Proofs about Stream, for every capacity, every two buffer sizes and     *)
(* every amount of jitter: without a surplus, and while one reader runs, a *)
(* stream that goes on at both ends has few silent and few lost buffers,   *)
(* and keeps the backlog it started with.                                  *)
(***************************************************************************)
EXTENDS Stream, TLAPS

NoSurplus == Surplus = 0    \* all streams but the FLX4's output

(* Glitches that each moved the slack by Frames, and have not moved it     *)
(* beyond the window, are no more than fit into it.                        *)
LEMMA FitsWindow ==
  ASSUME NEW n \in Nat, NEW frames \in Nat \ {0}, NEW w \in Nat \ {0},
         n * frames < w
  PROVE  n + 1 <= 1 + (w - 1) \div frames
<1> DEFINE q == (w - 1) \div frames
<1>1. q \in Nat /\ w - 1 < (q + 1) * frames
  OBVIOUS
<1>2. SUFFICES ASSUME n >= q + 1 PROVE FALSE
  BY <1>1
<1>3. n * frames >= (q + 1) * frames
  <2>1. PICK k \in Nat : n = q + 1 + k
    BY <1>1, <1>2
  <2>2. n * frames = (q + 1) * frames + k * frames
    BY <1>1, <2>1
  <2>3. k * frames >= 0
    OBVIOUS
  <2> QED
    BY <1>1, <2>2, <2>3
<1> QED
  BY <1>1, <1>3

LEMMA OneMore ==
  ASSUME NEW n \in Nat, NEW frames \in Nat
  PROVE  (n + 1) * frames = n * frames + frames
  OBVIOUS

(* Counts that keep to their bounds do not stop counting.                  *)
LEMMA CountsOn == ASSUME NEW n \in Nat, NEW bound \in Nat, n <= bound
                  PROVE  Count(n, bound) = n + 1
  BY DEF Count

LEMMA BoundsAreNat == /\ MaxSilences \in Nat /\ MaxDrops \in Nat
                      /\ Window \in Nat \ {0}
<1>1. Window \in Nat \ {0} /\ Window - 1 \in Nat
  BY StreamAssumption
<1>2. \A f \in Nat \ {0} : (Window - 1) \div f \in Nat
  BY <1>1
<1> QED
  BY <1>1, <1>2, StreamAssumption DEF MaxSilences, MaxDrops

LEMMA NearlyFullFits == NearlyFull \in Nat /\ NearlyFull <= Capacity
  BY StreamAssumption, RunwayAssumption DEF NearlyFull

LEMMA InitStreamInv == Init => StreamInv
<1> SUFFICES ASSUME Init PROVE StreamInv
  OBVIOUS
<1> USE StreamAssumption, BoundsAreNat DEF Init
<1>1. lead \in [Readers -> -Window .. Window]
  BY DEF Level
<1>2. heard \in [Readers -> {"nothing", "audio", "silence"}]
  OBVIOUS
<1>3. fill \in 0 .. Capacity /\ silences \in 0 .. MaxSilences + 1
      /\ drops \in 0 .. MaxDrops + 1 /\ backlog \in 0 .. NearlyFull
  BY NearlyFullFits
<1>4. /\ writing \in BOOLEAN /\ reading \subseteq Readers
      /\ ready \in BOOLEAN /\ dropped \in BOOLEAN
  OBVIOUS
<1>5. TypeOK
  BY ONLY <1>1, <1>2, <1>3, <1>4 DEF TypeOK
<1> QED
  BY <1>5 DEF StreamInv, AllRun

(* When all runs, a lost buffer takes its size from the slack, which is    *)
(* more than Capacity - Window before and so at least Window after it.     *)
LEMMA WriterInv == StreamInv /\ WriterCallback => StreamInv'
<1> SUFFICES ASSUME StreamInv, WriterCallback PROVE StreamInv'
  OBVIOUS
<1> USE StreamAssumption, BoundsAreNat DEF WriterCallback
<1>1. TypeOK'
  <2>1. lead' \in [Readers -> -Window .. Window]
    BY DEF StreamInv, TypeOK
  <2>2. drops' \in 0 .. MaxDrops + 1
    BY DEF StreamInv, TypeOK, Count
  <2>3. fill' \in 0 .. Capacity
    BY DEF StreamInv, TypeOK
  <2> QED
    BY <2>1, <2>2, <2>3 DEF StreamInv, TypeOK
<1>2. ASSUME NEW r \in Readers, AllRun', reading' = {r}
      PROVE  /\ Slack(r)' <= Capacity
             /\ drops' * WriterFrames <= Capacity - Slack(r)'
             /\ drops' = 0 => silences' * ReaderFrames <= Slack(r)'
             /\ drops' > 0 => Slack(r)' >= Window
             /\ silences' <= MaxSilences /\ drops' <= MaxDrops
             /\ Slack(r)' >= backlog'
  <2>1. AllRun /\ r \in reading /\ backlog' = backlog
    BY <1>2 DEF AllRun
  <2>2. /\ Slack(r) <= Capacity
        /\ drops * WriterFrames <= Capacity - Slack(r)
        /\ drops = 0 => silences * ReaderFrames <= Slack(r)
        /\ drops > 0 => Slack(r) >= Window
        /\ silences <= MaxSilences /\ drops <= MaxDrops
        /\ Slack(r) >= backlog
    BY <2>1 DEF StreamInv
  <2>3. /\ lead[r] \in Int /\ fill \in Nat /\ drops \in Nat
        /\ lead'[r] = lead[r] + WriterFrames /\ lead'[r] <= Window
        /\ backlog \in Nat /\ backlog <= NearlyFull
    BY <2>1, NearlyFullFits DEF StreamInv, TypeOK
  <2>4. CASE fill + WriterFrames <= Capacity
    <3>1. Slack(r)' = Slack(r) /\ drops' = drops
      BY <2>3, <2>4 DEF Slack
    <3> QED
      BY <3>1, <2>1, <2>2
  <2>5. CASE ~(fill + WriterFrames <= Capacity)
    <3>1. Slack(r)' = Slack(r) - WriterFrames /\ drops' = drops + 1
      BY <2>2, <2>3, <2>5, CountsOn DEF Slack
    <3>2. Slack(r) \in Int /\ Slack(r) > Capacity - Window
      BY <2>3, <2>5 DEF Slack
    <3>3. Slack(r)' >= Window /\ Slack(r)' >= backlog
      BY <2>3, <3>1, <3>2, RunwayAssumption DEF NearlyFull
    <3>4. drops' * WriterFrames = drops * WriterFrames + WriterFrames
      BY <3>1, <2>3, OneMore
    <3>5. drops * WriterFrames \in Nat
      BY <2>3
    <3>6. drops * WriterFrames < Window
      BY <2>2, <3>2, <3>5
    <3>7. drops' <= MaxDrops
      BY <3>1, <3>6, <2>3, FitsWindow DEF MaxDrops
    <3>8. drops' * WriterFrames <= Capacity - Slack(r)'
      BY <2>2, <3>1, <3>2, <3>4, <3>5
    <3> QED
      BY <2>1, <2>2, <2>3, <3>1, <3>2, <3>3, <3>7, <3>8
  <2> QED
    BY <2>4, <2>5
<1> QED
  BY <1>1, <1>2 DEF StreamInv, AllRun

(* A silence finds a slack below Window, so none follows a loss, and adds  *)
(* a buffer to it.                                                         *)
LEMMA ReaderInv ==
  ASSUME NoSurplus, StreamInv, NEW r \in Readers, ReaderCallback(r)
  PROVE  StreamInv'
<1> USE StreamAssumption, BoundsAreNat DEF ReaderCallback
<1>1. Needed = ReaderFrames
  BY DEF NoSurplus, Needed
<1>2. TypeOK'
  <2>1. lead' \in [Readers -> -Window .. Window]
    BY DEF StreamInv, TypeOK
  <2>2. fill' \in 0 .. Capacity
    BY <1>1 DEF StreamInv, TypeOK
  <2>3. silences' \in 0 .. MaxSilences + 1
    BY DEF StreamInv, TypeOK, Count
  <2>4. heard' \in [Readers -> {"nothing", "audio", "silence"}]
    BY DEF StreamInv, TypeOK
  <2> QED
    BY <2>1, <2>2, <2>3, <2>4 DEF StreamInv, TypeOK
<1>3. ASSUME AllRun'
      PROVE  /\ Slack(r)' <= Capacity
             /\ drops' * WriterFrames <= Capacity - Slack(r)'
             /\ drops' = 0 => silences' * ReaderFrames <= Slack(r)'
             /\ drops' > 0 => Slack(r)' >= Window
             /\ silences' <= MaxSilences /\ drops' <= MaxDrops
             /\ Slack(r)' >= backlog'
  <2>1. AllRun /\ writing /\ backlog' = backlog
    BY <1>3 DEF AllRun
  <2>2. /\ Slack(r) <= Capacity
        /\ drops * WriterFrames <= Capacity - Slack(r)
        /\ drops = 0 => silences * ReaderFrames <= Slack(r)
        /\ drops > 0 => Slack(r) >= Window
        /\ silences <= MaxSilences /\ drops <= MaxDrops
        /\ Slack(r) >= backlog
    BY <2>1 DEF StreamInv
  <2>3. /\ lead[r] \in Int /\ fill \in Nat /\ drops \in Nat
        /\ silences \in Nat /\ backlog \in Nat
        /\ lead'[r] = lead[r] - ReaderFrames /\ lead'[r] >= -Window
    BY <2>1, NearlyFullFits DEF StreamInv, TypeOK
  <2>4. CASE fill >= ReaderFrames
    <3>1. Slack(r)' = Slack(r) /\ silences' = silences
      BY <1>1, <2>3, <2>4 DEF Slack
    <3> QED
      BY <3>1, <2>1, <2>2
  <2>5. CASE ~(fill >= ReaderFrames)
    <3>1. Slack(r)' = Slack(r) + ReaderFrames /\ silences' = silences + 1
      BY <1>1, <2>2, <2>3, <2>5, CountsOn DEF Slack
    <3>2. Slack(r) \in Int /\ Slack(r) < Window
      BY <2>3, <2>5 DEF Slack
    <3>3. drops = 0
      BY <2>2, <2>3, <3>2
    <3>4. silences' * ReaderFrames = silences * ReaderFrames + ReaderFrames
      BY <3>1, <2>3, OneMore
    <3>5. silences * ReaderFrames \in Nat
      BY <2>3
    <3>6. silences' <= MaxSilences
      BY <2>2, <2>3, <3>1, <3>2, <3>3, <3>5, FitsWindow DEF MaxSilences
    <3>7. Slack(r)' <= Capacity
      BY <3>1, <3>2, RunwayAssumption
    <3>8. silences' * ReaderFrames <= Slack(r)'
      BY <2>2, <3>1, <3>2, <3>3, <3>4, <3>5
    <3>9. drops' * WriterFrames = 0
      BY <3>3
    <3> QED
      BY <2>1, <2>2, <2>3, <3>1, <3>2, <3>3, <3>6, <3>7, <3>8, <3>9
  <2> QED
    BY <2>4, <2>5
<1>4. AllRun' => reading' = {r}
  BY DEF AllRun
<1> QED
  BY <1>2, <1>3, <1>4 DEF StreamInv

(* IO that starts or stops leaves the fill and starts the counts.          *)
LEMMA RestartInv ==
  StreamInv /\ Restart /\ writing' \in BOOLEAN /\ reading' \subseteq Readers
    => StreamInv'
<1> SUFFICES ASSUME StreamInv, Restart, writing' \in BOOLEAN,
                    reading' \subseteq Readers
             PROVE  StreamInv'
  OBVIOUS
<1> USE StreamAssumption, BoundsAreNat DEF Restart, Level
<1>1. TypeOK'
  BY NearlyFullFits DEF StreamInv, TypeOK
<1>2. \A r \in Readers :
        Slack(r)' = fill /\ fill \in 0 .. Capacity /\ fill >= backlog'
  BY NearlyFullFits DEF StreamInv, TypeOK, Slack
<1>3. drops' * WriterFrames = 0 /\ silences' * ReaderFrames = 0
  OBVIOUS
<1> QED
  BY <1>1, <1>2, <1>3 DEF StreamInv

(* StreamInv holds in every reachable state of a stream whose readers read *)
(* what they play.                                                         *)
THEOREM StreamInvariant == ASSUME NoSurplus PROVE Spec => []StreamInv
<1>1. StreamInv /\ [Next]_vars => StreamInv'
  <2> SUFFICES ASSUME StreamInv, [Next]_vars PROVE StreamInv'
    OBVIOUS
  <2>1. CASE UNCHANGED vars
    BY <2>1 DEF vars, StreamInv, TypeOK, AllRun, Slack
  <2>2. CASE WriterCallback
    BY <2>2, WriterInv
  <2>3. CASE BecomeReady
    BY <2>3 DEF BecomeReady, StreamInv, TypeOK, AllRun, Slack
  <2>4. CASE StartWriter \/ StopWriter
    BY <2>4, RestartInv DEF StartWriter, StopWriter, StreamInv, TypeOK
  <2>5. ASSUME NEW r \in Readers, ReaderCallback(r) PROVE StreamInv'
    BY <2>5, ReaderInv
  <2>6. ASSUME NEW r \in Readers, StartReader(r) \/ StopReader(r)
        PROVE  StreamInv'
    BY <2>6, RestartInv DEF StartReader, StopReader, StreamInv, TypeOK
  <2> QED
    BY <2>1, <2>2, <2>3, <2>4, <2>5, <2>6 DEF Next
<1> QED
  BY <1>1, InitStreamInv, PTL DEF Spec

(* However full or empty the ring is when IO starts, and whatever the      *)
(* jitter within its window, the Push's streams have a bounded number of   *)
(* silent and of lost buffers while the writer and one reader go on.       *)
THEOREM GlitchesAreFew == ASSUME NoSurplus PROVE Spec => []FewGlitches
<1>1. StreamInv => FewGlitches
  BY DEF StreamInv, FewGlitches, AllRun
<1> QED
  BY <1>1, StreamInvariant, PTL

(* A stream that has lost a buffer has one for its reader at every call,   *)
(* so its silences are over until IO starts or stops again.                *)
THEOREM LossesEndSilences ==
  ASSUME NoSurplus PROVE Spec => LossEndsSilence
<1>1. ASSUME StreamInv, [Next]_vars, AllRun, AllRun', drops > 0
      PROVE  silences' = silences
  <2>1. ASSUME NEW r \in Readers, ReaderCallback(r)
        PROVE  silences' = silences
    <3>1. Slack(r) >= Window /\ writing
      BY <1>1, <2>1 DEF StreamInv, AllRun, ReaderCallback
    <3>2. fill \in Int /\ lead[r] \in Int
      BY <1>1 DEF StreamInv, TypeOK
    <3>3. lead[r] - ReaderFrames >= -Window
      BY <2>1, <3>1 DEF ReaderCallback
    <3>4. fill >= ReaderFrames
      BY <3>1, <3>2, <3>3, StreamAssumption DEF Slack
    <3>5. Needed = ReaderFrames
      BY StreamAssumption DEF NoSurplus, Needed
    <3> QED
      BY <2>1, <3>4, <3>5 DEF ReaderCallback
  <2>2. ASSUME NEW r \in Readers, StartReader(r) \/ StopReader(r)
        PROVE  FALSE
    BY <1>1, <2>2 DEF AllRun, StartReader, StopReader
  <2>3. CASE WriterCallback \/ BecomeReady \/ UNCHANGED vars
    BY <2>3 DEF WriterCallback, BecomeReady, vars
  <2>4. CASE StartWriter \/ StopWriter
    BY <1>1, <2>4 DEF AllRun, StartWriter, StopWriter
  <2> QED
    BY <1>1, <2>1, <2>2, <2>3, <2>4 DEF Next
<1>2. StreamInv /\ [Next]_vars
        => [AllRun /\ AllRun' /\ drops > 0 => silences' = silences]_vars
  BY <1>1
<1> QED
  BY <1>2, StreamInvariant, PTL DEF Spec, LossEndsSilence

(* However long both ends go on, and whatever the jitter, the losses and   *)
(* the silences, every callback finds what the ring held when IO last      *)
(* started or stopped, less the jitter: nothing drains a backlog.          *)
THEOREM BacklogsLast == ASSUME NoSurplus PROVE Spec => []BacklogLasts
<1>1. ASSUME StreamInv, AllRun PROVE fill >= backlog - Window
  <2>1. PICK r \in Readers : reading = {r}
    BY <1>1 DEF AllRun
  <2>2. Slack(r) >= backlog
    BY <1>1, <2>1 DEF StreamInv
  <2>3. /\ fill \in Int /\ backlog \in Int /\ lead[r] \in Int
        /\ lead[r] >= -Window
    BY <1>1, NearlyFullFits, StreamAssumption DEF StreamInv, TypeOK
  <2> QED
    BY <2>2, <2>3, StreamAssumption DEF Slack
<1>2. StreamInv => BacklogLasts
  BY <1>1 DEF BacklogLasts
<1> QED
  BY <1>2, StreamInvariant, PTL
=============================================================================
