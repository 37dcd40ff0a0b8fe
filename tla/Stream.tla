------------------------------- MODULE Stream -------------------------------
(***************************************************************************)
(* How the periodic callbacks at the two ends of a ring get on with each   *)
(* other, in frames: onPushIO and onFLX4IO in the helper (AudioEngine.cpp),*)
(* OnReadClientInput and OnWriteMixedOutput in the plugin                  *)
(* (PluginHandler.cpp).  A write() that finds no room loses its buffer, a  *)
(* read() that finds too little gives silence; nobody looks at how full    *)
(* the ring is, and nothing is done about it when IO starts or stops.      *)
(*                                                                         *)
(* For an input stream the writer is in the helper and the readers are the *)
(* clients of the virtual device; for an output stream it is the other way *)
(* round, and there is one reader.  That a read() takes the oldest frames  *)
(* and that the calls are atomic is what SPSCRingBuffer is about.          *)
(*                                                                         *)
(* Both ends run on one clock, as the Push's do, and those of the FLX4 once*)
(* resampled exactly.  A callback may be early or late: lead is how many   *)
(* frames the writer has been called for beyond those a reader has.        *)
(***************************************************************************)
EXTENDS Integers

CONSTANTS
  Capacity,      \* frames the ring has room for
  WriterFrames,  \* frames in a buffer of the writer
  ReaderFrames,  \* frames in a buffer of a reader
  Readers,       \* who reads: a callback of the helper, or clients
  Surplus,       \* frames onFLX4IO reads more than it plays, once resampling
  Window         \* how far lead may get from zero

ASSUME StreamAssumption ==
  /\ Capacity \in Nat /\ Surplus \in Nat /\ Window \in Nat
  /\ WriterFrames \in Nat \ {0} /\ ReaderFrames \in Nat \ {0}
  /\ WriterFrames <= Window /\ ReaderFrames <= Window

(* "Enough runway": the ring has room for a buffer and for the jitter.     *)
ASSUME RunwayAssumption == Capacity >= WriterFrames + 2 * Window

VARIABLES
  fill,      \* frames in the ring
  writing,   \* is the writer's IO running?
  reading,   \* the readers whose IO is running
  ready,     \* dllReady: both trackers have become stable
  lead,      \* per reader: frames written for less frames read for
  heard,     \* per reader: what its last callback got
  dropped,   \* did the writer's last callback lose its buffer?
  silences,  \* history: silent buffers since IO last started or stopped
  drops,     \* history: buffers lost since then
  backlog    \* history: what the ring held then, at most NearlyFull

vars == <<fill, writing, reading, ready, lead, heard, dropped, silences, drops,
          backlog>>

Level == [r \in Readers |-> 0]
MaxSilences == 1 + (Window - 1) \div ReaderFrames
MaxDrops == 1 + (Window - 1) \div WriterFrames
NearlyFull == Capacity - WriterFrames - Window + 1
Count(n, bound) == IF n > bound THEN n ELSE n + 1    \* stops beyond its bound

Init == /\ fill = 0 /\ writing = FALSE /\ reading = {} /\ ready = FALSE
        /\ lead = Level /\ heard = [r \in Readers |-> "nothing"]
        /\ dropped = FALSE /\ silences = 0 /\ drops = 0 /\ backlog = 0

-----------------------------------------------------------------------------
(* Mutants: plausible mistakes, each of which breaks a property below.     *)

(* A reader that takes a frame more than it plays.                         *)
NeededOneMore == ReaderFrames + 1

(* A short read that takes what there is and plays none of it.             *)
ReaderCallbackPartial(r) ==
  /\ r \in reading
  /\ writing => lead[r] - ReaderFrames >= -Window
  /\ lead' = [lead EXCEPT ![r] = IF writing THEN @ - ReaderFrames ELSE 0]
  /\ fill' = IF fill >= ReaderFrames THEN fill - ReaderFrames ELSE 0
  /\ heard' = [heard EXCEPT ![r] = IF fill >= ReaderFrames THEN "audio"
                                                          ELSE "silence"]
  /\ silences' = IF fill >= ReaderFrames THEN silences
                                         ELSE Count(silences, MaxSilences)
  /\ UNCHANGED <<writing, reading, ready, dropped, drops, backlog>>

(* A read() that forgets to move the tail.                                 *)
ReaderCallbackInPlace(r) ==
  /\ r \in reading
  /\ writing => lead[r] - ReaderFrames >= -Window
  /\ lead' = [lead EXCEPT ![r] = IF writing THEN @ - ReaderFrames ELSE 0]
  /\ heard' = [heard EXCEPT ![r] = IF fill >= ReaderFrames THEN "audio"
                                                          ELSE "silence"]
  /\ silences' = IF fill >= ReaderFrames THEN silences
                                         ELSE Count(silences, MaxSilences)
  /\ UNCHANGED <<fill, writing, reading, ready, dropped, drops, backlog>>

-----------------------------------------------------------------------------
(* A write() of the writer's callback, whose result is ignored.            *)
WriterCallback ==
  /\ writing
  /\ \A r \in reading : lead[r] + WriterFrames <= Window
  /\ lead' = [r \in Readers |->
                IF r \in reading THEN lead[r] + WriterFrames ELSE 0]
  /\ IF fill + WriterFrames <= Capacity
     THEN /\ fill' = fill + WriterFrames /\ dropped' = FALSE
          /\ UNCHANGED drops
     ELSE /\ dropped' = TRUE /\ drops' = Count(drops, MaxDrops)
          /\ UNCHANGED fill
  /\ UNCHANGED <<writing, reading, ready, heard, silences, backlog>>

(* inputNeeded: onFLX4IO asks for 4 frames more than it resamples, and does*)
(* not look at input_frames_used.  All others read what they play.         *)
Needed == ReaderFrames + (IF ready THEN Surplus ELSE 0)

ReaderCallback(r) ==
  /\ r \in reading
  /\ writing => lead[r] - ReaderFrames >= -Window
  /\ lead' = [lead EXCEPT ![r] = IF writing THEN @ - ReaderFrames ELSE 0]
  /\ IF fill >= Needed
     THEN /\ fill' = fill - Needed
          /\ heard' = [heard EXCEPT ![r] = "audio"]
          /\ UNCHANGED silences
     ELSE /\ heard' = [heard EXCEPT ![r] = "silence"]
          /\ silences' = Count(silences, MaxSilences)
          /\ UNCHANGED fill
  /\ UNCHANGED <<writing, reading, ready, dropped, drops, backlog>>

(* Both trackers have had enough updates; they keep them.                  *)
BecomeReady == /\ ~ready /\ ready' = TRUE
               /\ UNCHANGED <<fill, writing, reading, lead, heard, dropped,
                              silences, drops, backlog>>

(* IO starts or stops at one end.  Neither OnStartIO nor OnStopIO touches  *)
(* the rings, nor does the engine's start().                               *)
Restart == /\ lead' = Level /\ silences' = 0 /\ drops' = 0
           /\ backlog' = IF fill < NearlyFull THEN fill ELSE NearlyFull
           /\ UNCHANGED <<fill, ready, heard, dropped>>

StartWriter == /\ ~writing /\ writing' = TRUE
               /\ Restart /\ UNCHANGED reading
StopWriter == /\ writing /\ writing' = FALSE
              /\ Restart /\ UNCHANGED reading
StartReader(r) == /\ r \notin reading /\ reading' = reading \cup {r}
                  /\ Restart /\ UNCHANGED writing
StopReader(r) == /\ r \in reading /\ reading' = reading \ {r}
                 /\ Restart /\ UNCHANGED writing

-----------------------------------------------------------------------------
Next == \/ WriterCallback \/ BecomeReady \/ StartWriter \/ StopWriter
        \/ \E r \in Readers : ReaderCallback(r) \/ StartReader(r) \/ StopReader(r)

Spec == Init /\ [][Next]_vars

(* CoreAudio goes on calling an IOProc, the HAL an IO handler.             *)
FairSpec == /\ Spec
            /\ WF_vars(WriterCallback)
            /\ \A r \in Readers : WF_vars(ReaderCallback(r))

-----------------------------------------------------------------------------
TypeOK == /\ fill \in 0 .. Capacity
          /\ writing \in BOOLEAN /\ reading \subseteq Readers
          /\ ready \in BOOLEAN /\ dropped \in BOOLEAN
          /\ lead \in [Readers -> -Window .. Window]
          /\ heard \in [Readers -> {"nothing", "audio", "silence"}]
          /\ silences \in 0 .. MaxSilences + 1 /\ drops \in 0 .. MaxDrops + 1
          /\ backlog \in 0 .. NearlyFull

(* The writer and one client run.  Clients may have come and gone before.  *)
AllRun == writing /\ \E r \in Readers : reading = {r}

(* However full or empty the ring is when IO starts, a stream that goes on *)
(* at both ends has a bounded number of silent and of lost buffers.        *)
FewGlitches == AllRun => silences <= MaxSilences /\ drops <= MaxDrops

(* The inductive invariant behind it, for streams without a surplus:       *)
(* slack, the fill as it would be with no jitter, is moved by glitches     *)
(* only, a silence up and a loss down, and no loss leaves too little.      *)
Slack(r) == fill - lead[r]
StreamInv ==
  /\ TypeOK
  /\ AllRun => \A r \in reading :
       /\ Slack(r) <= Capacity
       /\ drops * WriterFrames <= Capacity - Slack(r)
       /\ drops = 0 => silences * ReaderFrames <= Slack(r)
       /\ drops > 0 => Slack(r) >= Window
       /\ silences <= MaxSilences /\ drops <= MaxDrops
       /\ Slack(r) >= backlog

(* A loss is the end of silences: after it the ring holds, jitter or not,  *)
(* a buffer of the reader's whenever that is called.  So a stream that goes*)
(* on is never silent and overfull by turns.                               *)
LossEndsSilence ==
  [][AllRun /\ AllRun' /\ drops > 0 => silences' = silences]_vars

(* And from some time on it has none: after a silence the ring is a buffer *)
(* fuller than before, after a loss a buffer emptier, and it is large      *)
(* enough for the one never to bring about the other.                      *)
SettlesDown ==
  <>[]AllRun => <>[](~dropped /\ \A r \in reading : heard[r] = "audio")

(* What an earlier client left behind, or the writer wrote for nobody, is  *)
(* never made up for: as long as the stream goes on, every callback finds  *)
(* the backlog that was there when it started, less the jitter; only what  *)
(* exceeds NearlyFull can get lost.                                        *)
BacklogLasts == AllRun => fill >= backlog - Window

(* Clients that read at the same time starve each other: each takes what   *)
(* another should have had, whatever backlog they start with.              *)
ClientsStarve ==
  <>[](writing /\ \E r, s \in reading : r # s)
     => []<>(\E r \in reading : heard[r] = "silence")
=============================================================================
