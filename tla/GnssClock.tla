------------------------------ MODULE GnssClock ------------------------------
(***************************************************************************)
(* The GPS receiver and the clock.  Once a second the receiver sends a     *)
(* burst of sentences; some are lost.  RMC carries the time and the date,  *)
(* GGA the time alone, and any valid sentence may set the clock from what  *)
(* was heard last.  The speed of the line is found by trial.               *)
(***************************************************************************)
EXTENDS Integers, Sequences

CONSTANTS
  Bursts,      \* the orders in which receivers send the sentences of a second
  DAY,         \* seconds in a day
  INTERVAL,    \* TIME_SYNC_GNSS_MIN_INTERVAL
  PROBE,       \* GNSS_BAUD_PROBE: seconds without a valid sentence at a speed,
  PROBE_BYTES, \* in which so much was received, in sentences
  Bauds,       \* GNSS_BAUD_CANDIDATE_COUNT
  RightBaud,   \* the speed the receiver sends at
  None,
  MaxTime, MaxLost, MaxUser   \* bounds: the clock, sentences lost, user and network acts

VARIABLES
  burst,           \* external: the order this receiver has
  now, left,       \* external: the true time, and what is left of the burst
  fix,             \* external: the receiver sees its satellites
  power_on,
  gnss_rmc_fix, gnss_gga_fix,
  utc_time, utc_date,
  time_sync_source, time_sync_last_gnss_try,
  error,           \* the clock less the true time, once it was set
  gnss_baud_index, gnss_baud_set, gnss_seen_valid_sentence,
  clean,           \* ghost: whole bursts with a fix heard in a row
  powered_at, missed,   \* ghosts: when it was powered; a sentence was lost since
  bounds

GnssAssumption ==
  /\ Bursts \subseteq Seq(STRING) /\ << >> \notin Bursts
  /\ {DAY, INTERVAL, PROBE, MaxTime} \subseteq Nat \ {0} /\ {MaxLost, MaxUser, Bauds} \subseteq Nat
  /\ RightBaud \in 0 .. Bauds - 1 /\ None \notin Int
  /\ PROBE_BYTES \in 0 .. PROBE   \* 64 bytes in 6 seconds: less than a sentence in each

session == <<gnss_rmc_fix, gnss_gga_fix, utc_time, utc_date>>
sync == <<time_sync_source, time_sync_last_gnss_try, error>>
line == <<gnss_baud_index, gnss_baud_set, gnss_seen_valid_sentence>>
ghosts == <<clean, powered_at, missed>>
vars == <<burst, now, left, fix, power_on, session, sync, line, ghosts, bounds>>

TypeOK ==
  /\ burst \in Bursts /\ now \in 1 .. MaxTime /\ Len(left) <= Len(burst) /\ fix \in BOOLEAN
  /\ power_on \in BOOLEAN /\ gnss_rmc_fix \in BOOLEAN /\ gnss_gga_fix \in BOOLEAN
  /\ utc_time \in (0 .. DAY - 1) \cup {None} /\ utc_date \in (0 .. MaxTime) \cup {None}
  /\ time_sync_source \in {"none", "ntp", "gps"}
  /\ time_sync_last_gnss_try \in 0 .. MaxTime /\ error \in -MaxTime .. MaxTime
  /\ gnss_baud_index \in 0 .. Bauds - 1 /\ gnss_baud_set \in 0 .. MaxTime
  /\ gnss_seen_valid_sentence \in BOOLEAN
  /\ clean \in 0 .. MaxTime /\ powered_at \in 0 .. MaxTime /\ missed \in BOOLEAN
  /\ bounds \in [lost : 0 .. MaxLost, user : 0 .. MaxUser]

Init ==
  /\ burst \in Bursts /\ now = 1 /\ left = << >> /\ fix = FALSE /\ power_on = FALSE
  /\ gnss_rmc_fix = FALSE /\ gnss_gga_fix = FALSE /\ utc_time = None /\ utc_date = None
  /\ time_sync_source = "none" /\ time_sync_last_gnss_try = 0 /\ error = 0
  /\ gnss_baud_index = 0 /\ gnss_baud_set = 0 /\ gnss_seen_valid_sentence = FALSE
  /\ clean = 0 /\ powered_at = 0 /\ missed = FALSE
  /\ bounds = [lost |-> 0, user |-> 0]

-----------------------------------------------------------------------------
(* gnssHandleSentence.                                                     *)

\* Mutant: the time is left to GGA.
gnssParseRmcDateOnly(given) ==
  /\ gnss_rmc_fix' = fix /\ UNCHANGED <<gnss_gga_fix, utc_time>>
  /\ utc_date' = (IF given THEN now \div DAY ELSE utc_date)

\* Empty fields leave what was heard before; without a fix the receiver may
\* still know the time.
gnssParseRmc(given) ==
  /\ gnss_rmc_fix' = fix /\ UNCHANGED gnss_gga_fix
  /\ utc_time' = (IF given THEN now % DAY ELSE utc_time)
  /\ utc_date' = (IF given THEN now \div DAY ELSE utc_date)
gnssParseGga(given) ==
  /\ gnss_gga_fix' = fix /\ UNCHANGED <<gnss_rmc_fix, utc_date>>
  /\ utc_time' = (IF given THEN now % DAY ELSE utc_time)

\* timeSyncMaybeFromGnss, with the session as the sentence has left it.
timeSyncMaybeFromGnss ==
  IF /\ gnss_rmc_fix' \/ gnss_gga_fix'
     /\ utc_time' # None /\ utc_date' # None
     /\ time_sync_last_gnss_try = 0 \/ now - time_sync_last_gnss_try >= INTERVAL
  THEN /\ time_sync_last_gnss_try' = now /\ time_sync_source' = "gps"
       /\ error' = utc_date' * DAY + utc_time' - now
  ELSE UNCHANGED sync

Heard(kind) ==
  /\ power_on /\ gnss_baud_index = RightBaud
  /\ gnss_seen_valid_sentence' = TRUE
  /\ \E given \in BOOLEAN :
       /\ fix => given
       /\ CASE kind = "RMC" -> gnssParseRmc(given)
            [] kind = "GGA" -> gnssParseGga(given)
            [] OTHER -> UNCHANGED session
  /\ timeSyncMaybeFromGnss
  /\ clean' = (IF fix THEN clean + (IF Len(left) = 1 THEN 1 ELSE 0) ELSE 0)
  /\ UNCHANGED <<missed, bounds>>

\* A wrong checksum, a line too long, or a line that runs at another speed.
Garbled ==
  /\ power_on /\ UNCHANGED <<session, sync, gnss_seen_valid_sentence>>
  /\ clean' = 0
  /\ IF gnss_baud_index = RightBaud
     THEN /\ bounds.lost < MaxLost /\ bounds' = [bounds EXCEPT !.lost = @ + 1]
          /\ missed' = TRUE
     ELSE UNCHANGED <<missed, bounds>>

Sentence ==
  /\ left # << >> /\ left' = Tail(left)
  /\ \/ Heard(Head(left))
     \/ Garbled
     \/ /\ ~power_on /\ UNCHANGED <<session, sync, gnss_seen_valid_sentence, clean, missed, bounds>>
  /\ UNCHANGED <<burst, now, fix, power_on, gnss_baud_index, gnss_baud_set, powered_at>>

\* A receiver that is on sends a whole burst in a second, at whatever speed it is read.
EnoughBytes == (now - gnss_baud_set) * Len(burst) >= PROBE_BYTES

\* Mutants: the speed changes though sentences are heard; it goes past the last one.
ProbeDueAnyway ==
  power_on /\ gnss_baud_index + 1 < Bauds /\ now - gnss_baud_set >= PROBE /\ EnoughBytes
ProbeDuePastLast ==
  power_on /\ ~gnss_seen_valid_sentence /\ now - gnss_baud_set >= PROBE /\ EnoughBytes

\* gnssMaybeProbeNextBaud, in the poll that ends a burst; then the next second.
ProbeDue ==
  /\ power_on /\ ~gnss_seen_valid_sentence
  /\ gnss_baud_index + 1 < Bauds /\ now - gnss_baud_set >= PROBE /\ EnoughBytes
Second ==
  /\ left = << >> /\ now < MaxTime
  /\ IF ProbeDue
     THEN gnss_baud_index' = gnss_baud_index + 1 /\ gnss_baud_set' = now
     ELSE UNCHANGED <<gnss_baud_index, gnss_baud_set>>
  /\ now' = now + 1 /\ left' = burst
  /\ fix' \in BOOLEAN
  /\ UNCHANGED <<burst, power_on, session, sync, gnss_seen_valid_sentence, ghosts, bounds>>

-----------------------------------------------------------------------------
(* The user and the network.                                               *)

Act == bounds.user < MaxUser /\ bounds' = [bounds EXCEPT !.user = @ + 1]

\* A session begins: nothing heard yet, and the probe's time starts.
gnssResetSessionData ==
  /\ utc_time' = None /\ utc_date' = None
  /\ gnss_baud_set' = now

\* gnssSetPower, either way; power-on tries the first speed first.
gnssSetPower ==
  /\ Act /\ power_on' = ~power_on
  /\ gnss_rmc_fix' = FALSE /\ gnss_gga_fix' = FALSE /\ gnss_seen_valid_sentence' = FALSE
  /\ clean' = 0 /\ missed' = FALSE
  /\ IF power_on
     THEN UNCHANGED <<utc_time, utc_date, gnss_baud_index, gnss_baud_set, powered_at, left>>
     ELSE /\ gnssResetSessionData
          /\ gnss_baud_index' = 0 /\ powered_at' = now /\ left' = << >>
  /\ UNCHANGED <<burst, now, fix, sync>>

\* wifiSyncClockNtp sets the clock behind the receiver's back.
timeSyncMarkNtp ==
  /\ Act /\ time_sync_source' = "ntp" /\ error' = 0
  /\ UNCHANGED <<burst, now, left, fix, power_on, session, time_sync_last_gnss_try, line, ghosts>>

Next == Sentence \/ Second \/ gnssSetPower \/ timeSyncMarkNtp

Spec == Init /\ [][Next]_vars

-----------------------------------------------------------------------------
(* Properties.                                                             *)

\* The clock is never ahead.  While every sentence is heard it is a second behind at
\* most, but for a synchronisation in the first second of a day: a GGA of the new
\* day goes with the date of the last one, until the next synchronisation.
ClockFollows ==
  time_sync_source # "none" =>
    /\ error <= 0
    /\ clean > INTERVAL + 1 => error >= -1 \/ time_sync_last_gnss_try % DAY = 0

\* The speed of the receiver is found within one probe per candidate, and kept;
\* lost sentences alone make the probe run past it.
SpeedFound ==
  power_on /\ ~missed =>
    /\ gnss_baud_index <= RightBaud
    /\ now - powered_at > RightBaud * (PROBE + 1) => gnss_baud_index = RightBaud
=============================================================================
